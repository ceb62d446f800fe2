---------------------------- MODULE BlobGCProofs ----------------------------
(***************************************************************************)
(* Theorems about BlobGC, for every number of digests, sources, syncs and  *)
(* collectors and any number of failures: the type invariant, and, when    *)
(* they all share one process, that what is referenced is stored.          *)
(*                                                                         *)
(* ReferencedIsStored is not inductive: a sync commits references to       *)
(* objects it found or put earlier, and a collector removes an object it   *)
(* found unreferenced earlier.  Covered says the first objects are still   *)
(* there, Doomed that the second is still unreferenced, and Exclusion,     *)
(* what referenceMu is for, that the two are never under way at once.      *)
(***************************************************************************)
EXTENDS BlobGC, TLAPS

-----------------------------------------------------------------------------

LEMMA TypeInit == Init => TypeOK
  BY FaultsAssumption DEF Init, TypeOK, Idle, State, At, Age

(* A step of one actor keeps the actors' types when its new state is sound. *)
Sound(r) ==
    /\ r \in State
    /\ r.pc \in {"put", "promote"} => r.source \in Sources
    /\ r.pc \in {"promote", "remove"} => r.digest \in Digests

LEMMA ActorStep ==
  ASSUME TypeOK, NEW a \in Actors, NEW r, Sound(r), Becomes(a, r),
         files' \in [Digests -> Age], rows' \in [Digests -> Age],
         refs' \in [Sources -> SUBSET Digests], faults' = faults
  PROVE  TypeOK'
<1> USE DEF TypeOK, Sound, Becomes
<1>1. actor' \in [Actors -> State]
  OBVIOUS
<1>2. \A b \in Actors : actor'[b] = IF b = a THEN r ELSE actor[b]
  OBVIOUS
<1>3. \A b \in Actors : actor'[b].pc \in {"put", "promote"} => actor'[b].source \in Sources
  BY <1>2
<1>4. \A b \in Actors : actor'[b].pc \in {"promote", "remove"} => actor'[b].digest \in Digests
  BY <1>2
<1> QED BY <1>1, <1>3, <1>4

(* The updates of a record that the actions make, apart from resets to Idle. *)
LEMMA SoundUpdates ==
  ASSUME NEW r \in State, NEW d \in Digests
  PROVE  /\ r.source \in Sources =>
              Sound([r EXCEPT !.pc = "promote", !.digest = d, !.staged = "young"])
         /\ r.source \in Sources =>
              Sound([r EXCEPT !.pc = "put", !.todo = @ \ {r.digest}, !.digest = None, !.staged = "none"])
         /\ Sound([r EXCEPT !.pc = "walk", !.digest = None, !.want = @ \cup {d}])
         /\ Sound([r EXCEPT !.pc = "remove", !.digest = d, !.todo = @ \ {d}])
         /\ r.pc = "walk" => Sound([r EXCEPT !.todo = @ \ {d}])
<1> USE DEF Sound, State, Age
<1>1. r.source \in Sources =>
        Sound([r EXCEPT !.pc = "promote", !.digest = d, !.staged = "young"])
  OBVIOUS
<1>2. r.source \in Sources =>
        Sound([r EXCEPT !.pc = "put", !.todo = @ \ {r.digest}, !.digest = None, !.staged = "none"])
  OBVIOUS
<1>3. Sound([r EXCEPT !.pc = "walk", !.digest = None, !.want = @ \cup {d}])
  OBVIOUS
<1>4. Sound([r EXCEPT !.pc = "remove", !.digest = d, !.todo = @ \ {d}])
  OBVIOUS
<1>5. r.pc = "walk" => Sound([r EXCEPT !.todo = @ \ {d}])
  OBVIOUS
<1> HIDE DEF Sound, State
<1> QED BY <1>1, <1>2, <1>3, <1>4, <1>5

LEMMA WalkSound ==
  ASSUME NEW r \in State, NEW digests \in SUBSET Digests
  PROVE  Sound([r EXCEPT !.pc = "walk", !.todo = digests, !.want = {}])
  BY DEF Sound, State

LEMMA TypeStep == TypeOK /\ [Next]_vars => TypeOK'
<1> SUFFICES ASSUME TypeOK, [Next]_vars PROVE TypeOK'
  OBVIOUS
<1> USE DEF TypeOK, State, Age, At, Becomes, Idle
<1>1. ASSUME NEW a \in Syncs, NEW s \in Sources, NEW want \in SUBSET Digests \ {{}},
             BeginSync(a, s, want)
      PROVE  TypeOK'
  BY <1>1 DEF BeginSync, Actors
<1>2. ASSUME NEW a \in Syncs, SyncWork(a) PROVE TypeOK'
  <2>1. CASE StageBlob(a)
    <3>1. PICK d \in actor[a].todo :
            Becomes(a, [actor[a] EXCEPT !.pc = "promote", !.digest = d, !.staged = "young"])
      BY <2>1 DEF StageBlob
    <3>2. Sound([actor[a] EXCEPT !.pc = "promote", !.digest = d, !.staged = "young"])
      <4>1. actor[a] \in State /\ d \in Digests
        BY DEF Actors
      <4>2. actor[a].source \in Sources
        BY <2>1 DEF StageBlob, Actors
      <4> HIDE DEF State, TypeOK
      <4> QED BY <4>1, <4>2, SoundUpdates
    <3> QED BY <2>1, <3>1, <3>2, ActorStep DEF StageBlob, Actors
  <2>2. CASE PromoteBlob(a)
    <3>1. Sound(Putting(a))
      <4>1. actor[a] \in State /\ actor[a].source \in Sources /\ actor[a].digest \in Digests
        BY <2>2 DEF PromoteBlob, Actors
      <4> HIDE DEF State, TypeOK
      <4> QED BY <4>1, SoundUpdates DEF Putting
    <3>2. files' \in [Digests -> Age]
      BY <2>2 DEF PromoteBlob, Actors
    <3> QED BY <2>2, <3>1, <3>2, ActorStep DEF PromoteBlob, Actors
  <2>3. CASE StagingLost(a)
    BY <2>3 DEF StagingLost, Actors
  <2>4. CASE ReplaceBundle(a)
    BY <2>4 DEF ReplaceBundle, Actors
  <2>5. CASE ReleaseReferences(a)
    BY <2>5 DEF ReleaseReferences, Actors
  <2> QED BY <1>2, <2>1, <2>2, <2>3, <2>4, <2>5 DEF SyncWork
<1>3. ASSUME NEW a \in Collectors, Tick(a) PROVE TypeOK'
  BY <1>3 DEF Tick, Actors
<1>4. ASSUME NEW a \in Actors, Collect(a) PROVE TypeOK'
  <2>1. CASE BeginWalk(a)
    <3>1. Sound([actor[a] EXCEPT !.pc = "walk", !.todo = Present(files), !.want = {}])
      <4>1. actor[a] \in State /\ Present(files) \in SUBSET Digests
        BY DEF Present
      <4> HIDE DEF State, TypeOK
      <4> QED BY <4>1, WalkSound
    <3> QED BY <2>1, <3>1, ActorStep DEF BeginWalk
  <2>2. CASE Visit(a)
    <3>1. PICK d \in actor[a].todo :
            Becomes(a, IF files[d] = "none" THEN Idle
                       ELSE IF Garbage(d)
                         THEN [actor[a] EXCEPT !.pc = "remove", !.digest = d, !.todo = @ \ {d}]
                         ELSE [actor[a] EXCEPT !.todo = @ \ {d}])
      BY <2>2 DEF Visit
    <3>2. Sound(Idle)
      BY DEF Sound
    <3>3. /\ Sound([actor[a] EXCEPT !.pc = "remove", !.digest = d, !.todo = @ \ {d}])
          /\ Sound([actor[a] EXCEPT !.todo = @ \ {d}])
      <4>1. actor[a] \in State /\ d \in Digests /\ actor[a].pc = "walk"
        BY <2>2 DEF Visit
      <4> HIDE DEF State, TypeOK
      <4> QED BY <4>1, SoundUpdates
    <3> HIDE DEF Idle, Becomes
    <3> QED BY <2>2, <3>1, <3>2, <3>3, ActorStep DEF Visit
  <2>3. CASE Remove(a)
    <3>1. Sound([actor[a] EXCEPT !.pc = "walk", !.digest = None, !.want = @ \cup {actor[a].digest}])
      <4>1. actor[a] \in State /\ actor[a].digest \in Digests
        BY <2>3 DEF Remove
      <4> HIDE DEF State, TypeOK
      <4> QED BY <4>1, SoundUpdates
    <3>2. files' \in [Digests -> Age]
      BY <2>3 DEF Remove
    <3> QED BY <2>3, <3>1, <3>2, ActorStep DEF Remove
  <2>4. CASE EndWalk(a)
    BY <2>4 DEF EndWalk
  <2>5. CASE DeleteRow(a)
    BY <2>5 DEF DeleteRow
  <2>6. CASE ListOrphans(a)
    BY <2>6 DEF ListOrphans
  <2>7. CASE EndCollection(a)
    BY <2>7 DEF EndCollection
  <2> QED BY <1>4, <2>1, <2>2, <2>3, <2>4, <2>5, <2>6, <2>7 DEF Collect
<1>5. ASSUME NEW a \in Actors, Fail(a) PROVE TypeOK'
  BY <1>5, FaultsAssumption DEF Fail
<1>6. ASSUME NEW a \in Actors, Crash(Home[a]) PROVE TypeOK'
  BY <1>6, FaultsAssumption DEF Crash
<1>7. ASSUME NEW s \in Sources, DeleteSource(s) PROVE TypeOK'
  BY <1>7 DEF DeleteSource
<1>8. CASE TimePasses
  BY <1>8 DEF TimePasses, AgeFile, AgeRow, AgeStaged, Older, Actors
<1>9. CASE UNCHANGED vars
  BY <1>9 DEF vars
<1> QED BY <1>1, <1>2, <1>3, <1>4, <1>5, <1>6, <1>7, <1>8, <1>9 DEF Next

(* The type invariant: a sync that puts knows its source, whoever promotes or
   removes knows the digest, and failures stay within their bound. *)
THEOREM TypeCorrect == Spec => []TypeOK
<1> QED BY TypeInit, TypeStep, PTL DEF Spec

-----------------------------------------------------------------------------
(* One process *)

OneHome == \A a, b \in Actors : Home[a] = Home[b]

(* Nobody updates references while a collection walks, and one walks at a time. *)
Exclusion == \A a, b \in Actors : Locked(a) => ~ Guarded(b) /\ (Locked(b) => a = b)

(* What a sync has put so far is there. *)
Putter(a) == actor[a].pc \in {"put", "promote"}

Covered == \A a \in Actors : Putter(a) => actor[a].want \ actor[a].todo \subseteq Present(files)

(* What a collection is about to remove is not referred to. *)
Doomed == \A a \in Actors : At(a, "remove") => actor[a].digest \notin Referenced

StoreInv == TypeOK /\ Exclusion /\ Covered /\ Doomed /\ ReferencedIsStored

LEMMA StoreInit == Init => StoreInv
  BY TypeInit DEF Init, StoreInv, Exclusion, Covered, Doomed, ReferencedIsStored, Referenced,
                  Locked, Guarded, Putter, At, Idle

(* What most steps are: no reference changes, nothing referenced is removed, and no
   actor takes a lock, begins to put or picks what to remove. *)
Withdrawn == {"idle", "wait", "meta", "list"}

Calm(b) ==
    /\ actor'[b].pc \in Withdrawn \/ actor'[b].pc = actor[b].pc
       \/ (actor'[b].pc = "committed" /\ Guarded(b))
    /\ Putter(b)' => actor'[b].want = actor[b].want /\ actor'[b].todo = actor[b].todo
    /\ At(b, "remove")' => actor'[b].digest = actor[b].digest

LEMMA Quiet ==
  ASSUME StoreInv, TypeOK', refs' = refs, Present(files) \subseteq Present(files)',
         Present(rows) \cap Referenced \subseteq Present(rows)',
         \A b \in Actors : Calm(b)
  PROVE  StoreInv'
<1> USE DEF StoreInv
<1>1. \A b \in Actors :
          /\ Locked(b)' => Locked(b)
          /\ Guarded(b)' => Guarded(b)
          /\ Putter(b)' => Putter(b)
          /\ At(b, "remove")' => At(b, "remove")
  BY DEF Locked, Guarded, Putter, At, Calm, Withdrawn
<1>2. Exclusion'
  BY <1>1 DEF Exclusion
<1>3. Covered'
  BY <1>1 DEF Covered, Calm
<1>4. Referenced' = Referenced
  BY DEF Referenced
<1>5. Doomed'
  BY <1>1, <1>4 DEF Doomed, Calm
<1>6. ReferencedIsStored'
  BY <1>4 DEF ReferencedIsStored
<1> QED BY <1>2, <1>3, <1>5, <1>6

(* The case of a step of one actor. *)
LEMMA QuietActor ==
  ASSUME StoreInv, TypeOK', NEW a \in Actors, NEW r, Becomes(a, r), r.pc \in Withdrawn,
         refs' = refs, Present(files) \subseteq Present(files)',
         Present(rows) \cap Referenced \subseteq Present(rows)'
  PROVE  StoreInv'
<1>1. \A b \in Actors : actor'[b] = IF b = a THEN r ELSE actor[b]
  BY DEF StoreInv, TypeOK, Becomes
<1>2. \A b \in Actors : Calm(b)
  BY <1>1 DEF Calm, Withdrawn, Putter, At
<1> QED BY <1>2, Quiet

LEMMA StoreStep ==
  ASSUME OneHome, StoreInv, [Next]_vars
  PROVE  StoreInv'
<1>1. TypeOK'
  BY TypeStep DEF StoreInv
<1>2. ASSUME NEW a \in Syncs, NEW s \in Sources, NEW want \in SUBSET Digests \ {{}},
             BeginSync(a, s, want)
      PROVE  StoreInv'
  <2> DEFINE r == [Idle EXCEPT !.pc = "put", !.source = s, !.want = want, !.todo = want]
  <2>1. \A b \in Actors : actor'[b] = IF b = a THEN r ELSE actor[b]
    BY <1>2 DEF BeginSync, Becomes, StoreInv, TypeOK, Actors
  <2>2. r.pc = "put" /\ r.want = r.todo
    BY DEF Idle
  <2>3. \A b \in Actors : ~ Locked(b)
    BY <1>2 DEF BeginSync, Neighbours, OneHome, Actors
  <2> HIDE DEF r
  <2>4. \A b \in Actors : ~ Locked(b)'
    BY <2>1, <2>2, <2>3 DEF Locked
  <2>5. Exclusion'
    BY <2>4 DEF Exclusion
  <2>6. Covered'
    BY <1>2, <2>1, <2>2 DEF Covered, Putter, StoreInv, BeginSync, Present
  <2>7. Doomed'
    BY <2>4 DEF Doomed, Locked, At
  <2>8. ReferencedIsStored'
    BY <1>2 DEF ReferencedIsStored, StoreInv, BeginSync, Referenced, Present
  <2> QED BY <1>1, <2>5, <2>6, <2>7, <2>8 DEF StoreInv
<1>3. ASSUME NEW a \in Syncs, StageBlob(a) PROVE StoreInv'
  <2>1. PICK d \in actor[a].todo :
          Becomes(a, [actor[a] EXCEPT !.pc = "promote", !.digest = d, !.staged = "young"])
    BY <1>3 DEF StageBlob
  <2>2. \A b \in Actors :
            /\ Locked(b)' = Locked(b) /\ Guarded(b)' = Guarded(b)
            /\ Putter(b)' = Putter(b)
            /\ actor'[b].want = actor[b].want /\ actor'[b].todo = actor[b].todo
            /\ At(b, "remove")' = At(b, "remove")
            /\ At(b, "remove") => actor'[b] = actor[b]
    BY <1>3, <2>1 DEF StageBlob, Becomes, At, Locked, Guarded, Putter, StoreInv, TypeOK, Actors, State
  <2> QED BY <1>1, <1>3, <2>2 DEF StageBlob, StoreInv, Exclusion, Covered, Doomed,
                                  ReferencedIsStored, Referenced, Present
<1>4. ASSUME NEW a \in Syncs, PromoteBlob(a) PROVE StoreInv'
  <2> DEFINE d == actor[a].digest
  <2>1. \A b \in Actors : actor'[b] = IF b = a THEN Putting(a) ELSE actor[b]
    BY <1>4 DEF PromoteBlob, Becomes, StoreInv, TypeOK, Actors
  <2>2. /\ Putting(a).pc = "put" /\ Putting(a).want = actor[a].want
        /\ Putting(a).todo = actor[a].todo \ {d}
    BY DEF Putting, StoreInv, TypeOK, State, Actors
  <2>3. Present(files)' = Present(files) \cup {d}
    BY <1>4 DEF PromoteBlob, Present, StoreInv, TypeOK, At, Actors
  <2>4. \A b \in Actors : Locked(b)' = Locked(b) /\ Guarded(b)' = Guarded(b)
    BY <1>4, <2>1, <2>2 DEF Locked, Guarded, PromoteBlob, At
  <2>5. Exclusion'
    BY <2>4 DEF Exclusion, StoreInv
  <2>6. Covered'
    BY <1>4, <2>1, <2>2, <2>3 DEF Covered, Putter, StoreInv, PromoteBlob, At, Actors
  <2>7. Doomed' /\ ReferencedIsStored'
    BY <1>4, <2>1, <2>2, <2>3 DEF Doomed, ReferencedIsStored, StoreInv, PromoteBlob, At, Referenced,
                                  Present
  <2> QED BY <1>1, <2>5, <2>6, <2>7 DEF StoreInv
<1>5. ASSUME NEW a \in Syncs, ReplaceBundle(a) PROVE StoreInv'
  <2> DEFINE r == [Idle EXCEPT !.pc = "committed"]
  <2>1. \A b \in Actors : actor'[b] = IF b = a THEN r ELSE actor[b]
    BY <1>5 DEF ReplaceBundle, Becomes, StoreInv, TypeOK, Actors
  <2>2. r.pc = "committed"
    BY DEF Idle
  <2> HIDE DEF r
  <2>3. actor[a].want \subseteq Present(files)
    BY <1>5 DEF ReplaceBundle, StoreInv, Covered, Putter, At, Actors
  <2>4. \A b \in Actors : ~ Locked(b)
    BY <1>5 DEF ReplaceBundle, StoreInv, Exclusion, Guarded, At, Actors
  <2>5. \A b \in Actors : ~ Locked(b)'
    BY <2>1, <2>2, <2>4 DEF Locked
  <2>6. Covered'
    BY <1>5, <2>1, <2>2 DEF Covered, Putter, StoreInv, ReplaceBundle, Present
  <2>7. ReferencedIsStored'
    <3>1. Referenced' \subseteq Referenced \cup actor[a].want
      BY <1>5 DEF Referenced, ReplaceBundle, StoreInv, TypeOK
    <3>2. Referenced \cup actor[a].want \subseteq Present(rows)'
      BY <1>5 DEF ReplaceBundle, StoreInv, ReferencedIsStored, Present, TypeOK, State, Actors
    <3>3. Present(files)' = Present(files)
      BY <1>5 DEF ReplaceBundle, Present
    <3> QED BY <2>3, <3>1, <3>2, <3>3 DEF StoreInv, ReferencedIsStored
  <2> QED BY <1>1, <2>5, <2>6, <2>7 DEF StoreInv, Exclusion, Doomed, Locked, At
<1>6. ASSUME NEW a \in Actors, BeginWalk(a) PROVE StoreInv'
  <2> DEFINE r == [actor[a] EXCEPT !.pc = "walk", !.todo = Present(files), !.want = {}]
  <2>1. \A b \in Actors : actor'[b] = IF b = a THEN r ELSE actor[b]
    BY <1>6 DEF BeginWalk, Becomes, StoreInv, TypeOK
  <2>2. r.pc = "walk"
    BY DEF StoreInv, TypeOK, State
  <2> HIDE DEF r
  <2>3. \A b \in Actors : ~ Guarded(b) /\ ~ Locked(b)
    BY <1>6 DEF BeginWalk, LockFree, Neighbours, OneHome
  <2>4. \A b \in Actors : ~ Guarded(b)' /\ (Locked(b)' => b = a)
    BY <2>1, <2>2, <2>3 DEF Guarded, Locked
  <2>5. \A b \in Actors : ~ Putter(b)' /\ ~ At(b, "remove")'
    BY <2>1, <2>2, <2>3 DEF Guarded, Locked, Putter, At
  <2>6. ReferencedIsStored'
    BY <1>6 DEF BeginWalk, StoreInv, ReferencedIsStored, Referenced, Present
  <2> QED BY <1>1, <2>4, <2>5, <2>6 DEF StoreInv, Exclusion, Covered, Doomed
<1>7. ASSUME NEW a \in Actors, Visit(a) PROVE StoreInv'
  <2>1. PICK d \in actor[a].todo :
          Becomes(a, IF files[d] = "none" THEN Idle
                     ELSE IF Garbage(d)
                       THEN [actor[a] EXCEPT !.pc = "remove", !.digest = d, !.todo = @ \ {d}]
                       ELSE [actor[a] EXCEPT !.todo = @ \ {d}])
    BY <1>7 DEF Visit
  <2>2. UNCHANGED <<files, rows, refs>>
    BY <1>7 DEF Visit
  <2>3. \A b \in Actors : b # a => actor'[b] = actor[b]
    BY <2>1 DEF Becomes, StoreInv, TypeOK
  <2>4. At(a, "walk")
    BY <1>7 DEF Visit
  <2>5. /\ actor'[a].pc \in {"idle", "walk", "remove"}
        /\ actor'[a].pc = "remove" => actor'[a].digest \notin Referenced
    BY <2>1, <2>4 DEF Becomes, Garbage, Idle, StoreInv, TypeOK, State, At
  <2>6. \A b \in Actors : Guarded(b)' = Guarded(b) /\ (Locked(b)' => Locked(b))
    BY <2>3, <2>4, <2>5 DEF Guarded, Locked, At
  <2>7. Exclusion'
    BY <2>6 DEF Exclusion, StoreInv
  <2>8. Covered'
    BY <2>2, <2>3, <2>5 DEF Covered, StoreInv, Putter, Present
  <2>9. Doomed' /\ ReferencedIsStored'
    BY <2>2, <2>3, <2>5 DEF Doomed, ReferencedIsStored, StoreInv, At, Referenced, Present
  <2> QED BY <1>1, <2>7, <2>8, <2>9 DEF StoreInv
<1>8. ASSUME NEW a \in Actors, Remove(a) PROVE StoreInv'
  <2> DEFINE d == actor[a].digest
  <2>1. \A b \in Actors : b # a => actor'[b] = actor[b]
    BY <1>8 DEF Remove, Becomes, StoreInv, TypeOK
  <2>2. actor'[a].pc = "walk"
    BY <1>8 DEF Remove, Becomes, StoreInv, TypeOK, State
  <2>3. \A b \in Actors : ~ Guarded(b) /\ (Locked(b) => b = a)
    BY <1>8 DEF Remove, StoreInv, Exclusion, Locked, At
  <2>4. \A b \in Actors : ~ Guarded(b)' /\ (Locked(b)' => b = a) /\ ~ Putter(b)' /\ ~ At(b, "remove")'
    BY <2>1, <2>2, <2>3 DEF Guarded, Locked, Putter, At
  <2>5. d \notin Referenced
    BY <1>8 DEF Remove, StoreInv, Doomed
  <2>6. Present(files)' = Present(files) \ {d}
    BY <1>8 DEF Remove, Present, StoreInv, TypeOK
  <2>7. ReferencedIsStored'
    BY <1>8, <2>5, <2>6 DEF Remove, StoreInv, ReferencedIsStored, Referenced, Present
  <2> QED BY <1>1, <2>4, <2>7 DEF StoreInv, Exclusion, Covered, Doomed
<1>9. ASSUME NEW a \in Actors, EndWalk(a) \/ ListOrphans(a) PROVE StoreInv'
  <2>1. CASE EndWalk(a)
    <3>1. [Idle EXCEPT !.pc = "meta", !.todo = actor[a].want].pc \in Withdrawn
      BY DEF Idle, Withdrawn
    <3> QED BY <1>1, <2>1, <3>1, QuietActor DEF EndWalk, Present
  <2>2. CASE ListOrphans(a)
    <3> DEFINE r == [Idle EXCEPT !.pc = "list",
                       !.todo = {d \in Digests : rows[d] = "old" /\ d \notin Referenced}]
    <3>1. r.pc \in Withdrawn
      BY DEF Idle, Withdrawn
    <3>2. Becomes(a, r)
      BY <2>2 DEF ListOrphans
    <3> HIDE DEF r
    <3> QED BY <1>1, <2>2, <3>1, <3>2, QuietActor DEF ListOrphans, Present
  <2> QED BY <1>9, <2>1, <2>2
<1>10. ASSUME NEW a \in Syncs, StagingLost(a) \/ ReleaseReferences(a) PROVE StoreInv'
  <2>1. PICK r : Becomes(a, r) /\ r.pc \in Withdrawn
    BY <1>10 DEF StagingLost, ReleaseReferences, Idle, Withdrawn
  <2> QED BY <1>1, <1>10, <2>1, QuietActor DEF StagingLost, ReleaseReferences, Present, Actors
<1>11. ASSUME NEW a \in Collectors, Tick(a) PROVE StoreInv'
  BY <1>1, <1>11, QuietActor DEF Tick, Idle, Withdrawn, Present, Actors
<1>12. ASSUME NEW a \in Actors, DeleteRow(a) PROVE StoreInv'
  <2>1. PICK d \in actor[a].todo :
          /\ rows' = IF rows[d] = "old" /\ d \notin Referenced
                       THEN [rows EXCEPT ![d] = "none"] ELSE rows
          /\ Becomes(a, [actor[a] EXCEPT !.todo = @ \ {d}])
    BY <1>12 DEF DeleteRow
  <2>2. Present(rows) \cap Referenced \subseteq Present(rows)'
    BY <2>1 DEF Present, StoreInv, TypeOK
  <2>3. [actor[a] EXCEPT !.todo = @ \ {d}].pc \in Withdrawn
    BY <1>12 DEF DeleteRow, Withdrawn, StoreInv, TypeOK, State
  <2> QED BY <1>1, <1>12, <2>1, <2>2, <2>3, QuietActor DEF DeleteRow, Present
<1>13. ASSUME NEW a \in Actors, EndCollection(a) PROVE StoreInv'
  <2>1. \A b \in Actors :
            /\ actor'[b].pc = actor[b].pc \/ actor'[b].pc = "idle"
            /\ b # a => /\ actor'[b].want = actor[b].want /\ actor'[b].todo = actor[b].todo
                        /\ actor'[b].digest = actor[b].digest
            /\ b = a => actor'[b].pc = "idle"
    BY <1>13 DEF EndCollection, Idle, StoreInv, TypeOK, State
  <2>2. \A b \in Actors : Calm(b)
    BY <2>1 DEF Calm, Withdrawn, Putter, At
  <2> QED BY <1>1, <1>13, <2>2, Quiet DEF EndCollection, Present
<1>14. ASSUME NEW a \in Actors, Fail(a) PROVE StoreInv'
  <2>1. UNCHANGED <<files, rows, refs>>
    BY <1>14 DEF Fail
  <2>2. CASE Becomes(a, Idle)
    BY <1>1, <2>1, <2>2, QuietActor DEF Idle, Withdrawn, Present
  <2>3. ASSUME NEW d \in actor[a].todo, actor[a].pc \in {"meta", "list"},
               Becomes(a, [actor[a] EXCEPT !.todo = @ \ {d}])
        PROVE  StoreInv'
    <3>1. [actor[a] EXCEPT !.todo = @ \ {d}].pc \in Withdrawn
      BY <2>3 DEF Withdrawn, StoreInv, TypeOK, State
    <3> QED BY <1>1, <2>1, <2>3, <3>1, QuietActor DEF Present
  <2> QED BY <1>14, <2>2, <2>3 DEF Fail
<1>15. ASSUME NEW a \in Actors, Crash(Home[a]) PROVE StoreInv'
  <2>1. \A b \in Actors : actor'[b] = actor[b] \/ actor'[b] = Idle
    BY <1>15 DEF Crash
  <2>2. \A b \in Actors : Calm(b)
    BY <2>1 DEF Calm, Withdrawn, Putter, At, Idle
  <2> QED BY <1>1, <1>15, <2>2, Quiet DEF Crash, Present
<1>16. ASSUME NEW s \in Sources, DeleteSource(s) PROVE StoreInv'
  <2>1. Referenced' \subseteq Referenced
    BY <1>16 DEF DeleteSource, Referenced, StoreInv, TypeOK
  <2> QED BY <1>1, <1>16, <2>1 DEF DeleteSource, StoreInv, Exclusion, Covered, Doomed,
             ReferencedIsStored, Present, Locked, Guarded, Putter, At
<1>17. CASE TimePasses
  <2>1. ASSUME NEW d \in Digests, AgeFile(d) \/ AgeRow(d) PROVE StoreInv'
    <3>1. \A b \in Actors : Calm(b)
      BY <2>1 DEF AgeFile, AgeRow, Calm
    <3>2. Present(files)' = Present(files) /\ Present(rows)' = Present(rows)
      BY <2>1 DEF AgeFile, AgeRow, Older, Present, StoreInv, TypeOK
    <3> QED BY <1>1, <2>1, <3>1, <3>2, Quiet DEF AgeFile, AgeRow
  <2>2. ASSUME NEW a \in Syncs, AgeStaged(a) PROVE StoreInv'
    <3>1. \A b \in Actors : Calm(b)
      BY <2>2 DEF AgeStaged, Becomes, Calm, StoreInv, TypeOK, State
    <3> QED BY <1>1, <2>2, <3>1, Quiet DEF AgeStaged, Present
  <2> QED BY <1>17, <2>1, <2>2 DEF TimePasses
<1>18. CASE UNCHANGED vars
  <2>1. \A b \in Actors : Calm(b)
    BY <1>18 DEF vars, Calm
  <2> QED BY <1>1, <1>18, <2>1, Quiet DEF vars, Present
<1> QED BY <1>2, <1>3, <1>4, <1>5, <1>6, <1>7, <1>8, <1>9, <1>10, <1>11, <1>12, <1>13, <1>14, <1>15,
           <1>16, <1>17, <1>18 DEF Next, SyncWork, Collect

(* In one process, whatever a snapshot or an asset refers to has its object and its
   row: the collector never removes what a sync is about to commit. *)
THEOREM NothingReferencedIsCollected ==
  ASSUME OneHome
  PROVE  Spec => []ReferencedIsStored
<1>1. StoreInv /\ [Next]_vars => StoreInv'
  BY StoreStep
<1>2. StoreInv => ReferencedIsStored
  BY DEF StoreInv
<1> QED BY <1>1, <1>2, StoreInit, PTL DEF Spec

=============================================================================
