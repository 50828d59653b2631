-------------------------- MODULE SharedFileProofs --------------------------
(***************************************************************************)
(* The two disciplines by which media_stack shares files: the lock beside  *)
(* a media file (locking.py) and the JSON state files (state.py).          *)
(*                                                                         *)
(* StateFile keeps StateMap's promise, for any processes, keys and values, *)
(* with crashes and power losses at any step, a power loss bringing back   *)
(* what was last written to disk.                                          *)
(*                                                                         *)
(* FileLock excludes, for any number of pipeline and dedupe processes and  *)
(* any number of lock-file inodes, with SIGKILL allowed, as long as a file *)
(* that movie-dedupe moved away comes back under its old name only when    *)
(* nobody has, or will unlink, the old lock file (ReappearEarly = FALSE).  *)
(* Run FileLockUnlink shows that the assumption is needed.                 *)
(***************************************************************************)
EXTENDS StateFile, FileLock, TLAPS

-----------------------------------------------------------------------------
(* StateFile *)

(* flock: a writer is alone. *)
WriterAlone ==
    \A p, q \in Procs : lock[p] = "EX" /\ p # q => lock[q] = "none"

(* A writing call past its flock() holds the exclusive lock. *)
WritersLock ==
    \A p \in Procs :
        pc[p] \notin {"idle", "waiting"} /\ request[p].kind \in Writers =>
            lock[p] = "EX"

(* What a writer parsed is still what the path holds ... *)
LoadedIsCurrent ==
    \A p \in Procs : pc[p] = "loaded" =>
        \/ request[p].kind = "upsert" /\ loaded[p] = Lenient(file)
        \/ request[p].kind = "drop" /\ loaded[p] = Entries(file) /\ file # Bad

(* ... and its temporary file is the effect of its call on that. *)
TempIsEffect ==
    \A p \in Procs : pc[p] = "written" =>
        /\ request[p].kind \in Writers
        /\ ~Promise!Refuses(request[p], file)
        /\ temp[p] = Promise!Effect(request[p], file)

(* Between a write-back and the next rename, disk and path agree. *)
SyncedIsSaved == synced => file = saved

IInv ==
    /\ TypeOK
    /\ WriterAlone
    /\ WritersLock
    /\ LoadedIsCurrent
    /\ TempIsEffect
    /\ SyncedIsSaved

-----------------------------------------------------------------------------
(* Maps and the three other contents do not overlap. *)
LEMMA ContentFacts ==
    /\ Empty \in Maps /\ Bad \notin Maps /\ Odd \notin Maps /\ Missing \notin Maps
    /\ Bad # Odd /\ Missing # Bad /\ Missing # Odd
    /\ \A f \in Files : Entries(f) \in Maps /\ Lenient(f) \in Maps \cup {Odd}
  BY FilesAssumption DEF Empty, Maps, Files, Entries, Lenient

(* What the kinds of request carry. *)
LEMMA RequestFacts ==
    \A r \in Requests :
        /\ r.kind \in {"upsert", "drop", "save", "read", "peek"}
        /\ r # NoRequest
        /\ r.kind = "upsert" => r.key \in Keys /\ r.val \in Vals
        /\ r.kind = "drop" => r.key \in Keys
        /\ r.kind = "save" => r.map \in Maps
  BY NoRequestAssumption, SnapshotsAssumption
     DEF Requests, Upserts, Drops, Saves, Reads, Peeks

(* Setting one entry of a map gives a map. *)
LEMMA SetEntry ==
    ASSUME NEW m \in Maps, NEW k \in Keys, NEW x \in Vals \cup {NoVal}
    PROVE  [m EXCEPT ![k] = x] \in Maps
  BY DEF Maps

(* Both modules read a file the same way. *)
LEMMA SameEntries == ASSUME NEW f PROVE Promise!Entries(f) = Entries(f)
  BY DEF Entries, Promise!Entries, Maps, Promise!Maps, Empty, Promise!Empty

(* The effect of a writing call, by kind. *)
LEMMA EffectFacts ==
    ASSUME NEW r, NEW f
    PROVE  /\ r.kind = "upsert" =>
                 Promise!Effect(r, f) = [Entries(f) EXCEPT ![r.key] = r.val]
           /\ r.kind = "drop" =>
                 Promise!Effect(r, f) = [Entries(f) EXCEPT ![r.key] = NoVal]
           /\ r.kind = "save" => Promise!Effect(r, f) = r.map
           /\ r.kind \in {"read", "peek"} => Promise!Effect(r, f) = f
<1>1. Promise!Entries(f) = Entries(f)
      BY SameEntries
<1>2. r.kind = "upsert" =>
          Promise!Effect(r, f) = [Promise!Entries(f) EXCEPT ![r.key] = r.val]
      BY Zenon DEF Promise!Effect
<1>3. r.kind = "drop" =>
          Promise!Effect(r, f) = [Promise!Entries(f) EXCEPT ![r.key] = NoVal]
      BY Zenon DEF Promise!Effect
<1>4. r.kind = "save" => Promise!Effect(r, f) = r.map
      BY DEF Promise!Effect
<1>5. r.kind \in {"read", "peek"} => Promise!Effect(r, f) = f
      BY DEF Promise!Effect
<1> QED BY <1>1, <1>2, <1>3, <1>4, <1>5

(* The initial states satisfy the inductive invariant. *)
LEMMA InitInv == Init => IInv
<1> SUFFICES ASSUME Init PROVE IInv
    OBVIOUS
<1>1. file \in Files /\ NoRequest \notin Requests
      BY ContentFacts, NoRequestAssumption DEF Init, Files
<1>2. TypeOK
      BY <1>1, ContentFacts DEF Init, TypeOK, Places
<1> QED
    BY <1>2 DEF Init, IInv, WriterAlone, WritersLock, LoadedIsCurrent, TempIsEffect, SyncedIsSaved

LEMMA TypeStep == TypeOK /\ LoadedIsCurrent /\ [Next]_vars => TypeOK'
<1> SUFFICES ASSUME TypeOK, LoadedIsCurrent, [Next]_vars PROVE TypeOK'
    OBVIOUS
<1>0. \A p \in Procs : pc[p] = "loaded" /\ request[p].kind = "drop" => loaded[p] \in Maps
      BY ContentFacts DEF LoadedIsCurrent, TypeOK
<1> USE ContentFacts, RequestFacts DEF TypeOK, Places, Goto
<1>1. ASSUME NEW p \in Procs, NEW req \in Requests, Call(p, req) PROVE TypeOK'
      BY <1>1 DEF Call
<1>2. ASSUME NEW p \in Procs, Lock(p) PROVE TypeOK'
      BY <1>2 DEF Lock, Writers
<1>3. ASSUME NEW p \in Procs, Peek(p) PROVE TypeOK'
      BY <1>3 DEF Peek
<1>4. ASSUME NEW p \in Procs, LoadUpsert(p) PROVE TypeOK'
      BY <1>4 DEF LoadUpsert
<1>5. ASSUME NEW p \in Procs, LoadDrop(p) PROVE TypeOK'
      BY <1>5 DEF LoadDrop
<1>6. ASSUME NEW p \in Procs, LoadRead(p) PROVE TypeOK'
      BY <1>6 DEF LoadRead
<1>7. ASSUME NEW p \in Procs, Raise(p) \/ Return(p) \/ Crash(p) PROVE TypeOK'
      BY <1>7 DEF Raise, Return, Crash, Unlock, Forget
<1>8. ASSUME NEW p \in Procs, WriteTemp(p) PROVE TypeOK'
  <2>1. request[p] \in Requests /\ loaded[p] \in Maps \cup {Odd} /\ temp \in [Procs -> Maps]
        BY <1>8 DEF WriteTemp
  <2>2. PICK m \in Maps : temp' = [temp EXCEPT ![p] = m]
    <3>1. CASE request[p].kind = "upsert"
          BY <1>8, <2>1, <3>1, SetEntry DEF WriteTemp
    <3>2. CASE request[p].kind = "drop"
      <4>1. loaded[p] \in Maps
            BY <1>0, <1>8, <3>2 DEF WriteTemp
      <4>2. [loaded[p] EXCEPT ![request[p].key] = NoVal] \in Maps
            BY <2>1, <3>2, <4>1, SetEntry
      <4> QED BY <1>8, <3>2, <4>2 DEF WriteTemp
    <3>3. CASE request[p].kind = "save"
          BY <1>8, <2>1, <3>3 DEF WriteTemp
    <3> QED BY <1>8, <3>1, <3>2, <3>3 DEF WriteTemp
  <2>3. temp' \in [Procs -> Maps]
        BY <2>1, <2>2
  <2>4. pc' = [pc EXCEPT ![p] = "written"] /\ pc[p] \in {"locked", "loaded"}
        BY <1>8 DEF WriteTemp
  <2> QED BY <1>8, <2>3, <2>4 DEF WriteTemp
<1>9. ASSUME NEW p \in Procs, Rename(p) PROVE TypeOK'
      BY <1>9 DEF Rename, Files
<1>10. CASE Sync
      BY <1>10 DEF Sync
<1>12. CASE PowerLoss
  <2>1. file' \in Files /\ saved' \in Files
        BY <1>12 DEF PowerLoss, Files
  <2> QED BY <1>12, <2>1, NoRequestAssumption DEF PowerLoss
<1>11. CASE UNCHANGED vars
      BY <1>11 DEF vars
<1> QED
    BY CallsAssumption, <1>1, <1>2, <1>3, <1>4, <1>5, <1>6, <1>7, <1>8, <1>9, <1>10, <1>11, <1>12
       DEF Next, Step

(* Every step preserves the inductive invariant. *)
LEMMA StepInv == IInv /\ [Next]_vars => IInv'
<1> SUFFICES ASSUME IInv, [Next]_vars PROVE IInv'
    OBVIOUS
<1>0. TypeOK /\ TypeOK' /\ (\A p \in Procs : pc[p] # "idle" => request[p] \in Requests)
      BY TypeStep DEF IInv, TypeOK
<1> USE <1>0, ContentFacts, RequestFacts
        DEF IInv, WriterAlone, WritersLock, LoadedIsCurrent, TempIsEffect, SyncedIsSaved, Goto
<1>1. ASSUME NEW p \in Procs, NEW req \in Requests, Call(p, req) PROVE IInv'
      BY <1>1 DEF Call, TypeOK
<1>2. ASSUME NEW p \in Procs, Lock(p) PROVE IInv'
      BY <1>2 DEF Lock, TypeOK, Writers
<1>3. ASSUME NEW p \in Procs, Peek(p) PROVE IInv'
      BY <1>3 DEF Peek, TypeOK, Writers
<1>4. ASSUME NEW p \in Procs, LoadUpsert(p) PROVE IInv'
      BY <1>4 DEF LoadUpsert, TypeOK
<1>5. ASSUME NEW p \in Procs, LoadDrop(p) PROVE IInv'
      BY <1>5 DEF LoadDrop, TypeOK
<1>6. ASSUME NEW p \in Procs, LoadRead(p) PROVE IInv'
      BY <1>6 DEF LoadRead, TypeOK, Writers
<1>7. ASSUME NEW p \in Procs, Raise(p) \/ Return(p) \/ Crash(p) PROVE IInv'
      BY <1>7 DEF Raise, Return, Crash, Unlock, Forget, TypeOK
<1>8. ASSUME NEW p \in Procs, WriteTemp(p) PROVE IInv'
  <2>1. file' = file /\ lock' = lock /\ request' = request /\ loaded' = loaded
        /\ pc' = [pc EXCEPT ![p] = "written"]
        BY <1>8 DEF WriteTemp
  <2>2. request[p].kind \in Writers
        BY <1>8 DEF WriteTemp, Writers
  <2>3. ~Promise!Refuses(request[p], file)
        BY <1>8 DEF WriteTemp, Promise!Refuses, Lenient
  <2>4. temp'[p] = Promise!Effect(request[p], file)
    <3>1. CASE request[p].kind = "upsert"
      <4>1. pc[p] = "loaded" /\ loaded[p] # Odd
            BY <1>8, <3>1 DEF WriteTemp
      <4>2. loaded[p] = Lenient(file)
            BY <3>1, <4>1
      <4>3. loaded[p] = Entries(file)
            BY <4>1, <4>2 DEF Lenient, Entries
      <4>4. temp'[p] = [loaded[p] EXCEPT ![request[p].key] = request[p].val]
        <5>1. temp' = [temp EXCEPT ![p] =
                         [loaded[p] EXCEPT ![request[p].key] = request[p].val]]
              BY ONLY <1>8, <3>1 DEF WriteTemp
        <5>2. temp \in [Procs -> Maps]
              BY DEF TypeOK
        <5> QED BY ONLY <5>1, <5>2, Zenon
      <4> QED BY ONLY <3>1, <4>3, <4>4, EffectFacts
    <3>2. CASE request[p].kind = "drop"
      <4>1. temp' = [temp EXCEPT ![p] = [loaded[p] EXCEPT ![request[p].key] = NoVal]]
            BY ONLY <1>8, <3>2 DEF WriteTemp
      <4>2. temp \in [Procs -> Maps]
            BY DEF TypeOK
      <4>3. temp'[p] = [loaded[p] EXCEPT ![request[p].key] = NoVal]
            BY ONLY <4>1, <4>2, Zenon
      <4>4. loaded[p] = Entries(file)
            BY <1>8, <3>2 DEF WriteTemp
      <4> QED BY ONLY <3>2, <4>3, <4>4, EffectFacts
    <3>3. CASE request[p].kind = "save"
          BY <1>8, <3>3 DEF WriteTemp, Promise!Effect, TypeOK
    <3> QED BY <1>8, <3>1, <3>2, <3>3 DEF WriteTemp
  <2>5. \A q \in Procs : q # p => temp'[q] = temp[q] /\ pc'[q] = pc[q]
        BY <1>8 DEF WriteTemp, TypeOK
  <2> QED BY <1>8, <2>1, <2>2, <2>3, <2>4, <2>5 DEF TypeOK, WriteTemp
<1>9. ASSUME NEW p \in Procs, Rename(p) PROVE IInv'
  <2>1. lock[p] = "EX"
        BY <1>9 DEF Rename
  <2>2. \A q \in Procs : pc'[q] \in {"loaded", "written"} =>
            q # p /\ lock[q] = "none" /\ pc[q] = pc'[q]
        BY <1>9, <2>1 DEF Rename, TypeOK
  <2>3. \A q \in Procs : pc'[q] \notin {"loaded", "written"}
        BY <2>2, <1>9 DEF Writers, TypeOK
  <2> QED BY <1>9, <2>3 DEF Rename, TypeOK
<1>10. CASE Sync
      BY <1>10 DEF Sync
<1>11. CASE PowerLoss
      BY <1>11 DEF PowerLoss
<1>12. CASE UNCHANGED vars
      BY <1>12 DEF vars
<1> QED
    BY CallsAssumption, <1>1, <1>2, <1>3, <1>4, <1>5, <1>6, <1>7, <1>8, <1>9, <1>10, <1>11, <1>12
       DEF Next, Step
-----------------------------------------------------------------------------
(* Every step of the code is a step of StateMap, or none. *)
LEMMA StepRefines == IInv /\ [Next]_vars => [Promise!Next]_(Promise!vars)
<1> SUFFICES ASSUME IInv, [Next]_vars PROVE [Promise!Next]_(Promise!vars)
    OBVIOUS
<1> DEFINE phase == [p \in Procs |-> IF pc[p] \in {"idle", "done"} THEN pc[p] ELSE "asked"]
<1>0. TypeOK /\ \A p \in Procs : pc[p] # "idle" => request[p] \in Requests
      BY DEF IInv, TypeOK
<1>a. Requests = Promise!Requests
      BY DEF Requests, Upserts, Drops, Saves, Reads, Peeks, Promise!Requests,
         Promise!Upserts, Promise!Drops, Promise!Saves, Promise!Reads, Promise!Peeks
<1>1. ASSUME NEW p \in Procs, NEW req \in Requests, Call(p, req)
      PROVE Promise!Ask(p, req)
      BY <1>0, <1>1 DEF Call, Goto, Promise!Ask, TypeOK
<1>2. ASSUME NEW p \in Procs, Lock(p) \/ LoadUpsert(p) \/ LoadDrop(p) \/ WriteTemp(p)
      PROVE UNCHANGED Promise!vars
  <2>1. phase' = phase
        BY <1>0, <1>2 DEF Lock, LoadUpsert, LoadDrop, WriteTemp, Goto, TypeOK
  <2>2. UNCHANGED <<file, saved, synced, request, reply>>
        BY <1>2 DEF Lock, LoadUpsert, LoadDrop, WriteTemp
  <2> QED BY <2>1, <2>2 DEF Promise!vars
<1>3. ASSUME NEW p \in Procs, Peek(p) PROVE Promise!Apply(p)
  <2>1. request[p].kind = "peek" /\ pc[p] = "waiting" /\ file' = file /\ request' = request
        BY <1>3 DEF Peek
  <2>2. phase[p] = "asked" /\ phase' = [phase EXCEPT ![p] = "done"]
        BY <1>0, <1>3 DEF Peek, Goto, TypeOK
  <2>3. ~Promise!Refuses(request[p], file)
        BY <2>1 DEF Promise!Refuses
  <2>4. Promise!Answer(request[p], file) = Lenient(file)
        BY <2>1, ContentFacts, SameEntries DEF Promise!Answer, Lenient, Entries
  <2>5. reply' = [reply EXCEPT ![p] = Promise!Answer(request[p], file)]
        BY <1>3, <2>4 DEF Peek
  <2>6. saved' = saved /\ synced' = (synced /\ request[p].kind \in {"read", "peek"})
        BY <1>0, <1>3, <2>1 DEF Peek, TypeOK
  <2> QED BY <2>1, <2>2, <2>3, <2>5, <2>6, EffectFacts DEF Promise!Apply
<1>4. ASSUME NEW p \in Procs, LoadRead(p) PROVE Promise!Apply(p)
  <2>1. request[p].kind = "read" /\ file # Bad /\ file' = file /\ request' = request
        BY <1>4 DEF LoadRead
  <2>2. phase[p] = "asked" /\ phase' = [phase EXCEPT ![p] = "done"]
        BY <1>0, <1>4 DEF LoadRead, Goto, TypeOK
  <2>3. ~Promise!Refuses(request[p], file)
        BY <2>1 DEF Promise!Refuses
  <2>4. Promise!Answer(request[p], file) = Entries(file)
        BY <2>1, SameEntries DEF Promise!Answer
  <2>5. reply' = [reply EXCEPT ![p] = Promise!Answer(request[p], file)]
        BY <1>4, <2>4 DEF LoadRead
  <2>6. saved' = saved /\ synced' = (synced /\ request[p].kind \in {"read", "peek"})
        BY <1>0, <1>4, <2>1 DEF LoadRead, TypeOK
  <2> QED BY <2>1, <2>2, <2>3, <2>5, <2>6, EffectFacts DEF Promise!Apply
<1>5. ASSUME NEW p \in Procs, Rename(p) PROVE Promise!Apply(p)
  <2>1. pc[p] = "written" /\ file' = temp[p] /\ request' = request
        BY <1>5 DEF Rename
  <2>2. phase[p] = "asked" /\ phase' = [phase EXCEPT ![p] = "done"]
        BY <1>0, <1>5 DEF Rename, Goto, TypeOK
  <2>3. /\ request[p].kind \in {"upsert", "drop", "save"}
        /\ ~Promise!Refuses(request[p], file)
        /\ file' = Promise!Effect(request[p], file)
        BY <2>1 DEF IInv, TempIsEffect, Writers
  <2>4. Promise!Answer(request[p], file) =
           IF request[p].kind = "drop" THEN file' ELSE NoVal
        BY <2>3 DEF Promise!Answer
  <2>5. reply' = [reply EXCEPT ![p] = Promise!Answer(request[p], file)]
        BY <1>5, <2>1, <2>4 DEF Rename
  <2>6. saved' = saved /\ synced' = (synced /\ request[p].kind \in {"read", "peek"})
        BY <1>5, <2>3 DEF Rename
  <2> QED BY <2>1, <2>2, <2>3, <2>5, <2>6 DEF Promise!Apply
<1>6. ASSUME NEW p \in Procs, Raise(p) \/ Return(p) \/ Crash(p) PROVE Promise!Leave(p)
      BY <1>0, <1>6 DEF Raise, Return, Crash, Unlock, Forget, Goto, Promise!Leave, TypeOK
<1>7. CASE Sync
      BY <1>7 DEF Sync, Promise!Next, Promise!Settle
<1>8. CASE PowerLoss
      BY <1>8 DEF PowerLoss, Promise!Next, Promise!PowerLoss
<1>9. CASE UNCHANGED vars
      BY <1>9 DEF vars, Promise!vars
<1> QED
    BY CallsAssumption, <1>a, <1>1, <1>2, <1>3, <1>4, <1>5, <1>6, <1>7, <1>8, <1>9
       DEF Next, Step, Promise!Next
-----------------------------------------------------------------------------
(* Ranges, and a lock that is held exactly while its call lasts. *)
THEOREM TypeCorrect == Spec => []TypeOK
<1>1. IInv => TypeOK
      BY DEF IInv
<1> QED BY InitInv, StepInv, <1>1, PTL DEF Spec

(* The code implements the atomic map: while the machine stays up no update *)
(* is lost, no deleted entry comes back, no reader or mutator sees a map   *)
(* that never was; a power loss sets the whole map back, as StateMap says. *)
THEOREM Implements == Spec => Linearizable
<1>1. Init => Promise!Init
      BY DEF Init, Promise!Init, Empty, Promise!Empty
<1>2. IInv /\ [Next]_vars => [Promise!Next]_(Promise!vars)
      BY StepRefines
<1> QED
    BY InitInv, StepInv, <1>1, <1>2, PTL DEF Spec, Linearizable, Promise!Spec

(* An entry changes only through a call that was asked to change it, or *)
(* falls back, with the whole file, to what was on disk at a power loss. *)
THEOREM ChangesRequested == Spec => KeysChangeOnRequest
<1> DEFINE Changes ==
        \A k \in Keys :
           file \in Maps /\ file' \in Maps /\ file'[k] # file[k] =>
              \/ \E p \in Procs :
                    /\ pc[p] = "written"
                    /\ \/ request[p].kind = "save"
                       \/ request[p].kind \in {"upsert", "drop"} /\ request[p].key = k
              \/ /\ ~synced /\ file' = saved
                 /\ \A p \in Procs : pc'[p] = "idle"
<1>1. IInv /\ [Next]_vars => [Changes]_vars
  <2> SUFFICES ASSUME IInv, [Next]_vars PROVE [Changes]_vars
      OBVIOUS
  <2>1. ASSUME NEW p \in Procs, Rename(p) PROVE Changes
    <3> SUFFICES ASSUME NEW k \in Keys, file \in Maps, file' \in Maps, file'[k] # file[k]
                 PROVE  \/ request[p].kind = "save"
                        \/ request[p].kind \in {"upsert", "drop"} /\ request[p].key = k
        BY <2>1 DEF Rename
    <3>1. /\ request[p].kind \in {"upsert", "drop", "save"}
          /\ file' = Promise!Effect(request[p], file)
          BY <2>1 DEF Rename, IInv, TempIsEffect, Writers
    <3>2. Entries(file) = file
          BY DEF Entries
    <3>3. ASSUME NEW x, request[p].key # k
          PROVE  [file EXCEPT ![request[p].key] = x][k] = file[k]
          BY <3>3 DEF Maps
    <3>4. CASE request[p].kind = "upsert"
      <4>1. file' = [file EXCEPT ![request[p].key] = request[p].val]
            BY <3>1, <3>2, <3>4, EffectFacts
      <4> QED BY <3>3, <3>4, <4>1
    <3>5. CASE request[p].kind = "drop"
      <4>1. file' = [file EXCEPT ![request[p].key] = NoVal]
            BY <3>1, <3>2, <3>5, EffectFacts
      <4> QED BY <3>3, <3>5, <4>1
    <3> QED BY <3>1, <3>4, <3>5
  <2>2. file' = file => Changes
        OBVIOUS
  <2>3. CASE PowerLoss
    <3>1. \A p \in Procs : pc'[p] = "idle"
          BY <2>3 DEF PowerLoss
    <3>2. synced => file = saved
          BY DEF IInv, SyncedIsSaved
    <3> QED BY <2>3, <3>1, <3>2, ContentFacts DEF PowerLoss
  <2>4. ASSUME NEW p \in Procs, Step(p), ~Rename(p) PROVE file' = file
        BY <2>4 DEF Step, Lock, Peek, LoadUpsert, LoadDrop, LoadRead, Raise, WriteTemp,
                    Return, Unlock, Forget
  <2>5. ASSUME NEW p \in Procs, (\E req \in Calls[p] : Call(p, req)) \/ Crash(p)
        PROVE  file' = file
        BY <2>5 DEF Call, Crash
  <2>6. CASE Sync \/ UNCHANGED vars
        BY <2>2, <2>6 DEF Sync, vars
  <2> HIDE DEF Changes
  <2>7. \A p \in Procs : Step(p) => Changes
        BY <2>1, <2>2, <2>4
  <2>8. \A p \in Procs : (\E req \in Calls[p] : Call(p, req)) \/ Crash(p) => Changes
        BY <2>2, <2>5
  <2> QED BY <2>3, <2>6, <2>7, <2>8 DEF Next
<1> QED BY InitInv, StepInv, <1>1, PTL DEF Spec, KeysChangeOnRequest

-----------------------------------------------------------------------------
(* FileLock *)

(* Whoever has a descriptor open while the file is there has the inode the *)
(* path names, and no dedupe has got as far as moving the file.            *)
OpenOwnsThePath ==
    present => \A p \in Scripts :
        /\ fd[p] # NoInode => fd[p] = lockFile
        /\ at[p] \notin {"moved", "unlinking"}

(* flock: one holder per inode. *)
OneHolderPerInode ==
    \A p, q \in Scripts :
        at[p] \in Holding /\ at[q] \in Holding /\ fd[p] = fd[q] => p = q

(* A pipeline works only on a file that is there. *)
WorkersSeeTheFile == \A p \in Scripts : at[p] = "working" => present

LockIInv ==
    /\ LockTypeOK
    /\ OpenOwnsThePath
    /\ OneHolderPerInode
    /\ WorkersSeeTheFile

-----------------------------------------------------------------------------
(* The initial state satisfies the inductive invariant. *)
LEMMA LockInitInv == LockInit => LockIInv
  BY ScriptsAssumption, InodeAssumption
     DEF LockInit, LockIInv, LockTypeOK, OpenOwnsThePath, OneHolderPerInode,
         WorkersSeeTheFile, Scripts, LockPlaces, Inodes, Holding

(* The ranges of the variables, and the open descriptors, under every step. *)
LEMMA LockTypeStep == LockTypeOK /\ [LockNext]_lockVars => LockTypeOK'
<1> SUFFICES ASSUME LockTypeOK, [LockNext]_lockVars PROVE LockTypeOK'
    OBVIOUS
<1> USE ScriptsAssumption, InodeAssumption, SwitchAssumption
        DEF LockTypeOK, Scripts, LockPlaces, Inodes, Holding, Reach, Close
<1>1. ASSUME NEW p \in Scripts, See(p) PROVE LockTypeOK'
      BY <1>1 DEF See
<1>2. ASSUME NEW p \in Scripts, OpenLockFile(p) PROVE LockTypeOK'
      BY <1>2 DEF OpenLockFile
<1>3. ASSUME NEW p \in Scripts, Flock(p) PROVE LockTypeOK'
      BY <1>3 DEF Flock
<1>4. ASSUME NEW p \in Scripts, FlockBusy(p) PROVE LockTypeOK'
      BY <1>4 DEF FlockBusy
<1>5. ASSUME NEW p \in Scripts, CheckFile(p) PROVE LockTypeOK'
      BY <1>5 DEF CheckFile
<1>6. ASSUME NEW p \in Scripts, SpawnChild(p) \/ ChildEnds(p) PROVE LockTypeOK'
      BY <1>6 DEF SpawnChild, ChildEnds
<1>7. ASSUME NEW p \in Scripts, Finish(p) \/ Interrupt(p) PROVE LockTypeOK'
      BY <1>7 DEF Finish, Interrupt
<1>8. ASSUME NEW p \in Scripts, Killed(p) PROVE LockTypeOK'
      BY <1>8 DEF Killed
<1>9. ASSUME NEW p \in Scripts, Move(p) PROVE LockTypeOK'
      BY <1>9 DEF Move
<1>10. ASSUME NEW p \in Scripts, ReleaseMoved(p) \/ UnlinkLockFile(p) PROVE LockTypeOK'
      BY <1>10 DEF ReleaseMoved, UnlinkLockFile
<1>11. CASE Reimport \/ UNCHANGED lockVars
      BY <1>11 DEF Reimport, lockVars
<1> QED
    BY <1>1, <1>2, <1>3, <1>4, <1>5, <1>6, <1>7, <1>8, <1>9, <1>10, <1>11 DEF LockNext

(* Every step preserves the inductive invariant when no file reappears early. *)
LEMMA LockStepInv == ASSUME ReappearEarly = FALSE PROVE LockIInv /\ [LockNext]_lockVars => LockIInv'
<1> SUFFICES ASSUME LockIInv, [LockNext]_lockVars PROVE LockIInv'
    OBVIOUS
<1>0. LockTypeOK /\ LockTypeOK'
      BY LockTypeStep DEF LockIInv
<1> USE ScriptsAssumption, InodeAssumption, <1>0
        DEF LockIInv, OpenOwnsThePath, OneHolderPerInode, WorkersSeeTheFile, Holding
<1>1. ASSUME NEW p \in Scripts, See(p) PROVE LockIInv'
      BY <1>1 DEF See, Reach, LockTypeOK
<1>2. ASSUME NEW p \in Scripts, OpenLockFile(p) PROVE LockIInv'
      BY <1>2 DEF OpenLockFile, Reach, LockTypeOK, Inodes
<1>3. ASSUME NEW p \in Scripts, Flock(p) PROVE LockIInv'
      BY <1>3 DEF Flock, Held, Reach, LockTypeOK
<1>4. ASSUME NEW p \in Scripts, FlockBusy(p) PROVE LockIInv'
      BY <1>4 DEF FlockBusy, Close, Reach, LockTypeOK
<1>5. ASSUME NEW p \in Scripts, CheckFile(p) PROVE LockIInv'
      BY <1>5 DEF CheckFile, Close, Reach, LockTypeOK
<1>6. ASSUME NEW p \in Scripts, SpawnChild(p) \/ ChildEnds(p) PROVE LockIInv'
      BY <1>6 DEF SpawnChild, ChildEnds
<1>7. ASSUME NEW p \in Scripts, Finish(p) \/ Interrupt(p) \/ Killed(p) PROVE LockIInv'
      BY <1>7 DEF Finish, Interrupt, Killed, Close, Reach, LockTypeOK
<1>8. ASSUME NEW p \in Scripts, Move(p) PROVE LockIInv'
  <2>1. CASE present
    <3>1. present' = FALSE /\ at' = [at EXCEPT ![p] = "moved"] /\ fd' = fd
          BY <1>8, <2>1 DEF Move, Reach
    <3>2. at[p] \in Holding /\ fd[p] = lockFile
          BY <1>8, <2>1 DEF Move, LockTypeOK
    <3>3. \A q \in Scripts : at[q] = "working" => q = p
          BY <2>1, <3>2 DEF LockTypeOK
    <3> QED BY <3>1, <3>2, <3>3 DEF LockTypeOK
  <2>2. CASE ~present
        BY <1>8, <2>2 DEF Move, Close, Reach, LockTypeOK
  <2> QED BY <2>1, <2>2
<1>9. ASSUME NEW p \in Scripts, ReleaseMoved(p) \/ UnlinkLockFile(p) PROVE LockIInv'
  <2>1. ~present /\ ~present'
        BY <1>9 DEF ReleaseMoved, UnlinkLockFile, LockTypeOK
  <2> QED
      BY <1>9, <2>1 DEF ReleaseMoved, UnlinkLockFile, Close, Reach, LockTypeOK
<1>10. CASE Reimport
  <2>1. \A p \in Scripts : fd[p] = NoInode /\ at[p] \in {"idle", "seen"}
        BY <1>10, ReappearEarly = FALSE DEF Reimport, LockTypeOK
  <2> QED BY <1>10, <2>1 DEF Reimport
<1>11. CASE UNCHANGED lockVars
      BY <1>11 DEF lockVars
<1> QED
    BY <1>1, <1>2, <1>3, <1>4, <1>5, <1>6, <1>7, <1>8, <1>9, <1>10, <1>11 DEF LockNext

(* The inductive invariant gives both properties. *)
LEMMA LockInvImplies == LockIInv => WorkExclusion /\ HolderOwnsThePath
<1> SUFFICES ASSUME LockIInv PROVE WorkExclusion /\ HolderOwnsThePath
    OBVIOUS
<1>1. HolderOwnsThePath
      BY DEF LockIInv, OpenOwnsThePath, HolderOwnsThePath, Holding, LockTypeOK
<1>2. ASSUME NEW p \in Scripts, NEW q \in Scripts, Busy(p), Busy(q) PROVE p = q
  <2>1. present /\ at[p] \in Holding /\ at[q] \in Holding
        BY <1>2 DEF Busy, LockIInv, WorkersSeeTheFile, Holding
  <2> QED BY <1>1, <2>1 DEF HolderOwnsThePath, LockIInv, OneHolderPerInode
<1> QED BY <1>1, <1>2 DEF WorkExclusion

-----------------------------------------------------------------------------
(* The variables keep their ranges, and no process leaks the descriptor of *)
(* a lock it did not get, whatever the constants are.                      *)
THEOREM LockTypeCorrect == LockSpec => []LockTypeOK
<1>1. LockInit => LockTypeOK
      BY LockInitInv DEF LockIInv
<1> QED BY <1>1, LockTypeStep, PTL DEF LockSpec

(* A pipeline and a dedupe, or two pipelines, never work on one media file *)
(* at the same time.                                                       *)
THEOREM Exclusion == ASSUME ReappearEarly = FALSE PROVE LockSpec => []WorkExclusion
<1>1. LockIInv /\ [LockNext]_lockVars => LockIInv'
      BY LockStepInv, ReappearEarly = FALSE
<1>2. LockIInv => WorkExclusion
      BY LockInvImplies
<1> QED BY LockInitInv, <1>1, <1>2, PTL DEF LockSpec

(* No child outlives the lock it works under, if only childless processes  *)
(* are killed with SIGKILL.                                                *)
THEOREM ChildrenLocked == ASSUME MayOrphan = FALSE PROVE LockSpec => []ChildUnderLock
<1> DEFINE Inv == LockTypeOK /\ ChildUnderLock
<1>1. LockInit => Inv
      BY LockInitInv DEF LockIInv, LockInit, ChildUnderLock
<1>2. Inv /\ [LockNext]_lockVars => Inv'
  <2> SUFFICES ASSUME Inv, [LockNext]_lockVars PROVE ChildUnderLock'
      BY LockTypeStep
  <2> USE MayOrphan = FALSE DEF ChildUnderLock, Reach, Close, LockTypeOK, Scripts
  <2>1. ASSUME NEW p \in Scripts, See(p) \/ OpenLockFile(p) \/ Flock(p) \/ FlockBusy(p)
        PROVE ChildUnderLock'
        BY <2>1 DEF See, OpenLockFile, Flock, FlockBusy
  <2>2. ASSUME NEW p \in Scripts, CheckFile(p) \/ SpawnChild(p) \/ ChildEnds(p)
        PROVE ChildUnderLock'
        BY <2>2 DEF CheckFile, SpawnChild, ChildEnds
  <2>3. ASSUME NEW p \in Scripts, Finish(p) \/ Interrupt(p) \/ Killed(p)
        PROVE ChildUnderLock'
        BY <2>3 DEF Finish, Interrupt, Killed
  <2>4. ASSUME NEW p \in Scripts, Move(p) \/ ReleaseMoved(p) \/ UnlinkLockFile(p)
        PROVE ChildUnderLock'
        BY <2>4, ScriptsAssumption DEF Move, ReleaseMoved, UnlinkLockFile
  <2>5. CASE Reimport \/ UNCHANGED lockVars
        BY <2>5 DEF Reimport, lockVars
  <2> QED BY <2>1, <2>2, <2>3, <2>4, <2>5 DEF LockNext
<1>3. Inv => ChildUnderLock
      OBVIOUS
<1> QED BY <1>1, <1>2, <1>3, PTL DEF LockSpec

(* Whoever holds the lock of a present file holds the lock newcomers try. *)
THEOREM PathOwned == ASSUME ReappearEarly = FALSE PROVE LockSpec => []HolderOwnsThePath
<1>1. LockIInv /\ [LockNext]_lockVars => LockIInv'
      BY LockStepInv, ReappearEarly = FALSE
<1>2. LockIInv => HolderOwnsThePath
      BY LockInvImplies
<1> QED BY LockInitInv, <1>1, <1>2, PTL DEF LockSpec
=============================================================================
