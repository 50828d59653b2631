--------------------------- MODULE NormalizeProofs --------------------------
(***************************************************************************)
(* The swap of normalize-audio.py, for any number of workers, releases,    *)
(* faults and kills.  That a file is encoded once holds wherever imports   *)
(* fall; that no release is lost needs the two gaps closed that its        *)
(* theorem names.                                                          *)
(***************************************************************************)
EXTENDS Normalize, TLAPS

Threads == [pc : Places, src : Names, out : Media \cup {None}]

(* The places at which a worker holds the lock of the .mkv name. *)
Late == {"backup", "replace", "tag", "rollback", "drop"}

Typed ==
    /\ TypeOK
    /\ w \in [Workers -> Threads]
    /\ kills \in Nat

(* What a worker has rendered, and the source it has found untagged. *)
Rendered(p) ==
    /\ w[p].pc \in {"collide", "dest", "backup", "replace"} =>
          w[p].out # None /\ ~w[p].out.tagged /\ w[p].out.encodes <= 1 + kills
    /\ w[p].pc \in {"tagonly", "render", "collide", "dest", "backup"} /\ disk[w[p].src] # None =>
          ~disk[w[p].src].tagged
    /\ w[p].pc \in {"replace", "tag"} /\ bak[w[p].src] # None => bak[w[p].src].encodes <= kills
    /\ w[p].pc = "tag" => disk["mkv"] # None

(* A file without the tag has no encoding that a kill does not account for, *)
(* unless its worker is still there to tag it or to take it back.           *)
UntaggedIsOld(n) ==
    disk[n] # None /\ ~disk[n].tagged =>
        \/ disk[n].encodes <= kills
        \/ n = "mkv" /\ \E p \in Workers : w[p].pc \in {"tag", "rollback"}

IInv ==
    /\ Typed
    /\ \A p \in Workers : Rendered(p)
    /\ \A n \in Names : UntaggedIsOld(n)
    /\ EncodedOnce

(* What a worker relies on, from its first look at the file to the end of   *)
(* the swap, if nothing is imported over a file that is worked on.          *)
Swapping(p) ==
    LET n == w[p].src IN
    /\ w[p].pc \in {"inspect", "tagonly", "render", "collide", "dest", "backup"} => disk[n] # None
    /\ w[p].pc \in {"collide", "dest", "backup"} => w[p].out.release = disk[n].release
    /\ w[p].pc \in {"dest", "rollback"} => n = "mp4"
    /\ w[p].pc = "backup" /\ n = "mp4" => disk["mkv"] = None
    /\ w[p].pc = "replace" =>
          disk[n] = None /\ disk["mkv"] = None /\ bak[n] # None /\ w[p].out.release = bak[n].release
    /\ w[p].pc \in {"tag", "drop"} =>
          disk["mkv"] # None /\ bak[n] # None /\ disk["mkv"].release = bak[n].release
    /\ w[p].pc \in {"tag", "drop"} /\ n = "mp4" => disk["mp4"] = None
    /\ w[p].pc = "rollback" =>
          disk["mkv"] # None /\ disk["mp4"] # None /\ disk["mkv"].release = disk["mp4"].release

(* A backup that its worker will restore or drop. *)
InUse(n) == \E p \in Workers : w[p].src = n /\ w[p].pc \in {"replace", "tag", "drop"}
Leftover(n) == bak[n] # None /\ ~InUse(n)

OnDisk(r) == \E n \in Names : disk[n] # None /\ disk[n].release = r
InBackup(r, n) == bak[n] # None /\ bak[n].release = r /\ InUse(n)

(* What makes it do no harm to overwrite a backup that nobody has in use:   *)
(* its release is elsewhere too, or no swap of that file will begin.        *)
Spared(n) ==
    \/ disk[n] = None
    \/ OnDisk(bak[n].release)
    \/ \E m \in Names \ {n} : InBackup(bak[n].release, m)
    \/ n = "mkv" /\ disk["mkv"].tagged
    \/ n = "mkv" /\ \E p \in Workers : w[p].src = "mp4" /\ w[p].pc \in {"tag", "rollback"}

(* The backup that a killed worker has left is such a one.                  *)
LeftoverIsSafe(n) ==
    Leftover(n) =>
        kills >= 1 /\ (kills <= 1 /\ bak[n].release \in wanted => Spared(n))

SwapInv ==
    /\ \A p \in Workers : Swapping(p)
    /\ \A n \in Names : LeftoverIsSafe(n)
    /\ NothingLost

-----------------------------------------------------------------------------
(* The workers and their locks. *)

Early == {"inspect", "tagonly", "render", "collide", "dest"}

(* A worker has the locks that its place calls for. *)
LocksOf(p) ==
    {n \in Names : lock[n] = p} =
        IF w[p].pc = "idle" THEN {}
        ELSE IF w[p].pc \in Early THEN {w[p].src} ELSE {w[p].src, "mkv"}

Locking ==
    /\ w \in [Workers -> Threads]
    /\ lock \in [Names -> Workers \cup {None}]
    /\ \A p \in Workers : LocksOf(p)

Stored ==
    /\ disk \in [Names -> Media \cup {None}]
    /\ bak \in [Names -> Media \cup {None}]
    /\ tmp \subseteq Workers
    /\ wanted \subseteq imported /\ imported \subseteq Releases
    /\ kills \in Nat

LEMMA TypedParts == Typed <=> Locking /\ Stored
  BY DEF Typed, TypeOK, Locking, Stored, LocksOf, Early, Threads, Idle, At

LEMMA Places12 == Places = {"idle"} \cup Early \cup Late
  BY DEF Places, Early, Late

(* Which locks a worker has, and that nobody else has them. *)
LEMMA Holding ==
    ASSUME Typed, NEW p \in Workers, w[p].pc # "idle"
    PROVE  /\ w[p] \in Threads /\ w[p].src \in Names
           /\ lock[w[p].src] = p
           /\ w[p].pc \in Late => lock["mkv"] = p
<1>1. w[p] \in Threads /\ w[p].src \in Names
      BY DEF Typed, Threads
<1>2. LocksOf(p)
      BY TypedParts DEF Locking
<1> QED BY <1>1, <1>2 DEF LocksOf, Late, Early

LEMMA Alone ==
    ASSUME Typed, NEW p \in Workers, NEW q \in Workers, p # q,
           w[p].pc # "idle", w[q].pc # "idle"
    PROVE  /\ w[p].src # w[q].src
           /\ w[p].pc \in Late => w[q].src # "mkv" /\ w[q].pc \notin Late
  BY Holding

(* A worker that goes on keeps its locks. *)
LEMMA GoesOn ==
    ASSUME Locking, NEW p \in Workers, NEW t \in Threads,
           w' = [w EXCEPT ![p] = t], lock' = lock,
           w[p].pc # "idle", t.pc # "idle", t.src = w[p].src,
           (t.pc \in Early /\ w[p].pc \in Early) \/ (t.pc \notin Early /\ w[p].pc \notin Early)
             \/ t.src = "mkv"
    PROVE  Locking'
<1>1. w' \in [Workers -> Threads] /\ w'[p] = t
      BY DEF Locking
<1>2. ASSUME NEW q \in Workers PROVE LocksOf(q)'
  <2>1. LocksOf(q)
        BY DEF Locking
  <2>2. CASE q = p
        BY <1>1, <2>1, <2>2 DEF LocksOf
  <2>3. CASE q # p
    <3>1. w'[q] = w[q]
          BY <2>3 DEF Locking
    <3> QED BY <2>1, <3>1 DEF LocksOf
  <2> QED BY <2>2, <2>3
<1> QED BY <1>1, <1>2 DEF Locking

(* One that ends gives them back. *)
LEMMA Ends ==
    ASSUME Locking, NEW p \in Workers, w' = [w EXCEPT ![p] = Idle], lock' = Freed(p)
    PROVE  Locking'
<1>1. Idle \in Threads
      BY DEF Idle, Threads, Places, Names
<1>2. w' \in [Workers -> Threads] /\ w'[p] = Idle
      BY <1>1 DEF Locking
<1>3. lock' \in [Names -> Workers \cup {None}]
      BY DEF Locking, Freed
<1>4. ASSUME NEW q \in Workers PROVE LocksOf(q)'
  <2>1. LocksOf(q) /\ q # None /\ p # None
        BY NoneAssumption DEF Locking
  <2>2. CASE q = p
    <3>1. {n \in Names : lock'[n] = p} = {}
          BY <2>1 DEF Freed
    <3> QED BY <1>2, <2>2, <3>1 DEF LocksOf, Idle
  <2>3. CASE q # p
    <3>1. w'[q] = w[q]
          BY <2>3 DEF Locking
    <3>2. {n \in Names : lock'[n] = q} = {n \in Names : lock[n] = q}
          BY <2>1, <2>3 DEF Freed
    <3> QED BY <2>1, <3>1, <3>2 DEF LocksOf
  <2> QED BY <2>2, <2>3
<1> QED BY <1>2, <1>3, <1>4 DEF Locking

(* One that takes a free lock has that too. *)
LEMMA Takes ==
    ASSUME Locking, NEW p \in Workers, NEW t \in Threads, NEW n \in Names,
           w' = [w EXCEPT ![p] = t], lock[n] = None, lock' = [lock EXCEPT ![n] = p],
           \/ w[p].pc = "idle" /\ t.pc \in Early /\ t.src = n
           \/ w[p].pc \in Early /\ t.pc \in Late /\ t.src = w[p].src /\ n = "mkv"
    PROVE  Locking'
<1>1. w' \in [Workers -> Threads] /\ w'[p] = t
      BY DEF Locking
<1>2. lock' \in [Names -> Workers \cup {None}]
      BY DEF Locking
<1>3. ASSUME NEW q \in Workers PROVE LocksOf(q)'
  <2>1. LocksOf(q) /\ q # None
        BY NoneAssumption DEF Locking
  <2>2. CASE q = p
    <3>1. {m \in Names : lock'[m] = p} = {m \in Names : lock[m] = p} \cup {n}
          BY DEF Locking
    <3>2. CASE w[p].pc = "idle" /\ t.pc \in Early /\ t.src = n
      <4>1. {m \in Names : lock'[m] = p} = {n}
            BY <2>1, <2>2, <3>1, <3>2 DEF LocksOf
      <4>2. t.pc # "idle"
            BY <3>2 DEF Early
      <4> QED BY <1>1, <2>2, <3>2, <4>1, <4>2 DEF LocksOf
    <3>3. CASE w[p].pc \in Early /\ t.pc \in Late /\ t.src = w[p].src /\ n = "mkv"
      <4>1. w[p].pc # "idle" /\ t.pc # "idle" /\ t.pc \notin Early
            BY <3>3 DEF Early, Late
      <4>2. {m \in Names : lock'[m] = p} = {t.src, "mkv"}
            BY <2>1, <2>2, <3>1, <3>3, <4>1 DEF LocksOf
      <4> QED BY <1>1, <2>2, <4>1, <4>2 DEF LocksOf
    <3> QED BY <3>2, <3>3
  <2>3. CASE q # p
    <3>1. w'[q] = w[q]
          BY <2>3 DEF Locking
    <3>2. {m \in Names : lock'[m] = q} = {m \in Names : lock[m] = q}
          BY <2>1, <2>3 DEF Locking
    <3> QED BY <2>1, <3>1, <3>2 DEF LocksOf
  <2> QED BY <2>2, <2>3
<1> QED BY <1>1, <1>2, <1>3 DEF Locking

(* What going to the next place leaves alone. *)
LEMMA GotoMoves ==
    ASSUME Typed, NEW p \in Workers, NEW place \in Places, Goto(p, place)
    PROVE  \E t \in Threads :
              /\ w' = [w EXCEPT ![p] = t]
              /\ t.pc = place /\ t.src = w[p].src /\ t.out = w[p].out
<1> DEFINE t == [w[p] EXCEPT !.pc = place]
<1>1. w[p] \in Threads /\ w \in [Workers -> Threads]
      BY DEF Typed
<1>2. t \in Threads /\ t.pc = place /\ t.src = w[p].src /\ t.out = w[p].out
      BY <1>1 DEF Threads
<1>3. w' = [w EXCEPT ![p] = t]
      BY <1>1 DEF Goto
<1> HIDE DEF t
<1> QED BY <1>2, <1>3

-----------------------------------------------------------------------------
(* What each step does. *)
LEMMA FinishMoves ==
    ASSUME Typed, NEW p \in Workers, Finish(p)
    PROVE  /\ Locking' /\ tmp' \subseteq Workers
           /\ w' = [w EXCEPT ![p] = Idle]
  BY Ends, TypedParts DEF Finish, Stored

LEMMA BeginStep ==
    ASSUME Typed, NEW p \in Workers, NEW n \in Names, Begin(p, n)
    PROVE  /\ Locking' /\ UNCHANGED <<disk, bak, tmp, wanted, imported, kills>>
           /\ disk[n] # None /\ lock[n] = None /\ w[p].pc = "idle"
           /\ \E t \in Threads :
                 w' = [w EXCEPT ![p] = t] /\ t.pc = "inspect" /\ t.src = n
<1> DEFINE t == [Idle EXCEPT !.pc = "inspect", !.src = n]
<1>1. t \in Threads /\ t.pc = "inspect" /\ t.src = n
      BY DEF Idle, Threads, Places
<1>2. w' = [w EXCEPT ![p] = t] /\ lock' = [lock EXCEPT ![n] = p] /\ lock[n] = None
      BY DEF Begin
<1>3. w[p].pc = "idle" /\ "inspect" \in Early
      BY DEF Begin, At, Early
<1>4. Locking
      BY TypedParts
<1> HIDE DEF t
<1>5. Locking'
      BY <1>1, <1>2, <1>3, <1>4, Takes
<1>6. UNCHANGED <<disk, bak, tmp, wanted, imported, kills>> /\ disk[n] # None
      BY DEF Begin, World, NoFault
<1> QED BY <1>1, <1>2, <1>3, <1>5, <1>6

LEMMA InspectStep ==
    ASSUME Typed, NEW p \in Workers, Inspect(p)
    PROVE  /\ Locking' /\ tmp' \subseteq Workers
           /\ UNCHANGED <<disk, bak, wanted, imported, kills>>
           /\ w[p].pc = "inspect"
           /\ \E t \in Threads :
                 /\ w' = [w EXCEPT ![p] = t]
                 /\ \/ t = Idle
                    \/ /\ t.pc \in {"tagonly", "render"} /\ t.src = w[p].src
                       /\ disk[t.src] # None /\ ~disk[t.src].tagged
<1>1. Idle \in Threads
      BY DEF Idle, Threads, Places, Names
<1>2. w[p].pc = "inspect" /\ w[p] \in Threads /\ UNCHANGED <<disk, bak, wanted, imported, kills>>
      BY DEF Inspect, At, World, NoFault, Fault, Typed
<1>3. CASE Finish(p)
      BY <1>1, <1>2, <1>3, FinishMoves
<1>4. ASSUME NEW t \in Threads, w' = [w EXCEPT ![p] = t], t.pc \in {"tagonly", "render"},
             t.src = w[p].src, UNCHANGED <<tmp, lock>>, disk[w[p].src] # None, ~disk[w[p].src].tagged
      PROVE  /\ Locking' /\ tmp' \subseteq Workers
             /\ \E u \in Threads :
                   /\ w' = [w EXCEPT ![p] = u]
                   /\ u.pc \in {"tagonly", "render"} /\ u.src = w[p].src
                   /\ disk[u.src] # None /\ ~disk[u.src].tagged
  <2>1. t.pc \in Early /\ w[p].pc \in Early /\ t.pc # "idle" /\ w[p].pc # "idle"
        BY <1>2, <1>4 DEF Early
  <2>2. Locking'
        BY <1>4, <2>1, GoesOn, TypedParts
  <2>3. tmp' \subseteq Workers
        BY <1>4, TypedParts DEF Stored
  <2> QED BY <1>4, <2>2, <2>3
<1>5. CASE ~Finish(p)
  <2>1. disk[w[p].src] # None /\ ~disk[w[p].src].tagged /\ UNCHANGED <<tmp, lock>>
          /\ (Goto(p, "tagonly") \/ Goto(p, "render"))
        BY <1>5 DEF Inspect
  <2>2. "tagonly" \in Places /\ "render" \in Places
        BY DEF Places
  <2>3. PICK t \in Threads :
            w' = [w EXCEPT ![p] = t] /\ t.pc \in {"tagonly", "render"} /\ t.src = w[p].src
        BY <2>1, <2>2, GotoMoves
  <2> QED BY <1>2, <1>4, <2>1, <2>3
<1> QED BY <1>3, <1>5


(* A file under the name n gets its tag, and is otherwise what it was. *)
Marked(n) ==
    \E m \in Media :
        /\ disk' = [disk EXCEPT ![n] = m] /\ m.tagged
        /\ m.encodes = disk[n].encodes /\ m.release = disk[n].release

LEMMA Tagged ==
    ASSUME Typed, NEW n \in Names, disk[n] # None, disk' = [disk EXCEPT ![n].tagged = TRUE]
    PROVE  Marked(n)
<1> DEFINE t == [disk[n] EXCEPT !.tagged = TRUE]
<1>1. disk[n] \in Media
      BY TypedParts DEF Stored
<1>2. t \in Media /\ t.tagged /\ t.encodes = disk[n].encodes /\ t.release = disk[n].release
      BY <1>1 DEF Media
<1>3. disk' = [disk EXCEPT ![n] = t]
      OBVIOUS
<1> HIDE DEF t
<1> QED BY <1>2, <1>3 DEF Marked

LEMMA TagOnlyStep ==
    ASSUME Typed, NEW p \in Workers, TagOnly(p)
    PROVE  /\ Locking' /\ tmp' \subseteq Workers
           /\ UNCHANGED <<bak, wanted, imported, kills>>
           /\ w[p].pc = "tagonly" /\ w' = [w EXCEPT ![p] = Idle]
           /\ disk' = disk \/ Marked(w[p].src)
<1>1. w[p].src \in Names
      BY DEF Typed, Threads
<1>2. CASE disk[w[p].src] # None /\ disk' = [disk EXCEPT ![w[p].src].tagged = TRUE]
      BY <1>1, <1>2, Tagged, FinishMoves DEF TagOnly, At, World, NoFault, Fault
<1>3. CASE disk' = disk
      BY <1>3, FinishMoves DEF TagOnly, At, World, NoFault, Fault
<1> QED BY <1>2, <1>3 DEF TagOnly

LEMMA Encoded ==
    ASSUME NEW m \in Media
    PROVE  LET o == [m EXCEPT !.encodes = @ + 1, !.tagged = FALSE]
           IN  o \in Media /\ o.release = m.release /\ ~o.tagged /\ o.encodes = m.encodes + 1
<1> DEFINE e == m.encodes + 1
<1>1. e \in Nat
      BY DEF Media
<1> HIDE DEF e
<1> DEFINE o == [m EXCEPT !.encodes = e, !.tagged = FALSE]
<1>2. o \in Media /\ o.release = m.release /\ ~o.tagged /\ o.encodes = e
      BY <1>1 DEF Media
<1> QED BY <1>2 DEF e

LEMMA RenderStep ==
    ASSUME Typed, NEW p \in Workers, Render(p)
    PROVE  /\ Locking' /\ tmp' \subseteq Workers
           /\ UNCHANGED <<disk, bak, wanted, imported, kills>>
           /\ w[p].pc = "render"
           /\ \E t \in Threads :
                 /\ w' = [w EXCEPT ![p] = t]
                 /\ \/ t = Idle
                    \/ /\ t.pc = "collide" /\ t.src = w[p].src /\ disk[t.src] # None
                       /\ t.out \in Media /\ t.out.release = disk[t.src].release
                       /\ ~t.out.tagged /\ t.out.encodes = disk[t.src].encodes + 1
<1>1. Idle \in Threads
      BY DEF Idle, Threads, Places, Names
<1>2. /\ w[p].pc = "render" /\ w[p] \in Threads /\ w \in [Workers -> Threads] /\ w[p].src \in Names
      /\ UNCHANGED <<disk, bak, wanted, imported, kills>>
      BY DEF Render, At, World, NoFault, Fault, Typed, Threads
<1>3. CASE Finish(p)
      BY <1>1, <1>2, <1>3, FinishMoves
<1>4. CASE ~Finish(p)
  <2> DEFINE out == [disk[w[p].src] EXCEPT !.encodes = @ + 1, !.tagged = FALSE]
             t == [w[p] EXCEPT !.pc = "collide", !.out = out]
  <2>1. /\ disk[w[p].src] # None /\ lock' = lock /\ tmp' = tmp \cup {p}
        /\ w' = [w EXCEPT ![p].pc = "collide", ![p].out = out]
        BY <1>4 DEF Render
  <2>2. disk[w[p].src] \in Media
        BY <1>2, <2>1, TypedParts DEF Stored
  <2>3. /\ out \in Media /\ out.release = disk[w[p].src].release /\ ~out.tagged
        /\ out.encodes = disk[w[p].src].encodes + 1
    <3> QED BY <2>2, Encoded
  <2> HIDE DEF out
  <2>4. w' = [w EXCEPT ![p] = t]
        BY <1>2, <2>1
  <2>5. t \in Threads /\ t.pc = "collide" /\ t.src = w[p].src /\ t.out = out
        BY <1>2, <2>3 DEF Threads, Places
  <2> HIDE DEF t
  <2>6. Locking'
        BY <1>2, <2>1, <2>4, <2>5, GoesOn, TypedParts DEF Early
  <2>7. tmp' \subseteq Workers
        BY <2>1, TypedParts DEF Stored
  <2> QED BY <1>2, <2>1, <2>3, <2>4, <2>5, <2>6, <2>7
<1> QED BY <1>3, <1>4

LEMMA CollideStep ==
    ASSUME Typed, NEW p \in Workers, Collide(p)
    PROVE  /\ Locking' /\ tmp' \subseteq Workers
           /\ UNCHANGED <<disk, bak, wanted, imported, kills>>
           /\ w[p].pc = "collide"
           /\ \E t \in Threads :
                 /\ w' = [w EXCEPT ![p] = t]
                 /\ \/ t = Idle
                    \/ /\ t.src = w[p].src /\ t.out = w[p].out
                       /\ \/ t.pc = "dest" /\ t.src = "mp4"
                          \/ t.pc = "backup" /\ t.src = "mkv"
<1>1. Idle \in Threads
      BY DEF Idle, Threads, Places, Names
<1>2. /\ w[p].pc = "collide" /\ w[p].src \in Names
      /\ UNCHANGED <<disk, bak, wanted, imported, kills>>
      BY DEF Collide, At, World, NoFault, Fault, Typed, Threads
<1>3. CASE Finish(p)
      BY <1>1, <1>2, <1>3, FinishMoves
<1>4. CASE ~Finish(p)
  <2> DEFINE place == IF w[p].src = "mp4" THEN "dest" ELSE "backup"
  <2>1. Goto(p, place) /\ UNCHANGED <<tmp, lock>>
        BY <1>4 DEF Collide
  <2>2. place \in Places
        BY DEF Places
  <2>3. PICK t \in Threads :
            w' = [w EXCEPT ![p] = t] /\ t.pc = place /\ t.src = w[p].src /\ t.out = w[p].out
        BY <2>1, <2>2, GotoMoves
  <2>4. (t.pc = "dest" /\ t.src = "mp4") \/ (t.pc = "backup" /\ t.src = "mkv")
        BY <1>2, <2>3 DEF Names
  <2>5. Locking'
        BY <1>2, <2>1, <2>3, <2>4, GoesOn, TypedParts DEF Early
  <2>6. tmp' \subseteq Workers
        BY <2>1, TypedParts DEF Stored
  <2> QED BY <1>2, <2>3, <2>4, <2>5, <2>6
<1> QED BY <1>3, <1>4

LEMMA DestStep ==
    ASSUME Typed, NEW p \in Workers, Dest(p)
    PROVE  /\ Locking' /\ tmp' \subseteq Workers
           /\ UNCHANGED <<disk, bak, wanted, imported, kills>>
           /\ w[p].pc = "dest"
           /\ \E t \in Threads :
                 /\ w' = [w EXCEPT ![p] = t]
                 /\ \/ t = Idle
                    \/ /\ t.pc = "backup" /\ t.src = w[p].src /\ t.out = w[p].out
                       /\ disk["mkv"] = None
<1>1. Idle \in Threads
      BY DEF Idle, Threads, Places, Names
<1>2. /\ w[p].pc = "dest" /\ UNCHANGED <<disk, bak, wanted, imported, kills>>
      BY DEF Dest, At, World, NoFault
<1>3. CASE Finish(p)
      BY <1>1, <1>2, <1>3, FinishMoves
<1>4. CASE ~Finish(p)
  <2>1. /\ Goto(p, "backup") /\ lock["mkv"] = None /\ disk["mkv"] = None
        /\ lock' = [lock EXCEPT !["mkv"] = p] /\ tmp' = tmp
        BY <1>4 DEF Dest
  <2>2. "backup" \in Places /\ "mkv" \in Names
        BY DEF Places, Names
  <2>3. PICK t \in Threads :
            w' = [w EXCEPT ![p] = t] /\ t.pc = "backup" /\ t.src = w[p].src /\ t.out = w[p].out
        BY <2>1, <2>2, GotoMoves
  <2>4. w[p].pc \in Early /\ t.pc \in Late
        BY <1>2, <2>3 DEF Early, Late
  <2>5. Locking'
        BY <2>1, <2>2, <2>3, <2>4, Takes, TypedParts
  <2>6. tmp' \subseteq Workers
        BY <2>1, TypedParts DEF Stored
  <2> QED BY <1>2, <2>1, <2>3, <2>5, <2>6
<1> QED BY <1>3, <1>4


(* The rest of a swap, once all locks are held. *)
LEMMA LateMoves ==
    ASSUME Typed, NEW p \in Workers, NEW place \in Late, w[p].pc \in Late, Goto(p, place),
           UNCHANGED lock
    PROVE  /\ Locking'
           /\ \E t \in Threads :
                 w' = [w EXCEPT ![p] = t] /\ t.pc = place /\ t.src = w[p].src /\ t.out = w[p].out
<1>1. place \in Places
      BY DEF Late, Places
<1>2. PICK t \in Threads :
          w' = [w EXCEPT ![p] = t] /\ t.pc = place /\ t.src = w[p].src /\ t.out = w[p].out
      BY <1>1, GotoMoves
<1>3. w[p].pc \notin Early /\ t.pc \notin Early /\ w[p].pc # "idle" /\ t.pc # "idle"
      BY <1>2 DEF Early, Late
<1>4. Locking'
      BY <1>2, <1>3, GoesOn, TypedParts
<1> QED BY <1>2, <1>4

LEMMA BackupStep ==
    ASSUME Typed, NEW p \in Workers, Backup(p)
    PROVE  /\ Locking' /\ tmp' \subseteq Workers
           /\ UNCHANGED <<wanted, imported, kills>>
           /\ w[p].pc = "backup"
           /\ \/ w' = [w EXCEPT ![p] = Idle] /\ UNCHANGED <<disk, bak>>
              \/ /\ \E t \in Threads :
                       w' = [w EXCEPT ![p] = t] /\ t.pc = "replace" /\ t.src = w[p].src
                         /\ t.out = w[p].out
                 /\ disk[w[p].src] # None
                 /\ bak' = [bak EXCEPT ![w[p].src] = disk[w[p].src]]
                 /\ disk' = [disk EXCEPT ![w[p].src] = None]
<1>1. w[p].pc = "backup" /\ UNCHANGED <<wanted, imported, kills>>
      BY DEF Backup, At, World, NoFault, Fault
<1>2. CASE Finish(p) /\ UNCHANGED <<disk, bak>>
      BY <1>1, <1>2, FinishMoves
<1>3. CASE /\ disk[w[p].src] # None /\ Goto(p, "replace") /\ UNCHANGED <<tmp, lock>>
           /\ bak' = [bak EXCEPT ![w[p].src] = disk[w[p].src]]
           /\ disk' = [disk EXCEPT ![w[p].src] = None]
  <2>1. w[p].pc \in Late /\ "replace" \in Late
        BY <1>1 DEF Late
  <2>2. tmp' \subseteq Workers
        BY <1>3, TypedParts DEF Stored
  <2> QED BY <1>1, <1>3, <2>1, <2>2, LateMoves
<1> QED BY <1>2, <1>3 DEF Backup

LEMMA ReplaceStep ==
    ASSUME Typed, NEW p \in Workers, Replace(p)
    PROVE  /\ Locking' /\ tmp' \subseteq Workers
           /\ UNCHANGED <<wanted, imported, kills>>
           /\ w[p].pc = "replace"
           /\ \/ /\ w' = [w EXCEPT ![p] = Idle]
                 /\ disk' = [disk EXCEPT ![w[p].src] = bak[w[p].src]]
                 /\ bak' = [bak EXCEPT ![w[p].src] = None]
              \/ /\ \E t \in Threads :
                       w' = [w EXCEPT ![p] = t] /\ t.pc = "tag" /\ t.src = w[p].src
                         /\ t.out = w[p].out
                 /\ disk' = [disk EXCEPT !["mkv"] = w[p].out]
                 /\ bak' = bak
<1>1. w[p].pc = "replace" /\ UNCHANGED <<wanted, imported, kills>>
      BY DEF Replace, At, World, NoFault, Fault
<1>2. CASE /\ disk' = Restored(w[p].src)
           /\ bak' = [bak EXCEPT ![w[p].src] = None]
           /\ Finish(p)
      BY <1>1, <1>2, FinishMoves DEF Restored
<1>3. CASE /\ disk' = [disk EXCEPT !["mkv"] = w[p].out]
           /\ tmp' = tmp \ {p}
           /\ Goto(p, "tag")
           /\ UNCHANGED <<bak, lock>>
  <2>1. w[p].pc \in Late /\ "tag" \in Late
        BY <1>1 DEF Late
  <2>2. tmp' \subseteq Workers
        BY <1>3, TypedParts DEF Stored
  <2> QED BY <1>1, <1>3, <2>1, <2>2, LateMoves
<1> QED BY <1>2, <1>3 DEF Replace

LEMMA TagStep ==
    ASSUME Typed, NEW p \in Workers, Tag(p), Rendered(p)
    PROVE  /\ Locking' /\ tmp' \subseteq Workers
           /\ UNCHANGED <<wanted, imported, kills>>
           /\ w[p].pc = "tag"
           /\ \/ /\ \E t \in Threads :
                       w' = [w EXCEPT ![p] = t] /\ t.pc = "drop" /\ t.src = w[p].src
                 /\ Marked("mkv")
                 /\ bak' = bak
              \/ /\ disk' = [disk EXCEPT ![w[p].src] = bak[w[p].src]]
                 /\ bak' = [bak EXCEPT ![w[p].src] = None]
                 /\ \/ w[p].src = "mkv" /\ w' = [w EXCEPT ![p] = Idle]
                    \/ /\ w[p].src = "mp4"
                       /\ \E t \in Threads :
                             w' = [w EXCEPT ![p] = t] /\ t.pc = "rollback" /\ t.src = w[p].src
<1>1. w[p].pc = "tag" /\ UNCHANGED <<wanted, imported, kills>> /\ w[p].src \in Names
      BY DEF Tag, At, World, NoFault, Fault, Typed, Threads
<1>2. w[p].pc \in Late /\ "drop" \in Late /\ "rollback" \in Late
      BY <1>1 DEF Late
<1>3. tmp \subseteq Workers
      BY TypedParts DEF Stored
<1>4. CASE /\ disk' = [disk EXCEPT !["mkv"].tagged = TRUE]
           /\ Goto(p, "drop")
           /\ UNCHANGED <<bak, lock, tmp>>
  <2>1. "mkv" \in Names /\ disk["mkv"] # None
        BY <1>1 DEF Names, Rendered
  <2>2. Marked("mkv")
        BY <1>4, <2>1, Tagged
  <2> QED BY <1>1, <1>2, <1>3, <1>4, <2>2, LateMoves
<1>5. CASE /\ disk' = Restored(w[p].src)
           /\ bak' = [bak EXCEPT ![w[p].src] = None]
           /\ w[p].src = "mkv" /\ Finish(p)
      BY <1>1, <1>5, FinishMoves DEF Restored
<1>6. CASE /\ disk' = Restored(w[p].src)
           /\ bak' = [bak EXCEPT ![w[p].src] = None]
           /\ w[p].src # "mkv" /\ Goto(p, "rollback") /\ UNCHANGED <<lock, tmp>>
      BY <1>1, <1>2, <1>3, <1>6, LateMoves DEF Restored, Names
<1> QED BY <1>4, <1>5, <1>6 DEF Tag

LEMMA RollBackStep ==
    ASSUME Typed, NEW p \in Workers, RollBack(p)
    PROVE  /\ Locking' /\ tmp' \subseteq Workers
           /\ UNCHANGED <<bak, wanted, imported, kills>>
           /\ w[p].pc = "rollback" /\ w' = [w EXCEPT ![p] = Idle]
           /\ disk' = [disk EXCEPT !["mkv"] = None]
  BY FinishMoves DEF RollBack, At, World, NoFault

LEMMA DropStep ==
    ASSUME Typed, NEW p \in Workers, DropBackup(p)
    PROVE  /\ Locking' /\ tmp' \subseteq Workers
           /\ UNCHANGED <<disk, wanted, imported, kills>>
           /\ w[p].pc = "drop" /\ w' = [w EXCEPT ![p] = Idle]
           /\ bak' = [bak EXCEPT ![w[p].src] = None]
  BY FinishMoves DEF DropBackup, At, World, NoFault

LEMMA KillStep ==
    ASSUME Typed, NEW p \in Workers, Kill(p)
    PROVE  /\ Locking' /\ UNCHANGED <<disk, bak, tmp, wanted, imported>>
           /\ kills' = kills + 1
           /\ w[p].pc # "idle" /\ w' = [w EXCEPT ![p] = Idle]
  BY Ends, TypedParts DEF Kill, At, World

LEMMA SweepStep ==
    ASSUME Typed, NEW p \in Workers, Sweep(p)
    PROVE  /\ Locking' /\ tmp' \subseteq Workers
           /\ UNCHANGED <<disk, bak, lock, w, wanted, imported, kills>>
<1>1. UNCHANGED <<disk, bak, lock, w, wanted, imported, kills>> /\ tmp' \subseteq tmp
      BY DEF Sweep, World, NoFault
<1>2. Locking /\ tmp \subseteq Workers
      BY TypedParts DEF Stored
<1> QED BY <1>1, <1>2 DEF Locking, LocksOf

LEMMA ImportStep ==
    ASSUME Typed, NEW n \in Names, Import(n)
    PROVE  /\ Locking' /\ UNCHANGED <<bak, lock, w, tmp, kills>>
           /\ \E r \in Releases, fit \in BOOLEAN :
                 /\ disk' = [disk EXCEPT ![n] = [release |-> r, encodes |-> 0, tagged |-> FALSE, fit |-> fit]]
                 /\ imported' = imported \cup {r}
                 /\ wanted' = (wanted \ Gone(n)) \cup {r}
<1>1. Locking
      BY TypedParts
<1> QED BY <1>1 DEF Import, NoFault, Locking, LocksOf

-----------------------------------------------------------------------------
(* A step of one worker, for the others and for the files. *)
Move(p) == (\E n \in Names : Begin(p, n)) \/ Step(p) \/ Kill(p)

LEMMA MoveStep ==
    ASSUME Typed, NEW p \in Workers, Move(p), Rendered(p)
    PROVE  /\ Locking' /\ tmp' \subseteq Workers /\ UNCHANGED <<wanted, imported>>
           /\ \E t \in Threads : w' = [w EXCEPT ![p] = t]
           /\ kills' \in Nat /\ kills' >= kills
<1>1. Idle \in Threads
      BY DEF Idle, Threads, Places, Names
<1>2. tmp \subseteq Workers /\ kills \in Nat
      BY TypedParts DEF Stored
<1>3. CASE (\E n \in Names : Begin(p, n)) \/ Kill(p)
      BY <1>1, <1>2, <1>3, BeginStep, KillStep
<1>4. CASE Inspect(p)
      BY <1>2, <1>4, InspectStep
<1>9. CASE TagOnly(p)
      BY <1>1, <1>2, <1>9, TagOnlyStep
<1>5. CASE Render(p)
      BY <1>2, <1>5, RenderStep
<1>6. CASE Collide(p) \/ Dest(p)
      BY <1>2, <1>6, CollideStep, DestStep
<1>7. CASE Backup(p) \/ Replace(p) \/ RollBack(p) \/ DropBackup(p)
      BY <1>1, <1>2, <1>7, BackupStep, ReplaceStep, RollBackStep, DropStep
<1>8. CASE Tag(p)
      BY <1>1, <1>2, <1>8, TagStep
<1> QED BY <1>3, <1>4, <1>5, <1>6, <1>7, <1>8, <1>9 DEF Move, Step

(* The file of a worker under way, as the others see it. *)
LEMMA OthersStay ==
    ASSUME Typed, NEW p \in Workers, Move(p), Rendered(p), NEW q \in Workers, q # p
    PROVE  /\ w'[q] = w[q]
           /\ w[q].pc # "idle" =>
                  disk'[w[q].src] = disk[w[q].src] /\ bak'[w[q].src] = bak[w[q].src]
           /\ w[q].pc \in Late => disk'["mkv"] = disk["mkv"]
<1>1. w'[q] = w[q]
  <2>1. PICK t \in Threads : w' = [w EXCEPT ![p] = t]
        BY MoveStep
  <2> QED BY <2>1 DEF Typed
<1>2. /\ disk' = disk
      \/ \E n \in Names : \E d :
            /\ disk' = [disk EXCEPT ![n] = d]
            /\ w[p].pc # "idle"
            /\ n = w[p].src \/ (n = "mkv" /\ w[p].pc \in Late)
  <2> "mkv" \in Names
      BY DEF Names
  <2>1. w[p].src \in Names
        BY DEF Typed, Threads
  <2>2. CASE (\E n \in Names : Begin(p, n)) \/ Kill(p)
        BY <2>2, BeginStep, KillStep
  <2>3. CASE Inspect(p) \/ Render(p) \/ Collide(p) \/ Dest(p) \/ DropBackup(p)
        BY <2>3, InspectStep, RenderStep, CollideStep, DestStep, DropStep
  <2>4. CASE TagOnly(p)
        BY <2>1, <2>4, TagOnlyStep DEF Marked
  <2>5. CASE Backup(p)
        BY <2>1, <2>5, BackupStep
  <2>6. CASE Replace(p)
        BY <2>1, <2>6, ReplaceStep DEF Late
  <2>7. CASE Tag(p)
        BY <2>1, <2>7, TagStep DEF Late, Marked
  <2>8. CASE RollBack(p)
        BY <2>8, RollBackStep DEF Late
  <2> QED BY <2>2, <2>3, <2>4, <2>5, <2>6, <2>7, <2>8 DEF Move, Step
<1>3. bak' = bak \/ (w[p].pc # "idle" /\ \E b : bak' = [bak EXCEPT ![w[p].src] = b])
  <2>1. CASE (\E n \in Names : Begin(p, n)) \/ Kill(p)
        BY <2>1, BeginStep, KillStep
  <2>2. CASE Inspect(p) \/ Render(p) \/ Collide(p) \/ Dest(p) \/ TagOnly(p) \/ RollBack(p)
        BY <2>2, InspectStep, RenderStep, CollideStep, DestStep, TagOnlyStep, RollBackStep
  <2>3. CASE Backup(p) \/ Replace(p) \/ Tag(p) \/ DropBackup(p)
        BY <2>3, BackupStep, ReplaceStep, TagStep, DropStep
  <2> QED BY <2>1, <2>2, <2>3 DEF Move, Step
<1>4. w[q].pc # "idle" /\ w[p].pc # "idle" =>
          /\ w[p].src # w[q].src
          /\ w[p].pc \in Late => w[q].src # "mkv" /\ w[q].pc \notin Late
          /\ w[q].pc \in Late => w[p].src # "mkv"
      BY Alone
<1>5. disk \in [Names -> Media \cup {None}] /\ bak \in [Names -> Media \cup {None}]
      BY TypedParts DEF Stored
<1>6. w[q].src \in Names /\ "mkv" \in Names
      BY DEF Typed, Threads, Names
<1>7. "idle" \notin Late
      BY DEF Late
<1>8. w[q].pc # "idle" => disk'[w[q].src] = disk[w[q].src]
      BY <1>2, <1>4, <1>5, <1>6
<1>9. w[q].pc # "idle" => bak'[w[q].src] = bak[w[q].src]
      BY <1>3, <1>4, <1>5, <1>6
<1>10. w[q].pc \in Late => disk'["mkv"] = disk["mkv"]
       BY <1>2, <1>4, <1>5, <1>6, <1>7
<1> QED BY <1>1, <1>8, <1>9, <1>10

-----------------------------------------------------------------------------
(* Types. *)

LEMMA Overwritten ==
    ASSUME NEW f \in [Names -> Media \cup {None}], NEW n \in Names, NEW m \in Media \cup {None}
    PROVE  [f EXCEPT ![n] = m] \in [Names -> Media \cup {None}]
  OBVIOUS

LEMMA TypeStep ==
    ASSUME Typed, \A p \in Workers : Rendered(p), Next
    PROVE  Typed'
<1> SUFFICES Locking' /\ Stored'
    BY TypedParts, PTL
<1>1. Stored /\ "mkv" \in Names
      BY TypedParts DEF Names
<1>2. ASSUME NEW p \in Workers, Move(p) PROVE Locking' /\ Stored'
  <2>1. w[p] \in Threads /\ w[p].src \in Names /\ w[p].out \in Media \cup {None} /\ Rendered(p)
        BY DEF Typed, Threads
  <2>2. /\ Locking' /\ tmp' \subseteq Workers /\ UNCHANGED <<wanted, imported>>
        /\ kills' \in Nat
        BY <1>2, <2>1, MoveStep
  <2>3. disk' \in [Names -> Media \cup {None}] /\ bak' \in [Names -> Media \cup {None}]
    <3>1. CASE (\E n \in Names : Begin(p, n)) \/ Kill(p)
          BY <1>1, <3>1, BeginStep, KillStep DEF Stored
    <3>2. CASE Inspect(p) \/ Render(p) \/ Collide(p) \/ Dest(p)
          BY <1>1, <3>2, InspectStep, RenderStep, CollideStep, DestStep DEF Stored
    <3>3. CASE TagOnly(p)
          BY <1>1, <2>1, <3>3, TagOnlyStep DEF Stored, Marked
    <3>4. CASE Backup(p)
          BY <1>1, <2>1, <3>4, BackupStep DEF Stored
    <3>5. CASE Replace(p)
          BY <1>1, <2>1, <3>5, ReplaceStep DEF Stored
    <3>6. CASE Tag(p)
          BY <1>1, <2>1, <3>6, TagStep DEF Stored, Marked
    <3>7. CASE RollBack(p) \/ DropBackup(p)
          BY <1>1, <2>1, <3>7, RollBackStep, DropStep DEF Stored
    <3> QED BY <1>2, <3>1, <3>2, <3>3, <3>4, <3>5, <3>6, <3>7 DEF Move, Step
  <2> QED BY <1>1, <2>2, <2>3 DEF Stored
<1>3. ASSUME NEW p \in Workers, Sweep(p) PROVE Locking' /\ Stored'
      BY <1>1, <1>3, SweepStep DEF Stored
<1>4. ASSUME NEW n \in Names, Import(n) PROVE Locking' /\ Stored'
  <2>1. PICK r \in Releases, fit \in BOOLEAN :
            /\ disk' = [disk EXCEPT ![n] = [release |-> r, encodes |-> 0, tagged |-> FALSE, fit |-> fit]]
            /\ imported' = imported \cup {r}
            /\ wanted' = (wanted \ Gone(n)) \cup {r}
        BY <1>4, ImportStep
  <2>2. [release |-> r, encodes |-> 0, tagged |-> FALSE, fit |-> fit] \in Media
        BY DEF Media
  <2>3. disk' \in [Names -> Media \cup {None}]
        BY <1>1, <2>1, <2>2, Overwritten DEF Stored
  <2> QED BY <1>1, <1>4, <2>1, <2>3, ImportStep DEF Stored
<1> QED BY <1>2, <1>3, <1>4 DEF Next, Move

-----------------------------------------------------------------------------
(* What is encoded once. *)

(* The source that a worker is at has no encoding too many. *)
LEMMA SourceIsOld ==
    ASSUME IInv, NEW p \in Workers, disk[w[p].src] # None,
           w[p].pc \in {"tagonly", "render", "collide", "dest", "backup"}
    PROVE  disk[w[p].src].encodes <= kills
<1>1. Typed /\ w[p].src \in Names /\ ~disk[w[p].src].tagged
      BY DEF IInv, Typed, Threads, Rendered
<1>2. ASSUME w[p].src = "mkv", NEW q \in Workers, w[q].pc \in {"tag", "rollback"} PROVE FALSE
  <2>1. p # q /\ w[q].pc \in Late /\ w[p].pc # "idle" /\ w[q].pc # "idle"
        BY <1>2 DEF Late
  <2> QED BY <1>1, <1>2, <2>1, Alone
<1> QED BY <1>1, <1>2 DEF IInv, UntaggedIsOld

LEMMA RenderedStep ==
    ASSUME IInv, Next, NEW q \in Workers
    PROVE  Rendered(q)'
<1>1. /\ Typed /\ Stored /\ Rendered(q) /\ w \in [Workers -> Threads]
      /\ w[q].src \in Names /\ "mkv" \in Names
      BY TypedParts DEF IInv, Typed, Threads, Names
<1>2. ASSUME NEW p \in Workers, Move(p), p # q PROVE Rendered(q)'
  <2>1. Rendered(p)
        BY DEF IInv
  <2>2. /\ w'[q] = w[q]
        /\ w[q].pc # "idle" =>
               disk'[w[q].src] = disk[w[q].src] /\ bak'[w[q].src] = bak[w[q].src]
        /\ w[q].pc \in Late => disk'["mkv"] = disk["mkv"]
        BY <1>1, <1>2, <2>1, OthersStay
  <2>3. kills \in Nat /\ kills' \in Nat /\ kills' >= kills
        BY <1>1, <1>2, <2>1, MoveStep DEF Stored
  <2>4. /\ w[q].out # None => w[q].out.encodes \in Nat
        /\ bak[w[q].src] # None => bak[w[q].src].encodes \in Nat
        BY <1>1 DEF Stored, Media, Threads
  <2> QED BY <1>1, <2>2, <2>3, <2>4 DEF Rendered, Late
<1>3. ASSUME NEW t \in Threads, w' = [w EXCEPT ![q] = t], t.pc = "idle" \/ t.pc \in {"inspect", "rollback", "drop"}
      PROVE  Rendered(q)'
      BY <1>1, <1>3 DEF Rendered
<1>4. Idle \in Threads /\ Idle.pc = "idle"
      BY DEF Idle, Threads, Places, Names
<1>5. CASE (\E n \in Names : Begin(q, n)) \/ Kill(q)
      BY <1>1, <1>3, <1>4, <1>5, BeginStep, KillStep
<1>6. CASE TagOnly(q) \/ RollBack(q) \/ DropBackup(q)
      BY <1>1, <1>3, <1>4, <1>6, TagOnlyStep, RollBackStep, DropStep
<1>7. CASE Inspect(q)
      BY <1>1, <1>3, <1>4, <1>7, InspectStep DEF Rendered
<1>8. CASE Render(q)
  <2>1. /\ w[q].pc = "render" /\ disk' = disk /\ kills' = kills
        /\ \E t \in Threads :
              /\ w' = [w EXCEPT ![q] = t]
              /\ \/ t = Idle
                 \/ /\ t.pc = "collide" /\ t.src = w[q].src /\ disk[t.src] # None
                    /\ t.out \in Media
                    /\ ~t.out.tagged /\ t.out.encodes = disk[t.src].encodes + 1
        BY <1>1, <1>8, RenderStep
  <2>2. PICK t \in Threads :
              /\ w' = [w EXCEPT ![q] = t]
              /\ \/ t = Idle
                 \/ /\ t.pc = "collide" /\ t.src = w[q].src /\ disk[t.src] # None
                    /\ t.out \in Media
                    /\ ~t.out.tagged /\ t.out.encodes = disk[t.src].encodes + 1
        BY <2>1
  <2>3. CASE t = Idle
        BY <1>3, <1>4, <2>2, <2>3
  <2>4. CASE t # Idle
    <3>1. disk[w[q].src].encodes <= kills
          BY <2>1, <2>2, <2>4, SourceIsOld
    <3>2. disk[w[q].src].encodes \in Nat /\ kills \in Nat
          BY <1>1, <2>2, <2>4 DEF Stored, Media
    <3>3. w'[q] = t /\ t.out # None
          BY <1>1, <2>2, <2>4, NoneAssumption
    <3>4. w'[q].out # None /\ ~w'[q].out.tagged /\ w'[q].out.encodes <= 1 + kills'
          BY <2>1, <2>2, <2>4, <3>1, <3>2, <3>3
    <3>5. w'[q].pc = "collide" /\ ~disk'[w'[q].src].tagged
          BY <1>1, <2>1, <2>2, <2>4, <3>3 DEF Rendered
    <3> QED BY <3>4, <3>5 DEF Rendered
  <2> QED BY <2>3, <2>4
<1>9. CASE Collide(q)
      BY <1>1, <1>3, <1>4, <1>9, CollideStep DEF Rendered
<1>10. CASE Dest(q)
       BY <1>1, <1>3, <1>4, <1>10, DestStep DEF Rendered

<1>11. CASE Backup(q)
  <2>1. CASE w' = [w EXCEPT ![q] = Idle]
        BY <1>3, <1>4, <2>1
  <2>2. CASE w' # [w EXCEPT ![q] = Idle]
    <3>1. /\ w[q].pc = "backup" /\ kills' = kills /\ disk[w[q].src] # None
          /\ bak' = [bak EXCEPT ![w[q].src] = disk[w[q].src]]
          BY <1>1, <1>11, <2>2, BackupStep
    <3>2. PICK t \in Threads :
              w' = [w EXCEPT ![q] = t] /\ t.pc = "replace" /\ t.src = w[q].src /\ t.out = w[q].out
          BY <1>1, <1>11, <2>2, BackupStep
    <3>3. disk[w[q].src].encodes <= kills
          BY <3>1, SourceIsOld
    <3>4. w'[q] = t /\ bak'[w[q].src] = disk[w[q].src]
          BY <1>1, <3>1, <3>2 DEF Stored
    <3> QED BY <1>1, <3>1, <3>2, <3>3, <3>4 DEF Rendered
  <2> QED BY <2>1, <2>2
<1>12. CASE Replace(q)
  <2>1. CASE w' = [w EXCEPT ![q] = Idle]
        BY <1>3, <1>4, <2>1
  <2>2. CASE w' # [w EXCEPT ![q] = Idle]
    <3>1. /\ w[q].pc = "replace" /\ kills' = kills /\ bak' = bak
          /\ disk' = [disk EXCEPT !["mkv"] = w[q].out]
          BY <1>1, <1>12, <2>2, ReplaceStep
    <3>2. PICK t \in Threads :
              w' = [w EXCEPT ![q] = t] /\ t.pc = "tag" /\ t.src = w[q].src
          BY <1>1, <1>12, <2>2, ReplaceStep
    <3>3. w'[q] = t /\ disk'["mkv"] = w[q].out
          BY <1>1, <3>1, <3>2 DEF Stored
    <3> QED BY <1>1, <3>1, <3>2, <3>3 DEF Rendered
  <2> QED BY <2>1, <2>2
<1>13. CASE Tag(q)
       BY <1>1, <1>3, <1>4, <1>13, TagStep
<1>14. ASSUME NEW p \in Workers, Sweep(p) PROVE Rendered(q)'
       BY <1>1, <1>14, SweepStep DEF Rendered
<1>15. ASSUME NEW n \in Names, Import(n) PROVE Rendered(q)'
  <2>1. PICK r \in Releases, fit \in BOOLEAN :
            disk' = [disk EXCEPT ![n] = [release |-> r, encodes |-> 0, tagged |-> FALSE, fit |-> fit]]
        BY <1>1, <1>15, ImportStep
  <2> DEFINE new == [release |-> r, encodes |-> 0, tagged |-> FALSE, fit |-> fit]
  <2>2. new # None /\ ~new.tagged
    <3>1. new \in Media
          BY DEF Media
    <3> QED BY <3>1, NoneAssumption
  <2>3. \A m \in Names : disk'[m] = new \/ disk'[m] = disk[m]
        BY <1>1, <2>1 DEF Stored
  <2>4. UNCHANGED <<bak, w, kills>>
        BY <1>1, <1>15, ImportStep
  <2> HIDE DEF new
  <2> QED BY <1>1, <2>2, <2>3, <2>4 DEF Rendered
<1> QED BY <1>2, <1>5, <1>6, <1>7, <1>8, <1>9, <1>10, <1>11, <1>12, <1>13, <1>14, <1>15
        DEF Next, Move, Step

(* One file, and how often it has been encoded. *)
Fine(n) ==
    /\ UntaggedIsOld(n)
    /\ disk[n] # None => disk[n].encodes <= 1 + kills

LEMMA FineStep ==
    ASSUME IInv, Next, NEW n \in Names
    PROVE  Fine(n)'
<1>1. /\ Typed /\ Stored /\ Fine(n) /\ w \in [Workers -> Threads]
      /\ "mkv" \in Names /\ kills \in Nat
      BY TypedParts DEF IInv, Typed, Names, Fine, EncodedOnce, Stored
<1>2. disk[n] # None => disk[n].encodes \in Nat
      BY <1>1 DEF Stored, Media
<1>3. ASSUME NEW p \in Workers, NEW t \in Threads, w' = [w EXCEPT ![p] = t],
             disk'[n] = disk[n],
             \/ kills' = kills /\ (n = "mp4" \/ w[p].pc \notin {"tag", "rollback"})
             \/ kills' = kills + 1
      PROVE  Fine(n)'
  <2>1. CASE kills' = kills + 1
        BY <1>1, <1>2, <1>3, <2>1 DEF Fine, UntaggedIsOld
  <2>2. CASE kills' = kills /\ n = "mp4"
        BY <1>1, <1>2, <1>3, <2>2 DEF Fine, UntaggedIsOld
  <2>3. CASE kills' = kills /\ w[p].pc \notin {"tag", "rollback"}
    <3>1. \A q \in Workers : w[q].pc \in {"tag", "rollback"} => w'[q] = w[q]
          BY <1>1, <1>3, <2>3
    <3> QED BY <1>1, <1>2, <1>3, <2>3, <3>1 DEF Fine, UntaggedIsOld
  <2> QED BY <1>3, <2>1, <2>2, <2>3
<1>4. ASSUME kills' = kills, disk'[n] = None \/ disk'[n].encodes <= kills
      PROVE  Fine(n)'
  <2>1. disk'[n] # None => disk'[n].encodes \in Nat
    <3>1. Stored'
          BY TypeStep, TypedParts, PTL DEF IInv
    <3> QED BY <3>1 DEF Stored, Media
  <2> QED BY <1>1, <1>4, <2>1 DEF Fine, UntaggedIsOld
<1>5. ASSUME NEW p \in Workers, Move(p) PROVE Fine(n)'
  <2>1. w[p].src \in Names /\ Rendered(p) /\ Idle \in Threads
        BY <1>1 DEF IInv, Threads, Idle, Places, Names
  <2>2. CASE (\E m \in Names : Begin(p, m)) \/ Kill(p)
        BY <1>1, <1>3, <2>1, <2>2, BeginStep, KillStep
  <2>3. CASE Inspect(p)
        BY <1>1, <1>3, <2>3, InspectStep
  <2>4. CASE Render(p)
        BY <1>1, <1>3, <2>4, RenderStep
  <2>5. CASE Collide(p)
        BY <1>1, <1>3, <2>5, CollideStep
  <2>6. CASE Dest(p)
        BY <1>1, <1>3, <2>6, DestStep
  <2>7. CASE DropBackup(p)
        BY <1>1, <1>3, <2>1, <2>7, DropStep
  <2>8. CASE TagOnly(p)
    <3>1. w[p].pc = "tagonly" /\ w' = [w EXCEPT ![p] = Idle] /\ kills' = kills
          BY <1>1, <2>8, TagOnlyStep
    <3>2. CASE disk'[n] = disk[n]
          BY <1>3, <2>1, <3>1, <3>2
    <3>3. CASE disk'[n] # disk[n]
      <4>1. Marked(n) /\ n = w[p].src /\ disk[n] # None
            BY <1>1, <2>1, <2>8, <3>3, TagOnlyStep DEF Marked, Stored, TagOnly
      <4>2. disk[n].encodes <= kills
            BY <3>1, <4>1, SourceIsOld
      <4> QED BY <1>1, <1>4, <3>1, <4>1, <4>2 DEF Marked, Stored
    <3> QED BY <3>2, <3>3
  <2>9. CASE Backup(p)
    <3>1. kills' = kills /\ w[p].pc = "backup"
          BY <1>1, <2>9, BackupStep
    <3>2. CASE disk'[n] = disk[n]
          BY <1>1, <1>3, <2>1, <2>9, <3>1, <3>2, BackupStep
    <3>3. CASE disk'[n] # disk[n]
      <4>1. disk'[n] = None
            BY <1>1, <2>9, <3>3, BackupStep DEF Stored
      <4> QED BY <1>4, <3>1, <4>1
    <3> QED BY <3>2, <3>3
  <2>10. CASE Replace(p)
    <3>1. kills' = kills /\ w[p].pc = "replace"
          BY <1>1, <2>10, ReplaceStep
    <3>2. CASE disk'[n] = disk[n]
          BY <1>1, <1>3, <2>1, <2>10, <3>1, <3>2, ReplaceStep
    <3>3. CASE disk' = [disk EXCEPT ![w[p].src] = bak[w[p].src]] /\ disk'[n] # disk[n]
      <4>1. disk'[n] = bak[w[p].src]
            BY <1>1, <3>3 DEF Stored
      <4> QED BY <1>4, <2>1, <3>1, <4>1 DEF Rendered
    <3>4. CASE /\ \E t \in Threads : w' = [w EXCEPT ![p] = t] /\ t.pc = "tag"
               /\ disk' = [disk EXCEPT !["mkv"] = w[p].out]
               /\ disk'[n] # disk[n]
      <4>1. n = "mkv" /\ disk'[n] = w[p].out
            BY <1>1, <3>4 DEF Stored
      <4>2. w'[p].pc = "tag"
            BY <1>1, <3>4
      <4> QED BY <2>1, <3>1, <4>1, <4>2 DEF Fine, UntaggedIsOld, Rendered
    <3> QED BY <1>1, <2>10, <3>2, <3>3, <3>4, ReplaceStep
  <2>11. CASE Tag(p)
    <3>1. kills' = kills /\ w[p].pc = "tag"
          BY <1>1, <2>1, <2>11, TagStep
    <3>2. CASE n = "mp4" /\ disk'[n] = disk[n]
          BY <1>1, <1>3, <2>1, <2>11, <3>1, <3>2, TagStep
    <3>3. CASE Marked("mkv") /\ (n = "mkv" \/ disk'[n] # disk[n])
      <4>1. n = "mkv" /\ disk'[n].tagged /\ disk'[n].encodes = disk[n].encodes
            BY <1>1, <3>3 DEF Marked, Stored
      <4>2. disk[n] # None
            BY <2>1, <3>1, <4>1 DEF Rendered
      <4> QED BY <1>1, <3>1, <4>1, <4>2 DEF Fine, UntaggedIsOld
    <3>4. CASE disk' = [disk EXCEPT ![w[p].src] = bak[w[p].src]] /\ n = w[p].src
      <4>1. disk'[n] = bak[w[p].src]
            BY <1>1, <3>4 DEF Stored
      <4> QED BY <1>4, <2>1, <3>1, <4>1 DEF Rendered
    <3>5. CASE /\ disk' = [disk EXCEPT ![w[p].src] = bak[w[p].src]] /\ w[p].src = "mp4" /\ n = "mkv"
               /\ \E t \in Threads : w' = [w EXCEPT ![p] = t] /\ t.pc = "rollback"
      <4>1. disk'[n] = disk[n]
            BY <1>1, <2>1, <3>5 DEF Stored
      <4>2. w'[p].pc = "rollback"
            BY <1>1, <3>5
      <4> QED BY <1>1, <3>1, <4>1, <4>2 DEF Fine, UntaggedIsOld
    <3> QED BY <1>1, <2>1, <2>11, <3>2, <3>3, <3>4, <3>5, TagStep DEF Names, Stored
  <2>12. CASE RollBack(p)
    <3>1. kills' = kills /\ w' = [w EXCEPT ![p] = Idle]
          BY <1>1, <2>12, RollBackStep
    <3>2. n = "mkv" => disk'[n] = None
          BY <1>1, <2>12, RollBackStep DEF Stored
    <3>3. n = "mp4" => disk'[n] = disk[n]
          BY <1>1, <2>12, RollBackStep DEF Stored
    <3> QED BY <1>3, <1>4, <2>1, <3>1, <3>2, <3>3 DEF Names
  <2> QED BY <1>5, <2>2, <2>3, <2>4, <2>5, <2>6, <2>7, <2>8, <2>9, <2>10, <2>11, <2>12
          DEF Move, Step
<1>6. ASSUME NEW p \in Workers, Sweep(p) PROVE Fine(n)'
      BY <1>1, <1>6, SweepStep DEF Fine, UntaggedIsOld
<1>7. ASSUME NEW m \in Names, Import(m) PROVE Fine(n)'
  <2>1. PICK r \in Releases, fit \in BOOLEAN :
            disk' = [disk EXCEPT ![m] = [release |-> r, encodes |-> 0, tagged |-> FALSE, fit |-> fit]]
        BY <1>1, <1>7, ImportStep
  <2>2. UNCHANGED <<w, kills>>
        BY <1>1, <1>7, ImportStep
  <2>3. CASE n = m
    <3>1. disk'[n].encodes = 0
          BY <1>1, <2>1, <2>3 DEF Stored
    <3> QED BY <1>1, <1>4, <2>2, <3>1
  <2>4. CASE n # m
    <3>1. disk'[n] = disk[n]
          BY <1>1, <2>1, <2>4 DEF Stored
    <3> QED BY <1>1, <2>2, <3>1 DEF Fine, UntaggedIsOld
  <2> QED BY <2>3, <2>4
<1> QED BY <1>5, <1>6, <1>7 DEF Next, Move

(* The invariant holds at first and every step keeps it. *)
LEMMA InitInv == Init => IInv
<1> SUFFICES ASSUME Init PROVE IInv
    OBVIOUS
<1>1. w \in [Workers -> Threads] /\ \A p \in Workers : w[p] = Idle /\ w[p].pc = "idle"
      BY DEF Init, Idle, Threads, Places, Names
<1>2. Stored
      BY DEF Init, Stored
<1>3. Locking
  <2>1. ASSUME NEW p \in Workers PROVE LocksOf(p)
    <3>1. {n \in Names : lock[n] = p} = {}
          BY NoneAssumption DEF Init
    <3> QED BY <1>1, <3>1 DEF LocksOf
  <2>2. lock \in [Names -> Workers \cup {None}]
        BY DEF Init
  <2> QED BY <1>1, <2>1, <2>2 DEF Locking
<1>4. Typed
      BY <1>2, <1>3, TypedParts
<1>5. \A p \in Workers : Rendered(p)
      BY <1>1 DEF Rendered
<1>6. (\A n \in Names : UntaggedIsOld(n)) /\ EncodedOnce
      BY DEF Init, UntaggedIsOld, EncodedOnce
<1> QED BY <1>4, <1>5, <1>6 DEF IInv

LEMMA StepInv == IInv /\ [Next]_vars => IInv'
<1> SUFFICES ASSUME IInv, [Next]_vars PROVE IInv'
    OBVIOUS
<1>1. CASE Next
  <2>1. Typed'
        BY <1>1, TypeStep DEF IInv
  <2>2. ASSUME NEW p \in Workers PROVE Rendered(p)'
        BY <1>1, RenderedStep
  <2>3. ASSUME NEW n \in Names PROVE UntaggedIsOld(n)' /\ (disk[n] # None => disk[n].encodes <= 1 + kills)'
        BY <1>1, FineStep DEF Fine
  <2> QED BY <2>1, <2>2, <2>3 DEF IInv, EncodedOnce
<1>2. CASE UNCHANGED vars
  <2>1. Typed'
        BY <1>2 DEF vars, IInv, Typed, TypeOK, At
  <2>2. (\A p \in Workers : Rendered(p))' /\ (\A n \in Names : UntaggedIsOld(n))' /\ EncodedOnce'
        BY <1>2 DEF vars, IInv, Rendered, UntaggedIsOld, EncodedOnce
  <2> QED BY <2>1, <2>2 DEF IInv
<1> QED BY <1>1, <1>2

LEMMA Invariant == Spec => []IInv
  BY InitInv, StepInv, PTL DEF Spec

(* The types, and that a worker has the locks of its place and nobody else  *)
(* has them.                                                                *)
THEOREM TypeCorrect == Spec => []TypeOK
<1>1. IInv => TypeOK
      BY DEF IInv, Typed
<1> QED BY <1>1, Invariant, PTL

(* Each kill costs a file at most one encoding more, and a failed tag none, *)
(* wherever releases are imported.                                          *)
THEOREM OnceEncoded == Spec => []EncodedOnce
<1>1. IInv => EncodedOnce
      BY DEF IInv
<1> QED BY <1>1, Invariant, PTL

-----------------------------------------------------------------------------
(* What a worker relies on in a swap. *)

(* No release replaces a file between the moment it is opened for the       *)
(* rendering and the end of the swap, and no .mkv appears next to an .mp4   *)
(* once its worker has looked for one for the last time.                    *)
NoImportInSwap ==
    /\ ImportIn \subseteq {"idle", "inspect", "tagonly", "render"}
    /\ SiblingIn \cap Late = {}

LEMMA SwappingStep ==
    ASSUME IInv, NoImportInSwap, Next, NEW q \in Workers, Swapping(q)
    PROVE  Swapping(q)'
<1>1. /\ Typed /\ Rendered(q) /\ w \in [Workers -> Threads] /\ w[q].src \in Names
      /\ disk \in [Names -> Media \cup {None}] /\ bak \in [Names -> Media \cup {None}]
      /\ "mkv" \in Names /\ "mp4" \in Names
      BY TypedParts DEF IInv, Typed, Threads, Names, Stored
<1>2. ASSUME NEW p \in Workers, Move(p), p # q PROVE Swapping(q)'
  <2>1. Rendered(p)
        BY DEF IInv
  <2>2. /\ w'[q] = w[q]
        /\ w[q].pc # "idle" =>
               disk'[w[q].src] = disk[w[q].src] /\ bak'[w[q].src] = bak[w[q].src]
        /\ w[q].pc \in Late => disk'["mkv"] = disk["mkv"]
        BY <1>1, <1>2, <2>1, OthersStay
  <2> QED BY <2>2 DEF Swapping, Late
<1>3. ASSUME NEW t \in Threads, w' = [w EXCEPT ![q] = t], t.pc = "idle" PROVE Swapping(q)'
      BY <1>1, <1>3 DEF Swapping
<1>4. Idle \in Threads /\ Idle.pc = "idle"
      BY DEF Idle, Threads, Places, Names
<1>5. CASE Kill(q) \/ TagOnly(q) \/ RollBack(q) \/ DropBackup(q)
      BY <1>1, <1>3, <1>4, <1>5, KillStep, TagOnlyStep, RollBackStep, DropStep
<1>6. ASSUME NEW n \in Names, Begin(q, n) PROVE Swapping(q)'
  <2>1. PICK t \in Threads : w' = [w EXCEPT ![q] = t] /\ t.pc = "inspect" /\ t.src = n
        BY <1>1, <1>6, BeginStep
  <2>2. disk'[n] # None
        BY <1>1, <1>6, BeginStep
  <2>3. w'[q] = t
        BY <1>1, <2>1
  <2> QED BY <2>1, <2>2, <2>3 DEF Swapping
<1>7. CASE Inspect(q)
  <2>1. PICK t \in Threads :
            /\ w' = [w EXCEPT ![q] = t]
            /\ t = Idle \/ (t.pc \in {"tagonly", "render"} /\ disk[t.src] # None)
        BY <1>1, <1>7, InspectStep
  <2>2. disk' = disk /\ w'[q] = t
        BY <1>1, <1>7, <2>1, InspectStep
  <2> QED BY <1>3, <1>4, <2>1, <2>2 DEF Swapping
<1>8. CASE Render(q)
  <2>1. PICK t \in Threads :
            /\ w' = [w EXCEPT ![q] = t]
            /\ \/ t = Idle
               \/ t.pc = "collide" /\ disk[t.src] # None /\ t.out.release = disk[t.src].release
        BY <1>1, <1>8, RenderStep
  <2>2. disk' = disk /\ w'[q] = t
        BY <1>1, <1>8, <2>1, RenderStep
  <2> QED BY <1>3, <1>4, <2>1, <2>2 DEF Swapping
<1>9. CASE Collide(q) \/ Dest(q)
  <2>1. PICK t \in Threads :
            /\ w' = [w EXCEPT ![q] = t]
            /\ \/ t = Idle
               \/ /\ t.src = w[q].src /\ t.out = w[q].out
                  /\ \/ t.pc = "dest" /\ t.src = "mp4"
                     \/ t.pc = "backup" /\ (t.src = "mkv" \/ disk["mkv"] = None)
        BY <1>1, <1>9, CollideStep, DestStep
  <2>2. disk' = disk /\ w'[q] = t /\ w[q].pc \in {"collide", "dest"}
        BY <1>1, <1>9, <2>1, CollideStep, DestStep
  <2>3. disk[w[q].src] # None /\ w[q].out.release = disk[w[q].src].release
        BY <2>2 DEF Swapping
  <2> QED BY <1>3, <1>4, <2>1, <2>2, <2>3 DEF Swapping
<1>10. CASE Backup(q) /\ w' # [w EXCEPT ![q] = Idle]
  <2>1. PICK t \in Threads :
            w' = [w EXCEPT ![q] = t] /\ t.pc = "replace" /\ t.src = w[q].src /\ t.out = w[q].out
        BY <1>1, <1>10, BackupStep
  <2>2. /\ w[q].pc = "backup" /\ disk[w[q].src] # None
        /\ bak' = [bak EXCEPT ![w[q].src] = disk[w[q].src]]
        /\ disk' = [disk EXCEPT ![w[q].src] = None]
        BY <1>1, <1>10, BackupStep
  <2>3. w'[q] = t /\ disk'[w[q].src] = None /\ bak'[w[q].src] = disk[w[q].src]
        BY <1>1, <2>1, <2>2
  <2>4. disk'["mkv"] = None
        BY <1>1, <2>2 DEF Swapping, Names
  <2>5. w[q].out.release = disk[w[q].src].release
        BY <2>2 DEF Swapping
  <2> QED BY <2>1, <2>2, <2>3, <2>4, <2>5 DEF Swapping
<1>11. CASE Replace(q) /\ w' # [w EXCEPT ![q] = Idle]
  <2>1. PICK t \in Threads : w' = [w EXCEPT ![q] = t] /\ t.pc = "tag" /\ t.src = w[q].src
        BY <1>1, <1>11, ReplaceStep
  <2>2. /\ w[q].pc = "replace" /\ bak' = bak
        /\ disk' = [disk EXCEPT !["mkv"] = w[q].out]
        BY <1>1, <1>11, ReplaceStep
  <2>3. w'[q] = t /\ disk'["mkv"] = w[q].out /\ disk'["mp4"] = disk["mp4"]
        BY <1>1, <2>1, <2>2
  <2>4. w[q].out # None
        BY <1>1, <2>2 DEF Rendered
  <2> QED BY <2>1, <2>2, <2>3, <2>4 DEF Swapping
<1>12. CASE Tag(q)
  <2>1. w[q].pc = "tag"
        BY <1>1, <1>12, TagStep
  <2>2. CASE w' = [w EXCEPT ![q] = Idle]
        BY <1>3, <1>4, <2>2
  <2>3. CASE /\ \E t \in Threads : w' = [w EXCEPT ![q] = t] /\ t.pc = "drop" /\ t.src = w[q].src
             /\ Marked("mkv") /\ bak' = bak
    <3>1. PICK t \in Threads : w' = [w EXCEPT ![q] = t] /\ t.pc = "drop" /\ t.src = w[q].src
          BY <2>3
    <3>2. PICK m \in Media : disk' = [disk EXCEPT !["mkv"] = m] /\ m.release = disk["mkv"].release
          BY <2>3 DEF Marked
    <3>3. w'[q] = t /\ disk'["mkv"] = m /\ m # None /\ disk'["mp4"] = disk["mp4"]
          BY <1>1, <3>1, <3>2, NoneAssumption
    <3> QED BY <2>1, <2>3, <3>1, <3>2, <3>3 DEF Swapping
  <2>4. CASE /\ \E t \in Threads : w' = [w EXCEPT ![q] = t] /\ t.pc = "rollback" /\ t.src = w[q].src
             /\ disk' = [disk EXCEPT ![w[q].src] = bak[w[q].src]] /\ w[q].src = "mp4"
    <3>1. PICK t \in Threads : w' = [w EXCEPT ![q] = t] /\ t.pc = "rollback" /\ t.src = w[q].src
          BY <2>4
    <3>2. w'[q] = t /\ disk'["mp4"] = bak["mp4"] /\ disk'["mkv"] = disk["mkv"]
          BY <1>1, <2>4, <3>1
    <3> QED BY <2>1, <2>4, <3>1, <3>2 DEF Swapping
  <2> QED BY <1>1, <1>12, <2>2, <2>3, <2>4, TagStep
<1>13. ASSUME NEW p \in Workers, Sweep(p) PROVE Swapping(q)'
       BY <1>1, <1>13, SweepStep DEF Swapping
<1>14. ASSUME NEW n \in Names, Import(n) PROVE Swapping(q)'
  <2>1. /\ UNCHANGED <<bak, w>> /\ disk'[n] # None
        /\ \A m \in Names \ {n} : disk'[m] = disk[m]
    <3>1. PICK r \in Releases, fit \in BOOLEAN :
              disk' = [disk EXCEPT ![n] = [release |-> r, encodes |-> 0, tagged |-> FALSE, fit |-> fit]]
          BY <1>1, <1>14, ImportStep
    <3> DEFINE new == [release |-> r, encodes |-> 0, tagged |-> FALSE, fit |-> fit]
    <3>2. new # None
      <4>1. new \in Media
            BY DEF Media
      <4> QED BY <4>1, NoneAssumption
    <3>3. disk' = [disk EXCEPT ![n] = new]
          BY <3>1
    <3> HIDE DEF new
    <3>4. UNCHANGED <<bak, w>>
          BY <1>1, <1>14, ImportStep
    <3> QED BY <1>1, <3>2, <3>3, <3>4
  <2>2. /\ w[q].src = n => w[q].pc \in {"idle", "inspect", "tagonly", "render"}
        /\ w[q].src = "mp4" /\ n = "mkv" => w[q].pc \notin Late
        BY <1>14 DEF Import, MayImport, NoImportInSwap
  <2>3. CASE w[q].pc = "idle"
        BY <2>1, <2>3 DEF Swapping
  <2>4. CASE w[q].src = n
        BY <2>1, <2>2, <2>4 DEF Swapping
  <2>5. CASE w[q].pc # "idle" /\ w[q].src # n
    <3>1. disk'[w[q].src] = disk[w[q].src]
          BY <1>1, <2>1, <2>5
    <3>2. w[q].pc \in Late => disk'["mkv"] = disk["mkv"]
          BY <1>1, <2>1, <2>2, <2>5 DEF Names
    <3> QED BY <2>1, <3>1, <3>2 DEF Swapping, Late
  <2> QED BY <2>3, <2>4, <2>5
<1>15. CASE (Backup(q) \/ Replace(q)) /\ w' = [w EXCEPT ![q] = Idle]
       BY <1>3, <1>4, <1>15
<1> QED BY <1>2, <1>5, <1>6, <1>7, <1>8, <1>9, <1>10, <1>11, <1>12, <1>13, <1>14, <1>15
        DEF Next, Move, Step

-----------------------------------------------------------------------------
(* No release is lost. *)

(* A step other than a kill leaves no backup behind. *)
LEMMA LeftoverStays ==
    ASSUME IInv, NEW p \in Workers, Move(p), ~Kill(p), NEW n \in Names, Leftover(n)'
    PROVE  Leftover(n) /\ bak'[n] = bak[n]
<1>1. /\ Typed /\ Rendered(p) /\ w \in [Workers -> Threads] /\ w[p].src \in Names
      /\ bak \in [Names -> Media \cup {None}]
      BY TypedParts DEF IInv, Typed, Threads, Stored
<1>2. PICK t \in Threads : w' = [w EXCEPT ![p] = t]
      BY <1>1, MoveStep
<1>3. w'[p] = t /\ \A q \in Workers \ {p} : w'[q] = w[q]
      BY <1>1, <1>2
<1>4. bak'[n] # None /\ ~InUse(n)'
      BY DEF Leftover
<1>5. ASSUME bak'[n] = bak[n], w[p].src = n => w[p].pc \notin {"replace", "tag", "drop"}
      PROVE  Leftover(n)
      BY <1>3, <1>4, <1>5 DEF Leftover, InUse
<1>6. CASE (\E m \in Names : Begin(p, m)) \/ Inspect(p) \/ TagOnly(p) \/ Render(p) \/ Collide(p)
             \/ Dest(p) \/ RollBack(p)
      BY <1>1, <1>5, <1>6, BeginStep, InspectStep, TagOnlyStep, RenderStep, CollideStep, DestStep,
         RollBackStep
<1>7. CASE Backup(p)
  <2>1. CASE bak' = bak
        BY <1>1, <1>5, <1>7, <2>1, BackupStep
  <2>2. CASE bak' # bak
    <3>1. /\ bak' = [bak EXCEPT ![w[p].src] = disk[w[p].src]]
          /\ w'[p].pc = "replace" /\ w'[p].src = w[p].src /\ w[p].pc = "backup"
          BY <1>1, <1>7, <2>2, BackupStep
    <3>2. n # w[p].src
          BY <1>4, <3>1 DEF InUse
    <3> QED BY <1>1, <1>5, <3>1, <3>2
  <2> QED BY <2>1, <2>2
<1>8. ASSUME bak' = [bak EXCEPT ![w[p].src] = None] PROVE Leftover(n) /\ bak'[n] = bak[n]
  <2>1. n # w[p].src
        BY <1>1, <1>4, <1>8
  <2> QED BY <1>1, <1>5, <1>8, <2>1
<1>9. ASSUME bak' = bak, w[p].src = w'[p].src, w'[p].pc \in {"tag", "drop"}
      PROVE  Leftover(n) /\ bak'[n] = bak[n]
      BY <1>4, <1>5, <1>9 DEF InUse
<1>10. CASE Replace(p)
  <2>1. CASE bak' = [bak EXCEPT ![w[p].src] = None]
        BY <1>8, <2>1
  <2>2. CASE bak' # [bak EXCEPT ![w[p].src] = None]
        BY <1>1, <1>9, <1>10, <2>2, ReplaceStep
  <2> QED BY <2>1, <2>2
<1>11. CASE Tag(p)
  <2>1. CASE bak' = [bak EXCEPT ![w[p].src] = None]
        BY <1>8, <2>1
  <2>2. CASE bak' # [bak EXCEPT ![w[p].src] = None]
        BY <1>1, <1>9, <1>11, <2>2, TagStep
  <2> QED BY <2>1, <2>2
<1>12. CASE DropBackup(p)
       BY <1>1, <1>8, <1>12, DropStep
<1> QED BY <1>6, <1>7, <1>10, <1>11, <1>12 DEF Move, Step

(* Where a release is that a step does not lose: under a name or in a backup. *)
There(r) == \E n \in Names : (disk[n] # None /\ disk[n].release = r) \/ (bak[n] # None /\ bak[n].release = r)

LEMMA NothingLostIs == NothingLost <=> (kills <= 1 => \A r \in wanted : There(r))
  BY DEF NothingLost, Copies, There

(* Every release is somewhere after a step that was somewhere before it. *)
LEMMA OnDiskStays ==
    ASSUME IInv, NEW p \in Workers, Swapping(p), Move(p), NEW r, OnDisk(r)
    PROVE  OnDisk(r)' \/ \E m \in Names : InBackup(r, m)'
<1>1. /\ Typed /\ Rendered(p) /\ w \in [Workers -> Threads] /\ w[p].src \in Names
      /\ disk \in [Names -> Media \cup {None}] /\ bak \in [Names -> Media \cup {None}]
      /\ "mkv" \in Names /\ "mp4" \in Names
      BY TypedParts DEF IInv, Typed, Threads, Names, Stored
<1>2. PICK n \in Names : disk[n] # None /\ disk[n].release = r
      BY DEF OnDisk
<1>3. ASSUME disk'[n] # None, disk'[n].release = r PROVE OnDisk(r)'
      BY <1>3 DEF OnDisk
<1>4. ASSUME NEW m \in Names, Marked(m) PROVE OnDisk(r)'
  <2>1. PICK f \in Media : disk' = [disk EXCEPT ![m] = f] /\ f.release = disk[m].release
        BY <1>4 DEF Marked
  <2>2. disk'[n] = disk[n] \/ (m = n /\ disk'[n] = f)
        BY <1>1, <2>1
  <2> QED BY <1>2, <1>3, <2>1, <2>2, NoneAssumption
<1>5. CASE (\E m \in Names : Begin(p, m)) \/ Inspect(p) \/ Render(p) \/ Collide(p)
             \/ Dest(p) \/ DropBackup(p) \/ Kill(p)
      BY <1>1, <1>2, <1>3, <1>5, BeginStep, InspectStep, RenderStep, CollideStep, DestStep, DropStep, KillStep
<1>6. CASE TagOnly(p)
      BY <1>1, <1>2, <1>3, <1>4, <1>6, TagOnlyStep
<1>7. CASE Backup(p)
  <2>1. CASE disk' = disk
        BY <1>2, <1>3, <2>1
  <2>2. CASE disk' # disk
    <3>1. /\ bak' = [bak EXCEPT ![w[p].src] = disk[w[p].src]]
          /\ disk' = [disk EXCEPT ![w[p].src] = None]
          /\ w'[p].pc = "replace" /\ w'[p].src = w[p].src
          BY <1>1, <1>7, <2>2, BackupStep
    <3>2. CASE n = w[p].src
          BY <1>1, <1>2, <1>7, <3>1, <3>2 DEF InBackup, InUse
    <3>3. CASE n # w[p].src
          BY <1>1, <1>2, <1>3, <3>1, <3>3
    <3> QED BY <3>2, <3>3
  <2> QED BY <2>1, <2>2
<1>8. CASE Replace(p)
  <2>1. w[p].pc = "replace" /\ disk[w[p].src] = None /\ disk["mkv"] = None
        BY <1>1, <1>8, ReplaceStep DEF Swapping
  <2>2. disk'[n] = disk[n]
        BY <1>1, <1>2, <1>8, <2>1, ReplaceStep
  <2> QED BY <1>2, <1>3, <2>2
<1>9. CASE Tag(p)
  <2>1. /\ w[p].pc = "tag" /\ bak[w[p].src] # None /\ disk["mkv"].release = bak[w[p].src].release
        /\ w[p].src = "mp4" => disk["mp4"] = None
        BY <1>1, <1>9, TagStep DEF Swapping
  <2>2. CASE disk' = [disk EXCEPT ![w[p].src] = bak[w[p].src]]
    <3>1. CASE n = w[p].src
      <4>1. n = "mkv"
            BY <1>2, <2>1, <3>1 DEF Names
      <4>2. disk'[n] = bak[w[p].src]
            BY <1>1, <2>2, <3>1
      <4> QED BY <1>2, <1>3, <2>1, <4>1, <4>2
    <3>2. CASE n # w[p].src
          BY <1>1, <1>2, <1>3, <2>2, <3>2
    <3> QED BY <3>1, <3>2
  <2> QED BY <1>1, <1>4, <1>9, <2>2, TagStep
<1>10. CASE RollBack(p)
  <2>1. /\ disk["mp4"] # None /\ disk["mkv"].release = disk["mp4"].release
        /\ disk' = [disk EXCEPT !["mkv"] = None]
        BY <1>1, <1>10, RollBackStep DEF Swapping
  <2>2. disk'["mp4"] = disk["mp4"] /\ disk["mp4"].release = r
        BY <1>1, <1>2, <2>1 DEF Names
  <2> QED BY <1>1, <2>1, <2>2 DEF OnDisk
<1> QED BY <1>5, <1>6, <1>7, <1>8, <1>9, <1>10 DEF Move, Step

(* A backup in use is still there after a step, or its release is on disk. *)
LEMMA InBackupStays ==
    ASSUME IInv, NEW p \in Workers, Swapping(p), Move(p), ~Kill(p), NEW m \in Names, NEW r, InBackup(r, m)
    PROVE  InBackup(r, m)' \/ OnDisk(r)'
<1>1. /\ Typed /\ Rendered(p) /\ w \in [Workers -> Threads] /\ w[p].src \in Names
      /\ disk \in [Names -> Media \cup {None}] /\ bak \in [Names -> Media \cup {None}]
      /\ "mkv" \in Names
      BY TypedParts DEF IInv, Typed, Threads, Names, Stored
<1>2. PICK q \in Workers : w[q].src = m /\ w[q].pc \in {"replace", "tag", "drop"}
      BY DEF InBackup, InUse
<1>3. bak[m] # None /\ bak[m].release = r
      BY DEF InBackup
<1>4. CASE q # p
  <2>1. w'[q] = w[q] /\ bak'[m] = bak[m]
        BY <1>1, <1>2, <1>4, OthersStay
  <2> QED BY <1>2, <1>3, <2>1 DEF InBackup, InUse
<1>5. CASE q = p
  <2>1. ASSUME disk' = [disk EXCEPT ![m] = bak[m]] PROVE OnDisk(r)'
        BY <1>1, <1>3, <2>1 DEF OnDisk
  <2>2. ASSUME bak' = bak, w'[p].src = m, w'[p].pc \in {"tag", "drop"} PROVE InBackup(r, m)'
        BY <1>3, <2>2 DEF InBackup, InUse
  <2>3. CASE Replace(p)
    <3>1. CASE disk' = [disk EXCEPT ![m] = bak[m]]
          BY <2>1, <3>1
    <3>2. CASE disk' # [disk EXCEPT ![m] = bak[m]]
          BY <1>1, <1>2, <1>5, <2>2, <2>3, <3>2, ReplaceStep
    <3> QED BY <3>1, <3>2
  <2>4. CASE Tag(p)
    <3>1. CASE disk' = [disk EXCEPT ![m] = bak[m]]
          BY <2>1, <3>1
    <3>2. CASE disk' # [disk EXCEPT ![m] = bak[m]]
          BY <1>1, <1>2, <1>5, <2>2, <2>4, <3>2, TagStep
    <3> QED BY <3>1, <3>2
  <2>5. CASE DropBackup(p)
    <3>1. disk["mkv"] # None /\ disk["mkv"].release = r /\ disk' = disk
          BY <1>1, <1>2, <1>3, <1>5, <2>5, DropStep DEF Swapping
    <3> QED BY <1>1, <3>1 DEF OnDisk
  <2>6. ~((\E n \in Names : Begin(p, n)) \/ Inspect(p) \/ TagOnly(p) \/ Render(p) \/ Collide(p)
            \/ Dest(p) \/ Backup(p) \/ RollBack(p))
        BY <1>2, <1>5 DEF Begin, Inspect, TagOnly, Render, Collide, Dest, Backup, RollBack, At
  <2> QED BY <2>3, <2>4, <2>5, <2>6 DEF Move, Step
<1> QED BY <1>4, <1>5

(* No name gets a file, and no .mkv loses its tag, but by its own worker or *)
(* by one that renders the .mp4 next to it.                                 *)
LEMMA NameStays ==
    ASSUME IInv, NEW p \in Workers, Swapping(p), Move(p), ~Kill(p), NEW n \in Names, ~InUse(n), ~InUse(n)',
           disk[n] = None \/ (n = "mkv" /\ disk["mkv"].tagged)
    PROVE  \/ disk'[n] = None
           \/ n = "mkv" /\ disk'["mkv"].tagged
           \/ n = "mkv" /\ w'[p].src = "mp4" /\ w'[p].pc = "tag"
<1>1. /\ Typed /\ Rendered(p) /\ w \in [Workers -> Threads] /\ w[p].src \in Names
      /\ disk \in [Names -> Media \cup {None}] /\ bak \in [Names -> Media \cup {None}]
      /\ "mkv" \in Names /\ "mp4" \in Names
      BY TypedParts DEF IInv, Typed, Threads, Names, Stored
<1>2. w[p].pc \in {"replace", "tag", "drop"} => n # w[p].src
      BY DEF InUse
<1>3. ASSUME NEW m \in Names, Marked(m), disk[m] # None
      PROVE  disk'[n] = None \/ (n = "mkv" /\ disk'["mkv"].tagged)
  <2>1. PICK f \in Media : disk' = [disk EXCEPT ![m] = f] /\ f.tagged
        BY <1>3 DEF Marked
  <2> QED BY <1>1, <1>3, <2>1
<1>4. CASE (\E m \in Names : Begin(p, m)) \/ Inspect(p) \/ Render(p) \/ Collide(p)
             \/ Dest(p) \/ DropBackup(p)
      BY <1>1, <1>4, BeginStep, InspectStep, RenderStep, CollideStep, DestStep, DropStep
<1>5. CASE TagOnly(p)
      BY <1>1, <1>3, <1>5, TagOnlyStep DEF Swapping
<1>6. CASE Backup(p)
      BY <1>1, <1>6, BackupStep
<1>7. CASE Replace(p)
  <2>1. w[p].pc = "replace" /\ n # w[p].src
        BY <1>1, <1>2, <1>7, ReplaceStep
  <2>2. CASE disk'[n] = disk[n]
        BY <1>1, <2>2
  <2>3. CASE disk'[n] # disk[n]
    <3>1. /\ \E t \in Threads : w' = [w EXCEPT ![p] = t] /\ t.pc = "tag" /\ t.src = w[p].src
          /\ disk' = [disk EXCEPT !["mkv"] = w[p].out]
          BY <1>1, <1>7, <2>1, <2>3, ReplaceStep
    <3>2. n = "mkv" /\ w[p].src = "mp4"
          BY <1>1, <2>1, <2>3, <3>1 DEF Names
    <3> QED BY <1>1, <3>1, <3>2
  <2> QED BY <2>2, <2>3
<1>8. CASE Tag(p)
  <2>1. w[p].pc = "tag" /\ n # w[p].src /\ disk["mkv"] # None
        BY <1>1, <1>2, <1>8, TagStep DEF Swapping
  <2>2. CASE disk'[n] = disk[n]
        BY <1>1, <2>2
  <2>3. CASE disk'[n] # disk[n]
        BY <1>1, <1>3, <1>8, <2>1, <2>3, TagStep
  <2> QED BY <2>2, <2>3
<1>9. CASE RollBack(p)
      BY <1>1, <1>9, RollBackStep
<1> QED BY <1>4, <1>5, <1>6, <1>7, <1>8, <1>9 DEF Move, Step

(* A worker that renders the .mp4 leaves the .mkv tagged or gone. *)
LEMMA SiblingStays ==
    ASSUME IInv, NEW p \in Workers, Move(p), ~Kill(p), NEW q \in Workers,
           w[q].src = "mp4", w[q].pc \in {"tag", "rollback"}
    PROVE  \/ disk'["mkv"] = None
           \/ disk'["mkv"].tagged
           \/ w'[q].src = "mp4" /\ w'[q].pc = "rollback"
           \/ w'[q] = w[q]
<1>1. /\ Typed /\ Rendered(p) /\ w \in [Workers -> Threads]
      /\ disk \in [Names -> Media \cup {None}] /\ "mkv" \in Names
      BY TypedParts DEF IInv, Typed, Names, Stored
<1>2. CASE p # q
      BY <1>1, <1>2, OthersStay
<1>3. CASE Tag(q) /\ p = q
  <2>1. CASE Marked("mkv")
    <3>1. PICK f \in Media : disk' = [disk EXCEPT !["mkv"] = f] /\ f.tagged
          BY <2>1 DEF Marked
    <3> QED BY <1>1, <3>1
  <2>2. CASE ~Marked("mkv")
        BY <1>1, <1>3, <2>2, TagStep
  <2> QED BY <2>1, <2>2
<1>4. CASE RollBack(q) /\ p = q
      BY <1>1, <1>4, RollBackStep
<1>5. p = q => Tag(q) \/ RollBack(q)
      BY DEF Move, Step, Begin, Inspect, TagOnly, Render, Collide, Dest, Backup, Replace, DropBackup, At
<1> QED BY <1>2, <1>3, <1>4, <1>5

(* An import over a name, for the backup of a release that stays wanted. *)
LEMMA ImportSpares ==
    ASSUME IInv, NEW m \in Names, Import(m), NEW n \in Names, bak[n] # None,
           bak[n].release \in wanted', m = n \/ Spared(n)
    PROVE  Spared(n)'
<1>1. /\ Typed /\ w \in [Workers -> Threads]
      /\ disk \in [Names -> Media \cup {None}] /\ bak \in [Names -> Media \cup {None}]
      BY TypedParts DEF IInv, Typed, Stored
<1>2. PICK r \in Releases, fit \in BOOLEAN :
          /\ disk' = [disk EXCEPT ![m] = [release |-> r, encodes |-> 0, tagged |-> FALSE, fit |-> fit]]
          /\ wanted' = (wanted \ Gone(m)) \cup {r}
      BY <1>1, ImportStep
<1> DEFINE new == [release |-> r, encodes |-> 0, tagged |-> FALSE, fit |-> fit]
<1>3. new \in Media /\ new.release = r
      BY DEF Media
<1> HIDE DEF new
<1>4. disk' = [disk EXCEPT ![m] = new] /\ disk'[m] = new /\ new # None /\ bak' = bak /\ w' = w
      BY <1>1, <1>2, <1>3, ImportStep, NoneAssumption DEF new
<1>5. CASE bak[n].release = r
      BY <1>3, <1>4, <1>5 DEF Spared, OnDisk
<1>6. CASE bak[n].release # r
  <2>1. bak[n].release \notin Gone(m)
        BY <1>2, <1>6
  <2>2. ASSUME NEW o \in Names, disk[o] # None, disk[o].release = bak[n].release
        PROVE  OnDisk(bak[n].release)'
    <3>1. o # m
          BY <2>1, <2>2 DEF Gone
    <3>2. disk'[o] = disk[o]
          BY <1>1, <1>4, <3>1
    <3> QED BY <1>4, <2>2, <3>2 DEF OnDisk
  <2>3. CASE m = n
    <3>1. n \notin Stranded(n)
          BY <2>1, <2>3 DEF Gone
    <3>2. PICK o \in Names : disk[o] # None /\ disk[o].release = bak[n].release
          BY <3>1 DEF Stranded
    <3> QED BY <1>4, <2>2, <3>2 DEF Spared
  <2>4. CASE m # n /\ Spared(n)
    <3>1. disk'[n] = disk[n]
          BY <1>1, <1>4, <2>4
    <3>2. OnDisk(bak[n].release) => OnDisk(bak[n].release)'
          BY <2>2 DEF OnDisk
    <3> QED BY <1>4, <2>4, <3>1, <3>2 DEF Spared, InBackup, InUse
  <2> QED BY <2>3, <2>4
<1> QED BY <1>5, <1>6

LEMMA LeftoverStep ==
    ASSUME IInv, SwapInv, NoImportInSwap, Next, NEW n \in Names
    PROVE  LeftoverIsSafe(n)'
<1>1. Typed /\ LeftoverIsSafe(n) /\ kills \in Nat /\ w \in [Workers -> Threads]
      BY TypedParts DEF IInv, SwapInv, Typed
<1> SUFFICES ASSUME Leftover(n)'
             PROVE  (kills >= 1)' /\ ((kills <= 1)' /\ bak'[n].release \in wanted' => Spared(n)')
    BY DEF LeftoverIsSafe
<1>2. ASSUME NEW p \in Workers, Kill(p)
      PROVE  kills' >= 1 /\ (kills' <= 1 /\ bak'[n].release \in wanted' => Spared(n)')
  <2>1. /\ UNCHANGED <<disk, bak>> /\ kills' = kills + 1
        /\ \A q \in Workers \ {p} : w'[q] = w[q]
        BY <1>1, <1>2, KillStep
  <2>2. ASSUME kills' <= 1 PROVE Spared(n)'
    <3>1. ~Leftover(n) /\ bak[n] # None
          BY <1>1, <2>1, <2>2 DEF LeftoverIsSafe, Leftover
    <3>2. w[p].src = n /\ w[p].pc \in {"replace", "tag", "drop"}
          BY <2>1, <3>1 DEF Leftover, InUse
    <3>3. Swapping(p) /\ "mkv" \in Names
          BY DEF SwapInv, Names
    <3> QED BY <2>1, <3>2, <3>3 DEF Swapping, Spared, OnDisk
  <2> QED BY <1>1, <2>1, <2>2
<1>3. ASSUME NEW p \in Workers, Move(p), ~Kill(p)
      PROVE  kills' >= 1 /\ (kills' <= 1 /\ bak'[n].release \in wanted' => Spared(n)')
  <2>1. Leftover(n) /\ bak'[n] = bak[n] /\ Rendered(p) /\ Swapping(p)
        BY <1>3, LeftoverStays DEF IInv, SwapInv
  <2>2. UNCHANGED <<wanted, kills>>
        BY <1>1, <1>3, <2>1, MoveStep, BeginStep, InspectStep, TagOnlyStep, RenderStep, CollideStep,
           DestStep, BackupStep, ReplaceStep, TagStep, RollBackStep, DropStep DEF Move, Step
  <2>3. ASSUME Spared(n) PROVE Spared(n)'
    <3>1. CASE disk[n] = None \/ (n = "mkv" /\ disk["mkv"].tagged)
          BY <1>3, <2>1, <3>1, NameStays DEF Leftover, Spared
    <3>2. CASE OnDisk(bak[n].release)
      <4>1. PICK r : r = bak[n].release
            OBVIOUS
      <4>2. CASE OnDisk(r)'
            BY <2>1, <4>1, <4>2 DEF Spared
      <4>3. ASSUME NEW m \in Names, InBackup(r, m)' PROVE Spared(n)'
        <5>1. m # n
              BY <4>3 DEF InBackup, Leftover
        <5> QED BY <2>1, <4>1, <4>3, <5>1 DEF Spared
      <4> QED BY <1>3, <2>1, <3>2, <4>1, <4>2, <4>3, OnDiskStays
    <3>3. CASE \E m \in Names \ {n} : InBackup(bak[n].release, m)
          BY <1>3, <2>1, <3>3, InBackupStays DEF Spared
    <3>4. CASE n = "mkv" /\ \E q \in Workers : w[q].src = "mp4" /\ w[q].pc \in {"tag", "rollback"}
          BY <1>3, <3>4, SiblingStays DEF Spared
    <3> QED BY <2>3, <3>1, <3>2, <3>3, <3>4 DEF Spared
  <2> QED BY <1>1, <2>1, <2>2, <2>3 DEF LeftoverIsSafe
<1>4. ASSUME NEW p \in Workers, Sweep(p)
      PROVE  kills' >= 1 /\ (kills' <= 1 /\ bak'[n].release \in wanted' => Spared(n)')
      BY <1>1, <1>4, SweepStep DEF LeftoverIsSafe, Leftover, InUse, Spared, OnDisk, InBackup
<1>5. ASSUME NEW m \in Names, Import(m)
      PROVE  kills' >= 1 /\ (kills' <= 1 /\ bak'[n].release \in wanted' => Spared(n)')
  <2>1. UNCHANGED <<bak, w, kills>> /\ Leftover(n)
        BY <1>1, <1>5, ImportStep DEF Leftover, InUse
  <2>2. ASSUME bak[n].release \in wanted', kills <= 1 PROVE Spared(n)'
    <3>1. bak[n].release \in wanted => Spared(n)
          BY <1>1, <2>1, <2>2 DEF LeftoverIsSafe
    <3>2. CASE bak[n].release \in wanted
          BY <1>5, <2>1, <2>2, <3>1, <3>2, ImportSpares DEF Leftover
    <3>3. CASE bak[n].release \notin wanted
      <4>1. PICK r \in Releases, fit \in BOOLEAN :
                /\ disk' = [disk EXCEPT ![m] = [release |-> r, encodes |-> 0, tagged |-> FALSE, fit |-> fit]]
                /\ wanted' = (wanted \ Gone(m)) \cup {r}
            BY <1>1, <1>5, ImportStep
      <4> DEFINE new == [release |-> r, encodes |-> 0, tagged |-> FALSE, fit |-> fit]
      <4>2. new.release = bak[n].release /\ new # None /\ disk'[m] = new
        <5>1. new \in Media
              BY DEF Media
        <5>2. bak[n].release = r
              BY <2>2, <3>3, <4>1
        <5>3. disk \in [Names -> Media \cup {None}]
              BY <1>1, TypedParts DEF Stored
        <5> QED BY <4>1, <5>1, <5>2, <5>3, NoneAssumption
      <4> HIDE DEF new
      <4> QED BY <2>1, <4>2 DEF Spared, OnDisk
    <3> QED BY <3>2, <3>3
  <2> QED BY <1>1, <2>1, <2>2 DEF LeftoverIsSafe
<1> QED BY <1>2, <1>3, <1>4, <1>5 DEF Next, Move

LEMMA ThereStep ==
    ASSUME IInv, SwapInv, Next, NEW r, r \in wanted, r \in wanted', kills <= 1, There(r)
    PROVE  There(r)'
<1>1. /\ Typed /\ w \in [Workers -> Threads]
      /\ disk \in [Names -> Media \cup {None}] /\ bak \in [Names -> Media \cup {None}]
      BY TypedParts DEF IInv, Typed, Stored
<1>2. ASSUME OnDisk(r)' \/ \E n \in Names : InBackup(r, n)' PROVE There(r)'
      BY <1>2 DEF OnDisk, InBackup, There
<1>3. ASSUME NEW p \in Workers, Move(p) PROVE There(r)'
  <2>1. Rendered(p) /\ Swapping(p)
        BY DEF IInv, SwapInv
  <2>2. CASE OnDisk(r)
        BY <1>2, <1>3, <2>1, <2>2, OnDiskStays
  <2>3. CASE \E n \in Names : InBackup(r, n) /\ ~Kill(p)
        BY <1>2, <1>3, <2>1, <2>3, InBackupStays
  <2>4. CASE Kill(p)
        BY <1>1, <2>4, KillStep DEF There
  <2>5. ASSUME NEW n \in Names, bak[n] # None, bak[n].release = r, ~InUse(n), ~OnDisk(r),
               \A m \in Names : ~InBackup(r, m)
        PROVE  There(r)'
    <3>1. Spared(n) => disk[n] = None \/ n = "mkv"
          BY <2>5 DEF Spared
    <3>2. bak'[n] = bak[n] => There(r)'
          BY <2>5 DEF There
    <3>3. CASE Backup(p)
      <4>1. n # w[p].src
        <5>1. SUFFICES ASSUME n = w[p].src PROVE FALSE
              OBVIOUS
        <5>2. w[p].pc = "backup" /\ disk[n] # None
              BY <1>1, <2>1, <3>3, <5>1, BackupStep DEF Swapping
        <5>3. Spared(n)
              BY <2>5 DEF SwapInv, LeftoverIsSafe, Leftover
        <5>4. ~disk[n].tagged
              BY <2>1, <5>1, <5>2 DEF Rendered
        <5>5. PICK q \in Workers : n = "mkv" /\ w[q].src = "mp4" /\ w[q].pc \in {"tag", "rollback"}
              BY <2>5, <5>2, <5>3, <5>4 DEF Spared
        <5> QED BY <1>1, <5>1, <5>2, <5>5, Alone DEF Late
      <4>2. bak'[n] = bak[n]
            BY <1>1, <3>3, <4>1, BackupStep
      <4> QED BY <3>2, <4>2
    <3>4. CASE Replace(p) \/ Tag(p) \/ DropBackup(p)
      <4>1. n # w[p].src
            BY <1>1, <2>1, <2>5, <3>4, ReplaceStep, TagStep, DropStep DEF InUse
      <4>2. bak'[n] = bak[n]
            BY <1>1, <2>1, <3>4, <4>1, ReplaceStep, TagStep, DropStep
      <4> QED BY <3>2, <4>2
    <3>5. CASE (\E m \in Names : Begin(p, m)) \/ Inspect(p) \/ TagOnly(p) \/ Render(p) \/ Collide(p)
                 \/ Dest(p) \/ RollBack(p)
          BY <1>1, <3>2, <3>5, BeginStep, InspectStep, TagOnlyStep, RenderStep, CollideStep, DestStep,
             RollBackStep
    <3> QED BY <1>3, <2>4, <3>3, <3>4, <3>5 DEF Move, Step
  <2> QED BY <2>2, <2>3, <2>4, <2>5 DEF There, OnDisk, InBackup
<1>4. ASSUME NEW p \in Workers, Sweep(p) PROVE There(r)'
      BY <1>1, <1>4, SweepStep DEF There
<1>5. ASSUME NEW m \in Names, Import(m) PROVE There(r)'
  <2>1. PICK s \in Releases, fit \in BOOLEAN :
            /\ disk' = [disk EXCEPT ![m] = [release |-> s, encodes |-> 0, tagged |-> FALSE, fit |-> fit]]
            /\ wanted' = (wanted \ Gone(m)) \cup {s}
        BY <1>1, <1>5, ImportStep
  <2> DEFINE new == [release |-> s, encodes |-> 0, tagged |-> FALSE, fit |-> fit]
  <2>2. new \in Media /\ new.release = s
        BY DEF Media
  <2> HIDE DEF new
  <2>3. disk' = [disk EXCEPT ![m] = new] /\ disk'[m] = new /\ new # None /\ bak' = bak
        BY <1>1, <1>5, <2>1, <2>2, ImportStep, NoneAssumption DEF new
  <2>4. CASE r = s
        BY <2>2, <2>3, <2>4 DEF There
  <2>5. CASE r # s
    <3>1. r \notin Gone(m)
          BY <2>1, <2>5
    <3>2. PICK n \in Names : (disk[n] # None /\ disk[n].release = r) \/ (bak[n] # None /\ bak[n].release = r)
          BY DEF There
    <3>3. CASE disk[n] # None /\ disk[n].release = r
      <4>1. n # m
            BY <3>1, <3>3 DEF Gone
      <4>2. disk'[n] = disk[n]
            BY <1>1, <2>3, <4>1
      <4> QED BY <3>3, <4>2 DEF There
    <3>4. CASE bak[n] # None /\ bak[n].release = r
          BY <2>3, <3>4 DEF There
    <3> QED BY <3>2, <3>3, <3>4
  <2> QED BY <2>4, <2>5
<1> QED BY <1>3, <1>4, <1>5 DEF Next, Move

LEMMA NothingLostStep ==
    ASSUME IInv, SwapInv, Next
    PROVE  NothingLost'
<1>1. Typed /\ kills \in Nat /\ (kills <= 1 => \A r \in wanted : There(r))
      BY TypedParts, NothingLostIs DEF IInv, SwapInv, Stored
<1>2. kills' <= 1 => kills <= 1
  <2>1. ASSUME NEW p \in Workers, Move(p) PROVE kills' \in Nat /\ kills' >= kills
        BY <1>1, <2>1, MoveStep DEF IInv
  <2>2. ASSUME NEW p \in Workers, Sweep(p) PROVE kills' = kills
        BY <1>1, <2>2, SweepStep
  <2>3. ASSUME NEW n \in Names, Import(n) PROVE kills' = kills
        BY <1>1, <2>3, ImportStep
  <2> QED BY <1>1, <2>1, <2>2, <2>3 DEF Next, Move
<1>3. ASSUME NEW r, r \in wanted', kills <= 1 PROVE There(r)'
  <2>1. CASE r \in wanted
        BY <1>1, <1>3, <2>1, ThereStep
  <2>2. CASE r \notin wanted
    <3>1. ASSUME NEW p \in Workers, Move(p) \/ Sweep(p) PROVE wanted' = wanted
          BY <1>1, <3>1, MoveStep, SweepStep DEF IInv
    <3>2. PICK n \in Names : Import(n)
          BY <1>3, <2>2, <3>1 DEF Next, Move
    <3>3. PICK s \in Releases, fit \in BOOLEAN :
            /\ disk' = [disk EXCEPT ![n] = [release |-> s, encodes |-> 0, tagged |-> FALSE, fit |-> fit]]
            /\ wanted' = (wanted \ Gone(n)) \cup {s}
          BY <1>1, <3>2, ImportStep
    <3> DEFINE new == [release |-> s, encodes |-> 0, tagged |-> FALSE, fit |-> fit]
    <3>4. new \in Media /\ new.release = r /\ new # None
      <4>1. r = s
            BY <1>3, <2>2, <3>3
      <4>2. new \in Media /\ new.release = s
            BY DEF Media
      <4> QED BY <4>1, <4>2, NoneAssumption
    <3> HIDE DEF new
    <3>5. disk' = [disk EXCEPT ![n] = new]
          BY <3>3 DEF new
    <3>6. disk'[n] = new
          BY <1>1, <3>5, TypedParts DEF Stored
    <3> QED BY <3>4, <3>6 DEF There
  <2> QED BY <2>1, <2>2
<1>4. NothingLost' <=> (kills' <= 1 => \A r \in wanted' : There(r)')
      BY DEF NothingLost, Copies, There
<1> QED BY <1>2, <1>3, <1>4

LEMMA SwapInvariant ==
    ASSUME NoImportInSwap
    PROVE  Spec => []SwapInv
<1>1. Init => SwapInv
      BY DEF Init, Idle, SwapInv, Swapping, LeftoverIsSafe, Leftover, NothingLost
<1>2. IInv /\ SwapInv /\ [Next]_vars => SwapInv'
  <2>1. SUFFICES ASSUME IInv, SwapInv, [Next]_vars PROVE SwapInv'
        OBVIOUS
  <2>2. CASE Next
    <3>1. ASSUME NEW p \in Workers PROVE Swapping(p)'
          BY <2>1, <2>2, SwappingStep DEF SwapInv
    <3>2. ASSUME NEW n \in Names PROVE LeftoverIsSafe(n)'
          BY <2>1, <2>2, LeftoverStep
    <3> QED BY <2>1, <2>2, <3>1, <3>2, NothingLostStep DEF SwapInv
  <2>3. CASE UNCHANGED vars
        BY <2>1, <2>3 DEF vars, SwapInv, Swapping, LeftoverIsSafe, Leftover, InUse, Spared, OnDisk,
           InBackup, NothingLost, Copies
  <2> QED BY <2>1, <2>2, <2>3
<1> QED BY <1>1, <1>2, Invariant, PTL DEF Spec

(* While at most one worker is killed, a release that was imported is there *)
(* under a name or as a backup, whatever else fails, if none is imported    *)
(* over a file from its rendering to the end of its swap.                   *)
THEOREM NoneLost ==
    ASSUME NoImportInSwap
    PROVE  Spec => []NothingLost
<1>1. SwapInv => NothingLost
      BY DEF SwapInv
<1> QED BY <1>1, SwapInvariant, PTL
=============================================================================
