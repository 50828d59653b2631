--------------------------- MODULE DownloadsProofs --------------------------
(***************************************************************************)
(* What nuke_stalled.py and unaired-guard.py may delete, for any downloads *)
(* and episodes, any size of pages and any number of failing requests.     *)
(***************************************************************************)
EXTENDS Downloads, FiniteSetTheorems, SequenceTheorems, WellFoundedInduction, TLAPS

Answers == {"removed", "not_found", "queue_error", "delete_failed"}
Readings == [out : Seq(Rows), page : Nat \ {0}, shifted : BOOLEAN]
Nukes ==
    [pc : {"idle", "read", "remove", "decide"}, todo : SUBSET Downloads,
     hash : Downloads \cup {None}, arr : Arrs, reading : Readings,
     row : Rows \cup {None}, answers : SUBSET Answers, shifted : BOOLEAN]
Guards ==
    [pc : {"idle", "read", "fetch", "reap"}, reading : Readings,
     reap : SUBSET Rows, shifted : BOOLEAN]

(* A download in a set of rows is there with all that it covers. *)
Whole(rows) ==
    \A row \in rows : \A i \in Covers[row.download] :
        \E other \in rows : other.download = row.download /\ other.item = i

ServiceInv ==
    /\ queue \in [Arrs -> Seq(Rows)]
    /\ \A a \in Arrs : IsInjective(queue[a])
    /\ \A a \in Arrs : Whole(ToSet(queue[a]))
    /\ client \in [Downloads -> ClientStates]
    /\ blocked \subseteq Downloads
    /\ faults \in 0..MaxFaults

(* The rows that were read are those of the pages before this one. *)
Aligned(r) == Len(r.out) = (r.page - 1) * PageSize

(* A torrent on the list is in the client, or will not be grabbed again. *)
ListedStays ==
    nuke.pc # "idle" =>
        \A d \in nuke.todo \cup {nuke.hash} : client[d] # "absent" \/ d \in blocked

(* The Arrs that have answered about the torrent at hand. *)
Asked ==
    IF nuke.pc = "decide" THEN Arrs ELSE IF nuke.arr = "sonarr" THEN {"radarr"} ELSE {}

(* Where only "not_found" was answered, on readings that missed nothing,   *)
(* the torrent is in no queue, unless it has left the client as well.      *)
NotFoundIsUnclaimed ==
    /\ nuke.pc # "idle"
    /\ nuke.answers \subseteq {"not_found"} /\ ~nuke.shifted
    /\ client[nuke.hash] # "absent"
    => \A a \in Asked : ~Claims(a, nuke.hash)

NukeInv ==
    /\ nuke \in Nukes
    /\ nuke.pc # "idle" => nuke.hash \in Downloads \ nuke.todo
    /\ nuke.pc = "remove" <=> nuke.row # None
    /\ nuke.pc = "decide" => nuke.answers # {}
    /\ nuke.pc = "read" => Aligned(nuke.reading)
    /\ ListedStays
    /\ NotFoundIsUnclaimed

(* What the guard goes by is whole, and what it has chosen is unaired. *)
ReapIsUnaired ==
    /\ guard.pc = "fetch" /\ ~guard.reading.shifted => Whole(ToSet(guard.reading.out))
    /\ guard.pc = "reap" /\ ~guard.shifted =>
          \A row \in guard.reap : Covers[row.download] \subseteq unaired

GuardInv ==
    /\ guard \in Guards
    /\ guard.pc = "reap" <=> guard.reap # {}
    /\ guard.pc = "read" => Aligned(guard.reading)
    /\ ReapIsUnaired

IInv ==
    /\ ServiceInv
    /\ NukeInv
    /\ GuardInv
    /\ unaired \in SUBSET Items
    /\ grabs \in [Downloads -> Nat]

-----------------------------------------------------------------------------
(* Sequences. *)

(* A set of natural numbers has a least element. *)
LEMMA LeastNat == ASSUME NEW T \in SUBSET Nat, T # {} PROVE \E x \in T : \A y \in T : x <= y
<1> DEFINE R == OpToRel(<, Nat)
<1>1. \A x, y \in Nat : x < y => <<x, y>> \in R
      BY DEF OpToRel
<1>2. IsWellFoundedOn(R, Nat)
      BY NatLessThanWellFounded
<1> HIDE DEF R
<1>3. PICK x \in T : \A y \in T : ~(<<y, x>> \in R)
      BY <1>2, WFMin, Zenon
<1>4. ASSUME NEW y \in T PROVE x <= y
  <2>1. x \in Nat /\ y \in Nat /\ ~(y < x)
        BY <1>1, <1>3
  <2> QED BY <2>1
<1> QED BY <1>4

LEMMA ToSetOf == ASSUME NEW S, NEW s \in Seq(S)
                 PROVE  /\ ToSet(s) = {s[i] : i \in 1..Len(s)}
                        /\ ToSet(s) \subseteq S
  BY DEF ToSet

LEMMA ToSetOfConcat ==
    ASSUME NEW S, NEW s \in Seq(S), NEW t \in Seq(S)
    PROVE  ToSet(s \o t) = ToSet(s) \cup ToSet(t)
<1> DEFINE u == s \o t
<1>1. /\ u \in Seq(S) /\ Len(u) = Len(s) + Len(t) /\ Len(s) \in Nat /\ Len(t) \in Nat
      /\ \A i \in 1..Len(u) : u[i] = IF i <= Len(s) THEN s[i] ELSE t[i - Len(s)]
      BY ConcatProperties, LenProperties
<1> HIDE DEF u
<1>2. ASSUME NEW x \in ToSet(u) PROVE x \in ToSet(s) \cup ToSet(t)
  <2>1. PICK i \in 1..Len(u) : x = u[i]
        BY <1>1, ToSetOf
  <2>2. CASE i <= Len(s)
        BY <1>1, <2>1, <2>2, ToSetOf
  <2>3. CASE ~(i <= Len(s))
    <3>1. i - Len(s) \in 1..Len(t) /\ x = t[i - Len(s)]
          BY <1>1, <2>1, <2>3
    <3> QED BY <3>1, ToSetOf
  <2> QED BY <2>2, <2>3
<1>3. ASSUME NEW x \in ToSet(s) PROVE x \in ToSet(u)
  <2>1. PICK i \in 1..Len(s) : x = s[i]
        BY ToSetOf
  <2>2. i \in 1..Len(u) /\ x = u[i]
        BY <1>1, <2>1
  <2> QED BY <1>1, <2>2, ToSetOf
<1>4. ASSUME NEW x \in ToSet(t) PROVE x \in ToSet(u)
  <2>1. PICK i \in 1..Len(t) : x = t[i]
        BY ToSetOf
  <2> DEFINE j == i + Len(s)
  <2>2. j \in 1..Len(u) /\ ~(j <= Len(s)) /\ j - Len(s) = i
        BY <1>1
  <2> HIDE DEF j
  <2>3. u[j] = t[i]
        BY <1>1, <2>2
  <2>4. ToSet(u) = {u[k] : k \in 1..Len(u)}
        BY <1>1, ToSetOf
  <2>5. x = u[j]
        BY <2>1, <2>3
  <2> QED BY <2>2, <2>4, <2>5
<1>5. ToSet(u) = ToSet(s) \cup ToSet(t)
      BY <1>2, <1>3, <1>4
<1> QED BY <1>5 DEF u

LEMMA InjectiveConcat ==
    ASSUME NEW S, NEW s \in Seq(S), NEW t \in Seq(S), IsInjective(s), IsInjective(t),
           ToSet(s) \cap ToSet(t) = {}
    PROVE  IsInjective(s \o t)
<1> DEFINE u == s \o t
<1>1. /\ u \in Seq(S) /\ Len(u) = Len(s) + Len(t) /\ Len(s) \in Nat /\ Len(t) \in Nat
      /\ \A i \in 1..Len(u) : u[i] = IF i <= Len(s) THEN s[i] ELSE t[i - Len(s)]
      BY ConcatProperties, LenProperties
<1>2. DOMAIN u = 1..Len(u) /\ DOMAIN s = 1..Len(s) /\ DOMAIN t = 1..Len(t)
      BY <1>1, LenProperties
<1> HIDE DEF u
<1>3. ASSUME NEW i \in 1..Len(u), NEW j \in 1..Len(u), u[i] = u[j] PROVE i = j
  <2>1. CASE i <= Len(s) /\ j <= Len(s)
    <3>1. i \in 1..Len(s) /\ j \in 1..Len(s) /\ s[i] = s[j]
          BY <1>1, <1>3, <2>1
    <3> QED BY <1>2, <3>1 DEF IsInjective
  <2>2. CASE ~(i <= Len(s)) /\ ~(j <= Len(s))
    <3>1. i - Len(s) \in 1..Len(t) /\ j - Len(s) \in 1..Len(t) /\ t[i - Len(s)] = t[j - Len(s)]
          BY <1>1, <1>3, <2>2
    <3>2. i - Len(s) = j - Len(s)
          BY <1>2, <3>1 DEF IsInjective
    <3> QED BY <1>1, <3>2
  <2>3. CASE i <= Len(s) /\ ~(j <= Len(s))
    <3>1. i \in 1..Len(s) /\ j - Len(s) \in 1..Len(t) /\ s[i] = t[j - Len(s)]
          BY <1>1, <1>3, <2>3
    <3> QED BY <1>2, <3>1 DEF ToSet
  <2>4. CASE ~(i <= Len(s)) /\ j <= Len(s)
    <3>1. j \in 1..Len(s) /\ i - Len(s) \in 1..Len(t) /\ s[j] = t[i - Len(s)]
          BY <1>1, <1>3, <2>4
    <3> QED BY <1>2, <3>1 DEF ToSet
  <2> QED BY <2>1, <2>2, <2>3, <2>4
<1> QED BY <1>2, <1>3 DEF IsInjective, u

(* SetToSeq gives the elements of a finite set, each once. *)
LEMMA SetToSeqOf ==
    ASSUME NEW S, IsFiniteSet(S)
    PROVE  /\ SetToSeq(S) \in Seq(S)
           /\ IsInjective(SetToSeq(S))
           /\ ToSet(SetToSeq(S)) = S
<1> DEFINE n == Cardinality(S)
           f == SetToSeq(S)
<1>1. n \in Nat /\ ExistsBijection(1..n, S)
      BY FS_CardinalityType
<1>2. \E g \in [1..n -> S] : IsInjective(g)
      BY <1>1 DEF ExistsBijection, Bijection, Injection
<1>3. f \in [1..n -> S] /\ IsInjective(f)
      BY <1>2 DEF SetToSeq
<1>4. f \in Injection(1..n, S)
      BY <1>3 DEF Injection
<1>5. Cardinality(1..n) = n
      BY <1>1, FS_Interval
<1>6. f \in Surjection(1..n, S)
      BY <1>4, <1>5, FS_Injection
<1> HIDE DEF n, f
<1>7. ToSet(f) = S
      BY <1>3, <1>6 DEF ToSet, Surjection
<1>8. f \in Seq(S)
      BY <1>1, <1>3, SeqDef
<1> QED BY <1>3, <1>7, <1>8 DEF f

-----------------------------------------------------------------------------
(* Rank counts a finite set of numbers through. *)
LEMMA RankCounts ==
    ASSUME NEW n \in Nat, NEW K \in SUBSET (1..n)
    PROVE  /\ Cardinality(K) \in Nat
           /\ \A i \in K : Rank(i, K) \in 1..Cardinality(K)
           /\ \A i, j \in K : Rank(i, K) = Rank(j, K) => i = j
           /\ \A k \in 1..Cardinality(K) : \E i \in K : Rank(i, K) = k
<1> DEFINE N == Cardinality(K)
           r == [i \in K |-> Rank(i, K)]
           Upto(i) == {j \in K : j <= i}
<1>1. IsFiniteSet(K) /\ N \in Nat
  <2>1. IsFiniteSet(1..n)
        BY FS_Interval
  <2> QED BY <2>1, FS_Subset, FS_CardinalityType
<1>2. \A i \in K : /\ IsFiniteSet(Upto(i)) /\ Cardinality(Upto(i)) \in Nat
                   /\ Cardinality(Upto(i)) <= N
  <2> TAKE i \in K
  <2>1. Upto(i) \in SUBSET K
        OBVIOUS
  <2> HIDE DEF Upto
  <2> QED BY <1>1, <2>1, FS_Subset, FS_CardinalityType
<1>3. \A i \in K : Cardinality(Upto(i)) > 0
  <2> TAKE i \in K
  <2>1. i \in Upto(i)
        OBVIOUS
  <2> HIDE DEF Upto
  <2> QED BY <1>2, <2>1, FS_EmptySet
<1>4. r \in [K -> 1..N]
  <2>1. \A i \in K : Rank(i, K) = Cardinality(Upto(i))
        BY DEF Rank
  <2> HIDE DEF Upto, N
  <2> QED BY <1>1, <1>2, <1>3, <2>1
<1>5. ASSUME NEW i \in K, NEW j \in K, i < j PROVE r[i] # r[j]
  <2>1. Upto(i) \in SUBSET Upto(j) /\ j \in Upto(j) /\ j \notin Upto(i)
    <3>1. \A k \in K : k \in Nat
          OBVIOUS
    <3> HIDE DEF r
    <3>2. \A k \in K : k <= i => k <= j
          BY <1>5, <3>1
    <3>3. j <= j /\ ~(j <= i)
          BY <1>5, <3>1
    <3> QED BY <3>2, <3>3
  <2>2. r[i] = Cardinality(Upto(i)) /\ r[j] = Cardinality(Upto(j))
        BY DEF Rank
  <2> HIDE DEF Upto
  <2> QED BY <1>2, <2>1, <2>2, FS_Subset
<1>6. IsInjective(r)
  <2>1. ASSUME NEW i \in K, NEW j \in K, i # j PROVE r[i] # r[j]
    <3>1. i < j \/ j < i
          BY <2>1
    <3> QED BY <1>5, <3>1
  <2> HIDE DEF r
  <2>2. DOMAIN r = K
        BY <1>4
  <2> QED BY <2>1, <2>2 DEF IsInjective
<1> HIDE DEF r
<1>7. r \in Injection(K, 1..N)
      BY <1>4, <1>6 DEF Injection
<1>8. IsFiniteSet(1..N) /\ Cardinality(1..N) = N
      BY <1>1, FS_Interval
<1>9. r \in Surjection(K, 1..N)
      BY <1>7, <1>8, FS_Injection
<1>10. \A i \in K : r[i] = Rank(i, K)
       BY DEF r
<1>11. /\ \A i, j \in K : r[i] = r[j] => i = j
       /\ \A k \in 1..N : \E i \in K : r[i] = k
       BY <1>4, <1>6, <1>9 DEF Surjection, IsInjective
<1> QED BY <1>1, <1>4, <1>10, <1>11

(* Without keeps the other rows, each where it was among them. *)
LEMMA WithoutOf ==
    ASSUME NEW q \in Seq(Rows), NEW d
    PROVE  /\ Without(q, d) \in Seq(Rows)
           /\ ToSet(Without(q, d)) = {row \in ToSet(q) : row.download # d}
           /\ IsInjective(q) => IsInjective(Without(q, d))
<1> DEFINE K == Staying(q, d)
           n == Cardinality(K)
           At(k) == CHOOSE i \in K : Rank(i, K) = k
           w == [k \in 1..n |-> q[At(k)]]
<1>1. /\ Len(q) \in Nat /\ DOMAIN q = 1..Len(q) /\ \A i \in 1..Len(q) : q[i] \in Rows
      /\ K = {i \in 1..Len(q) : q[i].download # d}
      BY LenProperties, ElementOfSeq DEF Staying
<1>2. K \in SUBSET (1..Len(q))
      BY <1>1
<1>3. Without(q, d) = w
      BY DEF Without
<1> HIDE DEF K
<1>4. /\ n \in Nat
      /\ \A i \in K : Rank(i, K) \in 1..n
      /\ \A i, j \in K : Rank(i, K) = Rank(j, K) => i = j
      /\ \A k \in 1..n : \E i \in K : Rank(i, K) = k
  <2> HIDE DEF At
  <2>1. Len(q) \in Nat
        BY <1>1
  <2> QED BY <2>1, <1>2, RankCounts
<1>5. \A k \in 1..n : At(k) \in K /\ Rank(At(k), K) = k
      BY <1>4
<1>6. \A i \in K : Rank(i, K) \in 1..n /\ At(Rank(i, K)) = i
      BY <1>4, <1>5
<1> HIDE DEF n, At
<1>7. w \in [1..n -> Rows]
      BY <1>1, <1>2, <1>5
<1>8. w \in Seq(Rows)
      BY <1>4, <1>7, SeqDef
<1>9. DOMAIN w = 1..n /\ \A k \in 1..n : w[k] = q[At(k)]
      OBVIOUS
<1> HIDE DEF w
<1>10. ASSUME NEW row \in ToSet(w) PROVE row \in ToSet(q) /\ row.download # d
  <2>1. PICK k \in 1..n : row = q[At(k)]
        BY <1>9 DEF ToSet
  <2> QED BY <1>1, <1>5, <2>1 DEF ToSet
<1>11. ASSUME NEW row \in ToSet(q), row.download # d PROVE row \in ToSet(w)
  <2>1. PICK i \in 1..Len(q) : row = q[i]
        BY <1>1 DEF ToSet
  <2>2. i \in K
        BY <1>1, <1>11, <2>1
  <2> QED BY <1>6, <1>9, <2>1, <2>2 DEF ToSet
<1>12. ASSUME IsInjective(q) PROVE IsInjective(w)
  <2>1. ASSUME NEW k \in 1..n, NEW l \in 1..n, w[k] = w[l] PROVE k = l
    <3>1. At(k) \in 1..Len(q) /\ At(l) \in 1..Len(q) /\ q[At(k)] = q[At(l)]
          BY <1>2, <1>5, <1>9, <2>1
    <3>2. At(k) = At(l)
          BY <1>1, <1>12, <3>1 DEF IsInjective
    <3> QED BY <1>5, <3>2
  <2> QED BY <1>9, <2>1 DEF IsInjective
<1>13. ToSet(w) = {row \in ToSet(q) : row.download # d}
       BY <1>10, <1>11
<1> QED BY <1>3, <1>8, <1>12, <1>13

(* FirstRow is a row of the download, where it has one. *)
LEMMA FirstRowOf ==
    ASSUME NEW r \in Readings, NEW d
    PROVE  /\ PlacesOf(r, d) = {} => \A row \in ToSet(r.out) : row.download # d
           /\ PlacesOf(r, d) # {} => FirstRow(r, d) \in ToSet(r.out) /\ FirstRow(r, d).download = d
           /\ \A row \in ToSet(r.out) : row.download = d => PlacesOf(r, d) # {}
<1>1. r.out \in Seq(Rows)
      BY DEF Readings
<1>2. DOMAIN r.out = 1..Len(r.out) /\ Len(r.out) \in Nat
      BY <1>1, LenProperties
<1>3. ASSUME PlacesOf(r, d) # {} PROVE Min(PlacesOf(r, d)) \in PlacesOf(r, d)
  <2>1. PlacesOf(r, d) \in SUBSET Nat
        BY <1>2 DEF PlacesOf
  <2>2. \E x \in PlacesOf(r, d) : \A y \in PlacesOf(r, d) : x <= y
        BY <1>3, <2>1, LeastNat
  <2> QED BY <2>2 DEF Min
<1>4. ASSUME PlacesOf(r, d) # {}
      PROVE  FirstRow(r, d) \in ToSet(r.out) /\ FirstRow(r, d).download = d
      BY <1>3, <1>4 DEF FirstRow, PlacesOf, ToSet
<1> QED BY <1>4 DEF PlacesOf, ToSet

(* A piece of a sequence, by what comes before it and where it ends. *)
LEMMA PieceOf ==
    ASSUME NEW S, NEW s \in Seq(S), NEW k \in Nat, NEW m \in Nat, m <= Len(s)
    PROVE  /\ SubSeq(s, k + 1, m) \in Seq(S)
           /\ Len(SubSeq(s, k + 1, m)) = IF k < m THEN m - k ELSE 0
           /\ \A i \in 1..(m - k) : SubSeq(s, k + 1, m)[i] = s[k + i]
<1> DEFINE p == SubSeq(s, k + 1, m)
           a == k + 1
<1>1. a \in Int /\ m \in Int /\ \A i \in a..m : i \in 1..Len(s)
  <2>1. Len(s) \in Nat
        BY LenProperties
  <2> QED BY <2>1
<1>2. \A i \in a..m : s[i] \in S
      BY <1>1, ElementOfSeq
<1> HIDE DEF a
<1>3. /\ SubSeq(s, a, m) \in Seq(S)
      /\ Len(SubSeq(s, a, m)) = IF a <= m THEN m - a + 1 ELSE 0
      /\ \A i \in 1..(m - a + 1) : SubSeq(s, a, m)[i] = s[a + i - 1]
      BY <1>1, <1>2, SubSeqProperties
<1>4. p = SubSeq(s, a, m) /\ (a <= m <=> k < m) /\ m - a + 1 = m - k
      BY DEF a
<1>5. \A i \in 1..(m - k) : a + i - 1 = k + i
      BY DEF a
<1> HIDE DEF p
<1>6. p \in Seq(S) /\ Len(p) = (IF k < m THEN m - k ELSE 0) /\ \A i \in 1..(m - k) : p[i] = s[k + i]
      BY <1>3, <1>4, <1>5
<1> QED BY <1>6 DEF p

LEMMA PrefixOf ==
    ASSUME NEW S, NEW s \in Seq(S), NEW t \in Seq(S), IsPrefix(s, t)
    PROVE  Len(s) <= Len(t) /\ \A i \in 1..Len(s) : s[i] = t[i]
<1> DEFINE n == Len(s)
<1>1. n \in Nat /\ n <= n /\ n <= Len(t) /\ SubSeq(s, 1, n) = SubSeq(t, 1, n)
      BY LenProperties DEF IsPrefix
<1>2. 0 + 1 = 1 /\ n - 0 = n /\ \A i \in 1..n : 0 + i = i
      BY <1>1
<1>3. \A i \in 1..(n - 0) : SubSeq(s, 0 + 1, n)[i] = s[0 + i]
      BY <1>1, PieceOf
<1>4. \A i \in 1..(n - 0) : SubSeq(t, 0 + 1, n)[i] = t[0 + i]
  <2> HIDE DEF n
  <2> QED BY <1>1, PieceOf
<1> QED BY <1>1, <1>2, <1>3, <1>4

(* One page more: what was read stays aligned with the pages, and, when it *)
(* is as much as the queue holds and nothing has slipped, is the queue.    *)
LEMMA ReadOf ==
    ASSUME NEW q \in Seq(Rows), NEW r \in Readings, Aligned(r)
    PROVE  /\ Read(q, r) \in Readings
           /\ ToSet(Read(q, r).out) \subseteq ToSet(r.out) \cup ToSet(q)
           /\ ~Complete(q, r) => Aligned(Read(q, r))
           /\ Complete(q, r) /\ ~Read(q, r).shifted => ToSet(Read(q, r).out) = ToSet(q)
<1> DEFINE k == (r.page - 1) * PageSize
           m == Min({k + PageSize, Len(q)})
           p == SubSeq(q, k + 1, m)
<1>1. /\ Len(q) \in Nat /\ Len(r.out) \in Nat /\ PageSize \in Nat \ {0}
      /\ r.page \in Nat \ {0} /\ r.out \in Seq(Rows) /\ r.shifted \in BOOLEAN
      BY BoundsAssumption, LenProperties DEF Readings
<1>2. k \in Nat /\ k = Len(r.out)
      BY <1>1 DEF Aligned
<1>3. r.page * PageSize = k + PageSize /\ (r.page + 1 - 1) * PageSize = k + PageSize
  <2>1. \A x \in Nat \ {0}, y \in Nat : x * y = (x - 1) * y + y /\ x + 1 - 1 = x
        OBVIOUS
  <2> QED BY <1>1, <2>1
<1>4. Page(q, r) = p
      BY <1>3 DEF Page
<1> HIDE DEF k
<1>5. m = IF k + PageSize <= Len(q) THEN k + PageSize ELSE Len(q)
      BY <1>1, <1>2 DEF Min
<1> HIDE DEF m
<1>6. m \in Nat /\ m <= Len(q) /\ \A i \in (k + 1)..m : q[i] \in Rows
      BY <1>1, <1>2, <1>5, ElementOfSeq
<1>7. /\ p \in Seq(Rows)
      /\ Len(p) = IF k < m THEN m - k ELSE 0
      /\ \A i \in 1..(m - k) : p[i] = q[k + i]
  <2>1. k \in Nat /\ m \in Nat /\ m <= Len(q)
        BY <1>2, <1>6
  <2> QED BY <2>1, PieceOf
<1> HIDE DEF p
<1>8. Read(q, r) = [out |-> r.out \o p, page |-> r.page + 1,
                    shifted |-> r.shifted \/ ~IsPrefix(r.out, q)]
      BY <1>4 DEF Read
<1>9. /\ r.out \o p \in Seq(Rows)
      /\ Len(r.out \o p) = k + Len(p)
      /\ ToSet(r.out \o p) = ToSet(r.out) \cup ToSet(p)
  <2>1. r.out \in Seq(Rows) /\ p \in Seq(Rows) /\ k = Len(r.out)
        BY <1>1, <1>2, <1>7
  <2>2. /\ r.out \o p \in Seq(Rows)
        /\ Len(r.out \o p) = Len(r.out) + Len(p)
        BY <2>1, ConcatProperties
  <2>3. ToSet(r.out \o p) = ToSet(r.out) \cup ToSet(p)
        BY <2>1, ToSetOfConcat
  <2> QED BY <2>1, <2>2, <2>3
<1>10. Read(q, r) \in Readings
       BY <1>1, <1>8, <1>9 DEF Readings
<1>11. ASSUME NEW row \in ToSet(p) PROVE row \in ToSet(q)
  <2>1. PICK i \in 1..Len(p) : row = p[i]
        BY <1>7, ToSetOf
  <2>2. i \in 1..(m - k) /\ k + i \in 1..Len(q)
        BY <1>1, <1>2, <1>6, <1>7, <2>1
  <2>3. row = q[k + i]
        BY <1>7, <2>1, <2>2
  <2> QED BY <2>2, <2>3, ToSetOf
<1>12. ASSUME ~Complete(q, r) PROVE Aligned(Read(q, r))
  <2>1. k + Len(p) < Len(q)
    <3>1. ~(k + Len(p) >= Len(q))
          BY <1>2, <1>4, <1>12 DEF Complete
    <3>2. Len(p) \in Nat
          BY <1>7, LenProperties
    <3> QED BY <1>1, <1>2, <3>1, <3>2
  <2>2. Len(p) = PageSize
    <3>1. CASE k + PageSize <= Len(q)
      <4>1. m = k + PageSize /\ k < m /\ m - k = PageSize
            BY <1>1, <1>2, <1>5, <3>1
      <4> QED BY <1>7, <4>1
    <3>2. CASE ~(k + PageSize <= Len(q))
      <4>1. m = Len(q)
            BY <1>5, <3>2
      <4>2. CASE k < m
        <5>1. Len(p) = m - k
              BY <1>7, <4>2
        <5> QED BY <1>1, <1>2, <2>1, <4>1, <5>1
      <4>3. CASE ~(k < m)
        <5>1. Len(p) = 0
              BY <1>7, <4>3
        <5> QED BY <1>1, <1>2, <2>1, <4>1, <4>3, <5>1
      <4> QED BY <4>2, <4>3
    <3> QED BY <3>1, <3>2
  <2>3. Read(q, r).out = r.out \o p /\ Read(q, r).page = r.page + 1
        BY <1>8
  <2>4. (Read(q, r).page - 1) * PageSize = k + PageSize
    <3>1. Read(q, r).page - 1 = r.page
          BY <1>1, <2>3
    <3> QED BY <1>3, <3>1
  <2>5. Len(Read(q, r).out) = k + PageSize
        BY <1>9, <2>2, <2>3
  <2> QED BY <2>4, <2>5 DEF Aligned
<1>13. ASSUME ~Read(q, r).shifted
       PROVE  k <= Len(q) /\ \A i \in 1..k : r.out[i] = q[i]
  <2>1. IsPrefix(r.out, q)
    <3>1. Read(q, r).shifted = (r.shifted \/ ~IsPrefix(r.out, q))
          BY <1>8
    <3> QED BY <1>13, <3>1, Zenon
  <2>2. Len(r.out) <= Len(q) /\ \A i \in 1..Len(r.out) : r.out[i] = q[i]
        BY <1>1, <2>1, PrefixOf
  <2> QED BY <1>2, <2>2
<1>14. ASSUME Complete(q, r), ~Read(q, r).shifted, NEW row \in ToSet(q)
       PROVE  row \in ToSet(Read(q, r).out)
  <2>2. PICK i \in 1..Len(q) : row = q[i]
        BY ToSetOf
  <2>3. CASE i <= k
    <3>1. i \in 1..k /\ row = r.out[i]
          BY <1>2, <1>13, <1>14, <2>2, <2>3
    <3>2. row \in ToSet(r.out)
          BY <1>1, <1>2, <3>1, ToSetOf
    <3> QED BY <1>8, <1>9, <3>2
  <2>4. CASE ~(i <= k)
    <3>1. k + Len(p) >= Len(q)
          BY <1>2, <1>4, <1>14 DEF Complete
    <3> DEFINE j == i - k
    <3>2. j \in 1..(m - k) /\ j \in 1..Len(p) /\ k + j = i
      <4>1. Len(p) \in Nat /\ i \in Nat /\ i <= Len(q) /\ k < i
            BY <1>1, <1>2, <1>7, <2>2, <2>4, LenProperties
      <4>2. j \in 1..Len(p) /\ k + j = i
            BY <1>1, <1>2, <3>1, <4>1
      <4>3. Len(p) = m - k
        <5>1. CASE k < m
              BY <1>7, <5>1
        <5>2. CASE ~(k < m)
              BY <1>7, <4>2, <5>2
        <5> QED BY <5>1, <5>2
      <4> QED BY <4>2, <4>3
    <3> HIDE DEF j
    <3>3. row = p[j]
          BY <1>7, <2>2, <3>2
    <3>4. row \in ToSet(p)
          BY <1>7, <3>2, <3>3, ToSetOf
    <3> QED BY <1>8, <1>9, <3>4
  <2> QED BY <2>3, <2>4
<1>15. ASSUME ~Read(q, r).shifted, NEW row \in ToSet(r.out) PROVE row \in ToSet(q)
  <2>1. PICK i \in 1..k : row = r.out[i]
        BY <1>1, <1>2, ToSetOf
  <2>2. i \in 1..Len(q) /\ row = q[i]
        BY <1>1, <1>2, <1>13, <1>15, <2>1
  <2> QED BY <2>2, ToSetOf
<1>16. Read(q, r).out = r.out \o p
       BY <1>8
<1>17. ASSUME Complete(q, r), ~Read(q, r).shifted PROVE ToSet(Read(q, r).out) = ToSet(q)
       BY <1>9, <1>11, <1>14, <1>15, <1>16, <1>17
<1> QED BY <1>9, <1>10, <1>11, <1>12, <1>16, <1>17

-----------------------------------------------------------------------------
(* The services. *)

(* Any step but a grab and the direct deletion: rows only leave, and a     *)
(* torrent leaves the client only to be blocked.                           *)
Shrinks ==
    /\ ServiceInv'
    /\ \A a \in Arrs, d \in Downloads : Claims(a, d)' => Claims(a, d)
    /\ \A d \in Downloads : client'[d] # "absent" => client[d] # "absent"
    /\ \A d \in Downloads : client[d] # "absent" => client'[d] # "absent" \/ d \in blocked'
    /\ blocked \subseteq blocked'

LEMMA StaySame ==
    ASSUME ServiceInv, Untouched, NoFault \/ Fault
    PROVE  Shrinks
<1>1. faults' \in 0..MaxFaults
      BY BoundsAssumption DEF ServiceInv, NoFault, Fault
<1>2. ServiceInv'
      BY <1>1 DEF ServiceInv, Untouched, Whole
<1> QED BY <1>2 DEF Shrinks, Untouched, Claims

(* A download leaves a queue with all its rows. *)
LEMMA LeaveQueue ==
    ASSUME ServiceInv, NEW a \in Arrs, NEW d \in Downloads,
           queue' = [queue EXCEPT ![a] = Without(@, d)]
    PROVE  /\ queue' \in [Arrs -> Seq(Rows)]
           /\ \A b \in Arrs : IsInjective(queue'[b])
           /\ \A b \in Arrs : Whole(ToSet(queue'[b]))
           /\ \A b \in Arrs, e \in Downloads : Claims(b, e)' => Claims(b, e)
<1>1. /\ queue \in [Arrs -> Seq(Rows)] /\ queue[a] \in Seq(Rows)
      /\ \A b \in Arrs : IsInjective(queue[b]) /\ Whole(ToSet(queue[b]))
      BY DEF ServiceInv
<1>2. /\ Without(queue[a], d) \in Seq(Rows)
      /\ ToSet(Without(queue[a], d)) = {row \in ToSet(queue[a]) : row.download # d}
      /\ IsInjective(Without(queue[a], d))
      BY <1>1, WithoutOf
<1>3. \A b \in Arrs : queue'[b] = IF b = a THEN Without(queue[a], d) ELSE queue[b]
      BY <1>1
<1>4. \A b \in Arrs : ToSet(queue'[b]) \subseteq ToSet(queue[b])
      BY <1>2, <1>3
<1>5. Whole(ToSet(queue'[a]))
  <2> DEFINE old == ToSet(queue[a])
             new == ToSet(queue'[a])
  <2>1. Whole(old) /\ new = {row \in old : row.download # d}
        BY <1>1, <1>2, <1>3
  <2> HIDE DEF old, new
  <2>2. ASSUME NEW row \in new, NEW i \in Covers[row.download]
        PROVE  \E other \in new : other.download = row.download /\ other.item = i
    <3>1. row \in old /\ row.download # d
          BY <2>1
    <3>2. PICK other \in old : other.download = row.download /\ other.item = i
          BY <2>1, <3>1 DEF Whole
    <3>3. other \in new
          BY <2>1, <3>1, <3>2
    <3> QED BY <3>2, <3>3
  <2>3. Whole(new)
        BY <2>2 DEF Whole
  <2> QED BY <2>3 DEF new
<1>6. \A b \in Arrs : Whole(ToSet(queue'[b]))
      BY <1>1, <1>3, <1>5
<1>7. queue' \in [Arrs -> Seq(Rows)] /\ \A b \in Arrs : IsInjective(queue'[b])
      BY <1>1, <1>2, <1>3
<1> QED BY <1>4, <1>6, <1>7 DEF Claims

LEMMA Deleting ==
    ASSUME ServiceInv, NEW a \in Arrs, NEW row \in Rows,
           DeleteDone(a, row) \/ DeleteMissed(a, row) \/ DeleteFails(a, row)
    PROVE  Shrinks
<1>1. CASE Untouched
  <2>1. NoFault \/ Fault
        BY DEF DeleteDone, DeleteMissed, DeleteFails
  <2> QED BY <1>1, <2>1, StaySame
<1>2. CASE TakeOut(a, row)
  <2> DEFINE d == row.download
  <2>1. /\ d \in Downloads
        /\ queue' = [queue EXCEPT ![a] = Without(@, d)]
        /\ client' = [client EXCEPT ![d] = "absent"]
        /\ blocked' = blocked \cup {d}
        BY <1>2 DEF TakeOut, Rows
  <2>2. faults' \in 0..MaxFaults
        BY BoundsAssumption DEF ServiceInv, NoFault, Fault, DeleteDone, DeleteMissed, DeleteFails
  <2> HIDE DEF d
  <2>3. client \in [Downloads -> ClientStates] /\ blocked \subseteq Downloads
        BY DEF ServiceInv
  <2>4. client' \in [Downloads -> ClientStates] /\ blocked' \subseteq Downloads
        BY <2>1, <2>3 DEF ClientStates
  <2>5. \A e \in Downloads : client'[e] = IF e = d THEN "absent" ELSE client[e]
        BY <2>1, <2>3
  <2>6. /\ queue' \in [Arrs -> Seq(Rows)]
        /\ \A b \in Arrs : IsInjective(queue'[b])
        /\ \A b \in Arrs : Whole(ToSet(queue'[b]))
        /\ \A b \in Arrs, e \in Downloads : Claims(b, e)' => Claims(b, e)
        BY <2>1, LeaveQueue
  <2>7. ServiceInv'
        BY <2>2, <2>4, <2>6 DEF ServiceInv, Whole
  <2> QED BY <2>1, <2>5, <2>6, <2>7 DEF Shrinks
<1> QED BY <1>1, <1>2 DEF DeleteDone, DeleteMissed, DeleteFails

LEMMA Leaving ==
    ASSUME ServiceInv, NEW a \in Arrs, NEW d \in Downloads, RowsLeave(a, d)
    PROVE  Shrinks
<1>1. queue' = [queue EXCEPT ![a] = Without(@, d)] /\ UNCHANGED <<client, blocked, faults>>
      BY DEF RowsLeave
<1>2. /\ queue' \in [Arrs -> Seq(Rows)]
      /\ \A b \in Arrs : IsInjective(queue'[b])
      /\ \A b \in Arrs : Whole(ToSet(queue'[b]))
      /\ \A b \in Arrs, e \in Downloads : Claims(b, e)' => Claims(b, e)
      BY <1>1, LeaveQueue
<1>3. ServiceInv'
      BY <1>1, <1>2 DEF ServiceInv, Whole
<1> QED BY <1>1, <1>2, <1>3 DEF Shrinks

LEMMA Moving ==
    ASSUME ServiceInv, NEW d \in Downloads, ClientMoves(d)
    PROVE  Shrinks
<1>1. /\ UNCHANGED <<queue, blocked, faults>> /\ client[d] # "absent"
      /\ \/ client' = [client EXCEPT ![d] = "stalled"]
         \/ client' = [client EXCEPT ![d] = "downloading"]
      BY DEF ClientMoves
<1>2. client \in [Downloads -> ClientStates]
      BY DEF ServiceInv
<1>3. /\ client' \in [Downloads -> ClientStates]
      /\ \A e \in Downloads : client'[e] # "absent" <=> client[e] # "absent"
      BY <1>1, <1>2 DEF ClientStates
<1>4. ServiceInv'
      BY <1>1, <1>3 DEF ServiceInv, Whole
<1> QED BY <1>1, <1>3, <1>4 DEF Shrinks, Claims

(* A grab puts all rows of a download in, which had none there. *)
LEMMA Grabbing ==
    ASSUME ServiceInv, grabs \in [Downloads -> Nat], NEW a \in Arrs, NEW d \in Downloads, Grab(a, d)
    PROVE  /\ ServiceInv'
           /\ client[d] = "absent" /\ d \notin blocked
           /\ \A e \in Downloads \ {d} : client'[e] = client[e]
           /\ \A b \in Arrs, e \in Downloads \ {d} : Claims(b, e)' => Claims(b, e)
           /\ grabs' \in [Downloads -> Nat]
<1> DEFINE New == {Row(d, i) : i \in Covers[d]}
           t == SetToSeq(New)
<1>1. /\ d \notin blocked /\ ~Claimed(d) /\ client[d] = "absent"
      /\ queue' = [queue EXCEPT ![a] = @ \o t]
      /\ client' = [client EXCEPT ![d] = "downloading"]
      /\ grabs' = [grabs EXCEPT ![d] = @ + 1]
      /\ UNCHANGED <<blocked, faults>>
      BY DEF Grab
<1>2. /\ queue \in [Arrs -> Seq(Rows)] /\ client \in [Downloads -> ClientStates]
      /\ \A b \in Arrs : IsInjective(queue[b]) /\ Whole(ToSet(queue[b]))
      BY DEF ServiceInv
<1>3. IsFiniteSet(New)
  <2>1. IsFiniteSet(Covers[d])
        BY CoversAssumption
  <2>2. PICK g \in [1..Cardinality(Covers[d]) -> Covers[d]] :
              \A i \in Covers[d] : \E k \in 1..Cardinality(Covers[d]) : g[k] = i
        BY <2>1, FS_CardinalityType DEF ExistsBijection, Bijection, Injection, Surjection
  <2> DEFINE h == [k \in 1..Cardinality(Covers[d]) |-> Row(d, g[k])]
  <2>3. h \in Surjection(1..Cardinality(Covers[d]), New)
        BY <2>2 DEF Surjection
  <2>4. Cardinality(Covers[d]) \in Nat
        BY <2>1, FS_CardinalityType
  <2> QED BY <2>3, <2>4, FS_NatSurjection DEF ExistsSurjection
<1>4. New \subseteq Rows /\ \A row \in New : row.download = d
      BY DEF Row, Rows, Items
<1>5. \A i \in Covers[d] : \E row \in New : row.item = i
  <2> TAKE i \in Covers[d]
  <2>1. Row(d, i) \in New /\ Row(d, i).item = i
        BY DEF Row
  <2> QED BY <2>1
<1> HIDE DEF New
<1>6. t \in Seq(New) /\ IsInjective(t) /\ ToSet(t) = New
      BY <1>3, SetToSeqOf
<1>7. t \in Seq(Rows)
      BY <1>4, <1>6, SeqMonotonic
<1> HIDE DEF t
<1>8. ToSet(queue[a]) \cap New = {}
      BY <1>1, <1>4 DEF Claimed, Claims
<1>9. /\ queue[a] \o t \in Seq(Rows) /\ IsInjective(queue[a] \o t)
      /\ ToSet(queue[a] \o t) = ToSet(queue[a]) \cup New
  <2>1. queue[a] \in Seq(Rows) /\ IsInjective(queue[a])
        BY <1>2
  <2> QED BY <1>6, <1>7, <1>8, <2>1, ConcatProperties, InjectiveConcat, ToSetOfConcat
<1>10. \A b \in Arrs : queue'[b] = IF b = a THEN queue[a] \o t ELSE queue[b]
       BY <1>1, <1>2
<1>11. Whole(ToSet(queue[a]) \cup New)
  <2> DEFINE old == ToSet(queue[a])
  <2>1. Whole(old)
        BY <1>2
  <2> HIDE DEF old
  <2>2. ASSUME NEW row \in old \cup New, NEW i \in Covers[row.download]
        PROVE  \E other \in old \cup New : other.download = row.download /\ other.item = i
    <3>1. CASE row \in old
          BY <2>1, <3>1 DEF Whole
    <3>2. CASE row \in New
          BY <1>4, <1>5, <3>2
    <3> QED BY <3>1, <3>2
  <2>3. Whole(old \cup New)
        BY <2>2 DEF Whole
  <2> QED BY <2>3 DEF old
<1>12. \A b \in Arrs : Whole(ToSet(queue'[b]))
       BY <1>2, <1>9, <1>10, <1>11
<1>13. queue' \in [Arrs -> Seq(Rows)] /\ \A b \in Arrs : IsInjective(queue'[b])
       BY <1>1, <1>2, <1>9, <1>10
<1>14. client' \in [Downloads -> ClientStates] /\ \A e \in Downloads \ {d} : client'[e] = client[e]
       BY <1>1, <1>2 DEF ClientStates
<1>15. ServiceInv'
       BY <1>1, <1>12, <1>13, <1>14 DEF ServiceInv, Whole
<1>16. \A b \in Arrs, e \in Downloads \ {d} : Claims(b, e)' => Claims(b, e)
       BY <1>4, <1>9, <1>10 DEF Claims
<1>17. grabs' \in [Downloads -> Nat]
       BY <1>1
<1> QED BY <1>1, <1>14, <1>15, <1>16, <1>17

-----------------------------------------------------------------------------
(* nuke_stalled.py. *)

(* What the services do meanwhile, grabs included. *)
LEMMA NukeRests ==
    ASSUME ServiceInv, NukeInv, Shrinks, nuke' = nuke
    PROVE  NukeInv'
<1>1. ListedStays'
      BY DEF NukeInv, ListedStays, Shrinks, Nukes
<1>2. NotFoundIsUnclaimed'
      BY DEF NukeInv, NotFoundIsUnclaimed, Asked, Shrinks, Nukes, Arrs
<1> QED BY <1>1, <1>2 DEF NukeInv, Aligned

LEMMA NukeUnderGrab ==
    ASSUME ServiceInv, NukeInv, grabs \in [Downloads -> Nat],
           NEW a \in Arrs, NEW d \in Downloads, Grab(a, d), nuke' = nuke
    PROVE  NukeInv'
<1>1. /\ client[d] = "absent" /\ d \notin blocked /\ blocked' = blocked
      /\ \A e \in Downloads \ {d} : client'[e] = client[e]
      /\ \A b \in Arrs, e \in Downloads \ {d} : Claims(b, e)' => Claims(b, e)
      BY Grabbing DEF Grab
<1>2. nuke.pc # "idle" => d \notin nuke.todo \cup {nuke.hash}
      BY <1>1 DEF NukeInv, ListedStays
<1>3. ListedStays'
      BY <1>1, <1>2 DEF NukeInv, ListedStays, Nukes
<1>4. NotFoundIsUnclaimed'
      BY <1>1, <1>2 DEF NukeInv, NotFoundIsUnclaimed, Asked, Nukes, Arrs
<1> QED BY <1>3, <1>4 DEF NukeInv, Aligned

LEMMA NoReadingOf == NoReading \in Readings /\ Aligned(NoReading)
<1>1. <<>> \in Seq(Rows) /\ Len(<<>>) = 0
      BY EmptySeq
<1>2. (1 - 1) * PageSize = 0
      BY BoundsAssumption
<1> QED BY <1>1, <1>2 DEF NoReading, Readings, Aligned

(* At the start of a torrent nothing has been asked. *)
LEMMA AtTarget ==
    ASSUME NEW todo \in SUBSET Downloads, nuke' \in NextTarget(todo),
           \A d \in todo : client'[d] # "absent" \/ d \in blocked'
    PROVE  NukeInv'
<1>1. CASE nuke' = NoNuke
  <2>1. nuke' \in Nukes
        BY <1>1, NoReadingOf DEF NoNuke, Nukes, Arrs
  <2> QED BY <1>1, <2>1 DEF NoNuke, NukeInv, ListedStays, NotFoundIsUnclaimed
<1>2. ASSUME NEW d \in todo, nuke' = [NoNuke EXCEPT !.pc = "read", !.hash = d, !.todo = todo \ {d}]
      PROVE  NukeInv'
  <2>1. nuke' = [pc |-> "read", todo |-> todo \ {d}, hash |-> d, arr |-> "radarr",
                 reading |-> NoReading, row |-> None, answers |-> {}, shifted |-> FALSE]
        BY <1>2 DEF NoNuke
  <2>2. nuke' \in Nukes
        BY <2>1, NoReadingOf DEF Nukes, Arrs
  <2>3. ListedStays'
        BY <2>1 DEF ListedStays
  <2>4. NotFoundIsUnclaimed'
        BY <2>1 DEF NotFoundIsUnclaimed, Asked
  <2> QED BY <2>1, <2>2, <2>3, <2>4, NoReadingOf DEF NukeInv, Aligned
<1> QED BY <1>1, <1>2 DEF NextTarget

(* An answer other than "not_found" settles the torrent. *)
LEMMA OtherAnswer ==
    ASSUME ServiceInv, NukeInv, Shrinks, nuke.pc \in {"read", "remove"},
           NEW answer \in Answers \ {"not_found"}, nuke' = Answered(answer)
    PROVE  NukeInv'
<1>1. nuke' = [nuke EXCEPT !.answers = @ \cup {answer}, !.reading = NoReading, !.row = None,
                           !.arr = "sonarr",
                           !.pc = IF nuke.arr = "radarr" THEN "read" ELSE "decide"]
      BY DEF Answered
<1>2. nuke \in Nukes
      BY DEF NukeInv
<1>3. nuke' \in Nukes
  <2>1. nuke' = [pc |-> IF nuke.arr = "radarr" THEN "read" ELSE "decide",
                 todo |-> nuke.todo, hash |-> nuke.hash, arr |-> "sonarr",
                 reading |-> NoReading, row |-> None, answers |-> nuke.answers \cup {answer},
                 shifted |-> nuke.shifted]
        BY <1>1, <1>2 DEF Nukes
  <2>2. nuke.answers \cup {answer} \in SUBSET Answers
        BY <1>2 DEF Nukes
  <2> QED BY <1>2, <2>1, <2>2, NoReadingOf DEF Nukes, Arrs
<1>4. /\ nuke'.pc \in {"read", "decide"} /\ nuke'.row = None /\ nuke'.reading = NoReading
      /\ nuke'.hash = nuke.hash /\ nuke'.todo = nuke.todo /\ answer \in nuke'.answers
      BY <1>1, <1>2 DEF Nukes
<1>5. ListedStays'
      BY <1>4 DEF NukeInv, ListedStays, Shrinks, Nukes
<1>6. NotFoundIsUnclaimed'
      BY <1>4 DEF NotFoundIsUnclaimed
<1>7. nuke.hash \in Downloads \ nuke.todo
      BY DEF NukeInv
<1> QED BY <1>3, <1>4, <1>5, <1>6, <1>7, NoReadingOf DEF NukeInv, Aligned

(* A page of a queue: more to read, a row found, or "not_found", which is  *)
(* true of the queue if nothing has slipped.                               *)
LEMMA NukeReads ==
    ASSUME ServiceInv, NukeInv, NukeRead
    PROVE  NukeInv' /\ Shrinks
<1> DEFINE q == queue[nuke.arr]
           now == Read(q, nuke.reading)
<1>1. /\ nuke.pc = "read" /\ Untouched /\ NoFault
      /\ nuke' = IF ~Complete(q, nuke.reading) THEN [nuke EXCEPT !.reading = now]
                  ELSE IF PlacesOf(now, nuke.hash) # {}
                  THEN [nuke EXCEPT !.pc = "remove", !.reading = NoReading,
                                    !.row = FirstRow(now, nuke.hash)]
                  ELSE [Answered("not_found") EXCEPT !.shifted = @ \/ now.shifted]
      BY DEF NukeRead
<1>2. Shrinks
      BY <1>1, StaySame
<1>3. nuke \in Nukes /\ nuke.reading \in Readings /\ nuke.arr \in Arrs /\ q \in Seq(Rows)
      BY DEF NukeInv, Nukes, ServiceInv
<1>4. Aligned(nuke.reading) /\ nuke.hash \in Downloads \ nuke.todo
      BY <1>1 DEF NukeInv
<1>5. /\ now \in Readings
      /\ ~Complete(q, nuke.reading) => Aligned(now)
      /\ Complete(q, nuke.reading) /\ ~now.shifted => ToSet(now.out) = ToSet(q)
      BY <1>3, <1>4, ReadOf
<1> HIDE DEF now
<1>6. /\ PlacesOf(now, nuke.hash) = {} =>
            \A row \in ToSet(now.out) : row.download # nuke.hash
      /\ PlacesOf(now, nuke.hash) # {} => FirstRow(now, nuke.hash) \in ToSet(now.out)
      BY <1>5, FirstRowOf
<1>7. ToSet(now.out) \subseteq Rows
      BY <1>5, ToSetOf DEF Readings
<1>8. CASE ~Complete(q, nuke.reading)
  <2>1. nuke' = [nuke EXCEPT !.reading = now]
        BY <1>1, <1>8
  <2>2. /\ nuke' \in Nukes /\ nuke'.reading = now
        /\ nuke'.pc = nuke.pc /\ nuke'.todo = nuke.todo /\ nuke'.hash = nuke.hash
        /\ nuke'.arr = nuke.arr /\ nuke'.row = nuke.row /\ nuke'.answers = nuke.answers
        /\ nuke'.shifted = nuke.shifted
        BY <1>3, <1>5, <2>1 DEF Nukes
  <2>3. ListedStays'
        BY <1>2, <2>2 DEF NukeInv, ListedStays, Shrinks, Nukes
  <2>4. NotFoundIsUnclaimed'
        BY <1>2, <2>2 DEF NukeInv, NotFoundIsUnclaimed, Asked, Shrinks, Nukes, Arrs
  <2> QED BY <1>2, <1>5, <1>8, <2>2, <2>3, <2>4 DEF NukeInv, Aligned
<1>9. CASE Complete(q, nuke.reading) /\ PlacesOf(now, nuke.hash) # {}
  <2>1. nuke' = [nuke EXCEPT !.pc = "remove", !.reading = NoReading,
                             !.row = FirstRow(now, nuke.hash)]
        BY <1>1, <1>9
  <2>2. FirstRow(now, nuke.hash) \in Rows
        BY <1>6, <1>7, <1>9
  <2>3. /\ nuke' \in Nukes /\ nuke'.pc = "remove" /\ nuke'.row # None
        /\ nuke'.todo = nuke.todo /\ nuke'.hash = nuke.hash /\ nuke'.arr = nuke.arr
        /\ nuke'.answers = nuke.answers /\ nuke'.shifted = nuke.shifted
        BY <1>3, <2>1, <2>2, NoReadingOf, NoneAssumption DEF Nukes
  <2>4. ListedStays'
        BY <1>1, <1>2, <2>3 DEF NukeInv, ListedStays, Shrinks, Nukes
  <2>5. NotFoundIsUnclaimed'
        BY <1>1, <1>2, <2>3 DEF NukeInv, NotFoundIsUnclaimed, Asked, Shrinks, Nukes, Arrs
  <2> QED BY <1>2, <1>4, <2>3, <2>4, <2>5 DEF NukeInv
<1>10. CASE Complete(q, nuke.reading) /\ PlacesOf(now, nuke.hash) = {}
  <2>1. nuke' = [Answered("not_found") EXCEPT !.shifted = @ \/ now.shifted]
        BY <1>1, <1>10
  <2>2. now.shifted \in BOOLEAN
        BY <1>5 DEF Readings
  <2>3. nuke' = [pc |-> IF nuke.arr = "radarr" THEN "read" ELSE "decide",
                 todo |-> nuke.todo, hash |-> nuke.hash, arr |-> "sonarr",
                 reading |-> NoReading, row |-> None, answers |-> nuke.answers \cup {"not_found"},
                 shifted |-> nuke.shifted \/ now.shifted]
        BY <1>3, <2>1 DEF Nukes, Answered
  <2>4. nuke.answers \cup {"not_found"} \in SUBSET Answers
        BY <1>3 DEF Nukes, Answers
  <2>5. nuke' \in Nukes
        BY <1>3, <2>2, <2>3, <2>4, NoReadingOf DEF Nukes, Arrs
  <2>6. /\ nuke'.pc = (IF nuke.arr = "radarr" THEN "read" ELSE "decide")
        /\ nuke'.row = None /\ nuke'.reading = NoReading /\ nuke'.arr = "sonarr"
        /\ nuke'.hash = nuke.hash /\ nuke'.todo = nuke.todo
        /\ nuke'.answers = nuke.answers \cup {"not_found"}
        BY <2>3
  <2>7. nuke'.shifted = (nuke.shifted \/ now.shifted)
        BY <2>3
  <2>8. ListedStays'
        BY <1>1, <1>2, <2>6 DEF NukeInv, ListedStays, Shrinks, Nukes
  <2>9. NotFoundIsUnclaimed'
    <3>1. SUFFICES ASSUME nuke'.answers \subseteq {"not_found"}, ~nuke'.shifted,
                          client'[nuke.hash] # "absent", NEW a \in Asked'
                   PROVE  ~Claims(a, nuke.hash)'
          BY <2>6 DEF NotFoundIsUnclaimed
    <3>2. ~nuke.shifted /\ ~now.shifted
          BY <2>7, <3>1, Zenon
    <3>3. client[nuke.hash] # "absent" /\ nuke.answers \subseteq {"not_found"}
          BY <1>2, <1>4, <2>6, <3>1 DEF Shrinks
    <3>4. \A b \in Asked : ~Claims(b, nuke.hash)
          BY <1>1, <3>2, <3>3 DEF NukeInv, NotFoundIsUnclaimed
    <3>5. ~Claims(nuke.arr, nuke.hash)
      <4>1. ToSet(now.out) = ToSet(q)
            BY <1>5, <1>10, <3>2
      <4>2. \A row \in ToSet(q) : row.download # nuke.hash
            BY <1>6, <1>10, <4>1
      <4> QED BY <4>2 DEF Claims
    <3>6. a \in Asked \/ a = nuke.arr
          BY <1>1, <1>3, <2>6, <3>1 DEF Asked, Arrs
    <3>7. a \in Arrs
          BY DEF Asked, Arrs
    <3>8. ~Claims(a, nuke.hash)
          BY <3>4, <3>5, <3>6
    <3>9. \A d \in Downloads : d = nuke.hash => ~Claims(a, d)
          BY <3>8
    <3>10. \A d \in Downloads : d = nuke'.hash => ~Claims(a, d)'
           BY <1>2, <2>6, <3>7, <3>9 DEF Shrinks
    <3> QED BY <1>4, <2>6, <3>10 DEF Claims
  <2> QED BY <1>2, <1>4, <2>5, <2>6, <2>8, <2>9, NoReadingOf DEF NukeInv, Aligned
<1> QED BY <1>8, <1>9, <1>10

(* What the step of a run does to it, and to the services.                 *)
LEMMA NukeSteps ==
    ASSUME ServiceInv, NukeInv, NukeStep
    PROVE  NukeInv' /\ ServiceInv'
<1>1. CASE NukeList
  <2>1. Shrinks
        BY <1>1, StaySame DEF NukeList
  <2> DEFINE stalled == {d \in Downloads : client[d] = "stalled"}
  <2>2. nuke' \in NextTarget(stalled) /\ client' = client
        BY <1>1 DEF NukeList, Untouched
  <2>3. stalled \in SUBSET Downloads /\ \A d \in stalled : client'[d] # "absent"
        BY <2>2
  <2> HIDE DEF stalled
  <2> QED BY <2>1, <2>2, <2>3, AtTarget DEF Shrinks
<1>2. CASE NukeRead
      BY <1>2, NukeReads DEF Shrinks
<1>3. CASE NukeReadFails
  <2>1. Shrinks /\ nuke.pc = "read" /\ nuke' = Answered("queue_error")
        BY <1>3, StaySame DEF NukeReadFails
  <2>2. "queue_error" \in Answers \ {"not_found"}
        BY DEF Answers
  <2> QED BY <2>1, <2>2, OtherAnswer DEF Shrinks
<1>4. CASE NukeRemove
  <2>1. nuke.pc = "remove" /\ nuke.arr \in Arrs /\ nuke.row \in Rows
        BY <1>4 DEF NukeRemove, NukeInv, Nukes
  <2>2. Shrinks
        BY <1>4, <2>1, Deleting DEF NukeRemove
  <2>3. PICK answer \in {"removed", "delete_failed"} : nuke' = Answered(answer)
        BY <1>4 DEF NukeRemove
  <2>4. answer \in Answers \ {"not_found"}
        BY DEF Answers
  <2> QED BY <2>1, <2>2, <2>3, <2>4, OtherAnswer DEF Shrinks
<1>5. CASE NukeDecide
  <2>1. /\ nuke.pc = "decide" /\ nuke' \in NextTarget(nuke.todo)
        /\ UNCHANGED <<queue, blocked>>
        /\ client' = client \/ client' = [client EXCEPT ![nuke.hash] = "absent"]
        /\ NoFault \/ Fault
        BY <1>5 DEF NukeDecide
  <2>2. nuke.hash \in Downloads /\ nuke.todo \in SUBSET Downloads /\ nuke.hash \notin nuke.todo
        BY <2>1 DEF NukeInv, Nukes
  <2>3. client \in [Downloads -> ClientStates]
        BY DEF ServiceInv
  <2>4. /\ client' \in [Downloads -> ClientStates]
        /\ \A d \in nuke.todo : client'[d] = client[d]
        BY <2>1, <2>2, <2>3 DEF ClientStates
  <2>5. faults' \in 0..MaxFaults
        BY <2>1, BoundsAssumption DEF ServiceInv, NoFault, Fault
  <2>6. ServiceInv'
        BY <2>1, <2>4, <2>5 DEF ServiceInv, Whole
  <2>7. \A d \in nuke.todo : client'[d] # "absent" \/ d \in blocked'
        BY <2>1, <2>4 DEF NukeInv, ListedStays
  <2> QED BY <2>1, <2>2, <2>6, <2>7, AtTarget
<1> QED BY <1>1, <1>2, <1>3, <1>4, <1>5 DEF NukeStep

-----------------------------------------------------------------------------
(* unaired-guard.py. *)

LEMMA GuardRests ==
    ASSUME GuardInv, guard' = guard, unaired' = unaired
    PROVE  GuardInv'
  BY DEF GuardInv, Aligned, ReapIsUnaired, Whole

LEMMA GuardIdles ==
    ASSUME guard' = NoGuard
    PROVE  GuardInv'
<1>1. guard' \in Guards
      BY NoReadingOf DEF NoGuard, Guards
<1> QED BY <1>1 DEF NoGuard, GuardInv, ReapIsUnaired

(* What was read to the end without a row that slipped is the queue, and   *)
(* so it is whole.                                                         *)
LEMMA GuardReads ==
    ASSUME ServiceInv, GuardInv, GuardRead
    PROVE  GuardInv'
<1> DEFINE q == queue["sonarr"]
           now == Read(q, guard.reading)
<1>1. /\ guard.pc = "read"
      /\ guard' = IF ~Complete(q, guard.reading) THEN [guard EXCEPT !.reading = now]
                   ELSE IF now.out = <<>> THEN NoGuard
                   ELSE [guard EXCEPT !.pc = "fetch", !.reading = now]
      BY DEF GuardRead
<1>2. guard \in Guards /\ guard.reading \in Readings /\ Aligned(guard.reading) /\ guard.reap = {}
      BY <1>1 DEF GuardInv, Guards
<1>3. q \in Seq(Rows) /\ Whole(ToSet(q))
      BY DEF ServiceInv, Arrs
<1>4. /\ now \in Readings
      /\ ~Complete(q, guard.reading) => Aligned(now)
      /\ Complete(q, guard.reading) /\ ~now.shifted => ToSet(now.out) = ToSet(q)
      BY <1>2, <1>3, ReadOf
<1> HIDE DEF q, now
<1>5. CASE ~Complete(q, guard.reading)
  <2>1. /\ guard' \in Guards /\ guard'.reading = now
        /\ guard'.pc = "read" /\ guard'.reap = {}
        BY <1>1, <1>2, <1>4, <1>5 DEF Guards
  <2> QED BY <1>4, <1>5, <2>1 DEF GuardInv, Aligned, ReapIsUnaired
<1>6. CASE Complete(q, guard.reading) /\ now.out = <<>>
      BY <1>1, <1>6, GuardIdles
<1>7. CASE Complete(q, guard.reading) /\ now.out # <<>>
  <2>1. /\ guard' \in Guards /\ guard'.reading = now
        /\ guard'.pc = "fetch" /\ guard'.reap = {}
        BY <1>1, <1>2, <1>4, <1>7 DEF Guards
  <2>2. ~now.shifted => Whole(ToSet(now.out))
        BY <1>3, <1>4, <1>7
  <2> QED BY <2>1, <2>2 DEF GuardInv, ReapIsUnaired, Whole
<1> QED BY <1>5, <1>6, <1>7

(* A download of which every row that was read is unaired is unaired, for  *)
(* a whole reading has a row of each of its episodes.                      *)
LEMMA GuardFetches ==
    ASSUME GuardInv, GuardFetch
    PROVE  GuardInv'
<1> DEFINE read == guard.reading
           rows(d) == {row \in ToSet(read.out) : row.download = d}
           found == {row.download : row \in ToSet(read.out)}
           chosen == {d \in found : Reapable(rows(d))}
           reap == {FirstRow(read, d) : d \in chosen}
<1>1. /\ guard.pc = "fetch" /\ unaired' = unaired
      /\ guard' = IF reap = {} THEN NoGuard
                   ELSE [NoGuard EXCEPT !.pc = "reap", !.reap = reap,
                                        !.shifted = read.shifted]
      BY DEF GuardFetch
<1>2. read \in Readings /\ (~read.shifted => Whole(ToSet(read.out)))
      BY <1>1 DEF GuardInv, Guards, ReapIsUnaired
<1>3. ToSet(read.out) \subseteq Rows
      BY <1>2, ToSetOf DEF Readings
<1> HIDE DEF read
<1>4. ASSUME NEW d \in chosen
      PROVE  /\ FirstRow(read, d) \in Rows /\ FirstRow(read, d).download = d
             /\ ~read.shifted => Covers[d] \subseteq unaired
  <2>1. PICK row \in ToSet(read.out) : row.download = d
        OBVIOUS
  <2>2. FirstRow(read, d) \in ToSet(read.out) /\ FirstRow(read, d).download = d
        BY <1>2, <2>1, FirstRowOf
  <2>3. ASSUME ~read.shifted, NEW i \in Covers[d] PROVE i \in unaired
    <3>1. PICK other \in ToSet(read.out) : other.download = d /\ other.item = i
          BY <1>2, <2>1, <2>3 DEF Whole
    <3> QED BY <3>1 DEF Reapable
  <2> QED BY <1>3, <2>2, <2>3
<1>5. reap \subseteq Rows
      BY <1>4
<1>6. ~read.shifted => \A row \in reap : Covers[row.download] \subseteq unaired
      BY <1>4
<1> HIDE DEF reap
<1>7. CASE reap = {}
      BY <1>1, <1>7, GuardIdles
<1>8. CASE reap # {}
  <2>1. guard' = [pc |-> "reap", reading |-> NoReading, reap |-> reap, shifted |-> read.shifted]
        BY <1>1, <1>8 DEF NoGuard
  <2>2. guard' \in Guards
        BY <1>2, <1>5, <2>1, NoReadingOf DEF Guards, Readings
  <2> QED BY <1>1, <1>6, <1>8, <2>1, <2>2 DEF GuardInv, ReapIsUnaired
<1> QED BY <1>7, <1>8

LEMMA GuardSteps ==
    ASSUME ServiceInv, GuardInv, GuardStep
    PROVE  GuardInv' /\ Shrinks
<1>1. CASE GuardStart
  <2>1. guard' = [NoGuard EXCEPT !.pc = "read"] /\ Shrinks
        BY <1>1, StaySame DEF GuardStart
  <2>2. guard' \in Guards
        BY <2>1, NoReadingOf DEF NoGuard, Guards
  <2> QED BY <2>1, <2>2, NoReadingOf DEF NoGuard, GuardInv, ReapIsUnaired, Aligned
<1>2. CASE GuardRead
      BY <1>2, GuardReads, StaySame DEF GuardRead
<1>3. CASE GuardFetch
      BY <1>3, GuardFetches, StaySame DEF GuardFetch
<1>4. CASE GuardFails
      BY <1>4, GuardIdles, StaySame DEF GuardFails
<1>5. CASE GuardReap
  <2>1. PICK row \in guard.reap :
              /\ \/ DeleteDone("sonarr", row)
                 \/ DeleteMissed("sonarr", row)
                 \/ DeleteFails("sonarr", row)
              /\ guard' = IF guard.reap = {row} THEN NoGuard
                          ELSE [guard EXCEPT !.reap = @ \ {row}]
        BY <1>5 DEF GuardReap
  <2>2. guard.pc = "reap" /\ guard \in Guards /\ row \in Rows /\ unaired' = unaired
        BY <1>5 DEF GuardReap, GuardInv, Guards
  <2>3. Shrinks
        BY <2>1, <2>2, Deleting DEF Arrs
  <2>4. CASE guard.reap = {row}
        BY <2>1, <2>3, <2>4, GuardIdles
  <2>5. CASE guard.reap # {row}
    <3>1. /\ guard' \in Guards /\ guard'.pc = "reap" /\ guard'.shifted = guard.shifted
          /\ guard'.reap = guard.reap \ {row} /\ guard'.reap # {}
          BY <2>1, <2>2, <2>5 DEF Guards
    <3> QED BY <2>2, <2>3, <3>1 DEF GuardInv, ReapIsUnaired
  <2> QED BY <2>4, <2>5
<1> QED BY <1>1, <1>2, <1>3, <1>4, <1>5 DEF GuardStep

-----------------------------------------------------------------------------
(* Init, Next, and what IInv says. *)

LEMMA InitInv == Init => IInv
<1> SUFFICES ASSUME Init PROVE IInv
    OBVIOUS
<1>1. \A a \in Arrs : queue[a] = <<>>
      BY DEF Init
<1>2. <<>> \in Seq(Rows) /\ ToSet(<<>>) = {} /\ IsInjective(<<>>)
      BY EmptySeq DEF ToSet, IsInjective
<1>3. ServiceInv
  <2>1. \A a \in Arrs : Whole(ToSet(queue[a])) /\ IsInjective(queue[a])
        BY <1>1, <1>2 DEF Whole
  <2>2. faults \in 0..MaxFaults
        BY BoundsAssumption DEF Init
  <2> QED BY <1>2, <2>1, <2>2 DEF Init, ServiceInv, ClientStates
<1>4. nuke \in Nukes
      BY NoReadingOf DEF Init, NoNuke, Nukes, Arrs
<1>5. NukeInv
      BY <1>4 DEF Init, NoNuke, NukeInv, ListedStays, NotFoundIsUnclaimed
<1>6. guard \in Guards
      BY NoReadingOf DEF Init, NoGuard, Guards
<1>7. GuardInv
      BY <1>6 DEF Init, NoGuard, GuardInv, ReapIsUnaired
<1> QED BY <1>3, <1>5, <1>7 DEF Init, IInv

LEMMA StepInv == IInv /\ [Next]_vars => IInv'
<1> SUFFICES ASSUME IInv, [Next]_vars PROVE IInv'
    OBVIOUS
<1> USE DEF IInv
<1>1. CASE NukeStep
  <2>1. UNCHANGED <<unaired, guard, grabs>>
        BY <1>1 DEF NukeStep, NukeList, NukeRead, NukeReadFails, NukeRemove, NukeDecide
  <2> QED BY <1>1, <2>1, NukeSteps, GuardRests
<1>2. CASE GuardStep
  <2>1. UNCHANGED <<unaired, nuke, grabs>>
        BY <1>2 DEF GuardStep, GuardStart, GuardRead, GuardFetch, GuardFails, GuardReap
  <2>2. GuardInv' /\ Shrinks
        BY <1>2, GuardSteps
  <2> QED BY <2>1, <2>2, NukeRests DEF Shrinks
<1>3. ASSUME NEW d \in Downloads, ClientMoves(d) PROVE IInv'
  <2>1. UNCHANGED <<unaired, nuke, guard, grabs>> /\ Shrinks
        BY <1>3, Moving DEF ClientMoves
  <2> QED BY <2>1, NukeRests, GuardRests DEF Shrinks
<1>4. ASSUME NEW d \in Downloads, NEW a \in Arrs, RowsLeave(a, d) PROVE IInv'
  <2>1. UNCHANGED <<unaired, nuke, guard, grabs>> /\ Shrinks
        BY <1>4, Leaving DEF RowsLeave
  <2> QED BY <2>1, NukeRests, GuardRests DEF Shrinks
<1>5. ASSUME NEW d \in Downloads, NEW a \in Arrs, Grab(a, d) PROVE IInv'
  <2>1. UNCHANGED <<unaired, nuke, guard>>
        BY <1>5 DEF Grab
  <2>2. ServiceInv' /\ grabs' \in [Downloads -> Nat]
        BY <1>5, Grabbing
  <2>3. NukeInv'
        BY <1>5, <2>1, NukeUnderGrab
  <2>4. GuardInv'
        BY <2>1, GuardRests
  <2> QED BY <2>1, <2>2, <2>3, <2>4
<1>6. CASE UNCHANGED vars
  <2>1. UNCHANGED <<queue, client, blocked, unaired, nuke, guard, grabs, faults>>
        BY <1>6 DEF vars
  <2>2. ServiceInv'
        BY <2>1 DEF ServiceInv, Whole
  <2>3. Shrinks
        BY <2>1, <2>2 DEF Shrinks, Claims
  <2> QED BY <2>1, <2>3, NukeRests, GuardRests DEF Shrinks
<1> QED BY <1>1, <1>2, <1>3, <1>4, <1>5, <1>6 DEF Next

(* Types hold; the run of nuke_stalled.py is at a torrent of its list, and *)
(* the guard reaps rows it has read.                                       *)
THEOREM TypeCorrect == Spec => []TypeOK
<1>1. IInv => TypeOK
  <2> SUFFICES ASSUME IInv PROVE TypeOK
      OBVIOUS
  <2>1. guard \in Guards /\ nuke \in Nukes
        BY DEF IInv, GuardInv, NukeInv
  <2> QED BY <2>1 DEF IInv, ServiceInv, NukeInv, GuardInv, TypeOK, Guards, Nukes, Answers
<1> QED BY <1>1, InitInv, StepInv, PTL DEF Spec

(* nuke_stalled.py deletes no torrent that an Arr has in its queue, unless *)
(* it is blocklisted as well or a row went while the queues were read.     *)
THEOREM DirectUnclaimed == Spec => DirectIsUnclaimed
<1>1. ASSUME IInv, [Next]_vars, NEW d \in Downloads,
             client[d] # "absent", client'[d] = "absent", Claimed(d)
      PROVE  d \in blocked' \/ nuke.shifted
  <2> USE DEF IInv
  <2>1. ASSUME Shrinks PROVE d \in blocked'
        BY <1>1, <2>1 DEF Shrinks
  <2>2. CASE NukeStep
    <3>1. CASE NukeDecide
      <4>1. /\ nuke.pc = "decide" /\ nuke.answers = {"not_found"}
            /\ client' = [client EXCEPT ![nuke.hash] = "absent"]
            BY <1>1, <3>1 DEF NukeDecide
      <4>2. d = nuke.hash
            BY <1>1, <4>1 DEF ServiceInv
      <4>3. ~nuke.shifted => \A a \in Arrs : ~Claims(a, nuke.hash)
            BY <1>1, <4>1, <4>2 DEF NukeInv, NotFoundIsUnclaimed, Asked
      <4> QED BY <1>1, <4>2, <4>3 DEF Claimed
    <3>2. CASE NukeRemove
      <4>1. nuke.arr \in Arrs /\ nuke.row \in Rows
            BY <1>1, <3>2 DEF NukeRemove, NukeInv, Nukes
      <4> QED BY <1>1, <2>1, <3>2, <4>1, Deleting DEF NukeRemove
    <3>3. CASE ~NukeDecide /\ ~NukeRemove
          BY <1>1, <2>2, <3>3 DEF NukeStep, NukeList, NukeRead, NukeReadFails, Untouched
    <3> QED BY <3>1, <3>2, <3>3
  <2>3. CASE GuardStep
        BY <1>1, <2>1, <2>3, GuardSteps
  <2>4. ASSUME NEW e \in Downloads, ClientMoves(e) PROVE d \in blocked'
        BY <1>1, <2>1, <2>4, Moving
  <2>5. ASSUME NEW e \in Downloads, NEW a \in Arrs, RowsLeave(a, e) PROVE d \in blocked'
        BY <1>1, <2>1, <2>5, Leaving
  <2>6. ASSUME NEW e \in Downloads, NEW a \in Arrs, Grab(a, e) PROVE FALSE
    <3>1. client[e] = "absent" /\ \A f \in Downloads \ {e} : client'[f] = client[f]
          BY <1>1, <2>6, Grabbing
    <3> QED BY <1>1, <3>1
  <2>7. ~UNCHANGED vars
        BY <1>1 DEF vars
  <2> QED BY <1>1, <2>2, <2>3, <2>4, <2>5, <2>6, <2>7 DEF Next
<1>2. IInv /\ [Next]_vars =>
        [\A d \in Downloads :
            client[d] # "absent" /\ client'[d] = "absent" /\ Claimed(d) =>
               d \in blocked' \/ nuke.shifted]_vars
      BY <1>1
<1> QED BY <1>2, InitInv, StepInv, PTL DEF Spec, DirectIsUnclaimed

(* unaired-guard.py blocks a download only if all of it is unaired, unless *)
(* a row went while the queue was read.                                    *)
THEOREM ReapedUnaired == Spec => ReapedIsUnaired
<1>1. ASSUME IInv, [Next]_vars, guard' # guard, NEW d \in Downloads \ blocked, d \in blocked'
      PROVE  guard.shifted \/ Covers[d] \subseteq unaired
  <2>1. GuardReap
    <3>1. GuardStep
          BY <1>1 DEF Next, vars, NukeStep, NukeList, NukeRead, NukeReadFails, NukeRemove,
                      NukeDecide, ClientMoves, Grab, RowsLeave
    <3> QED BY <1>1, <3>1 DEF GuardStep, GuardStart, GuardRead, GuardFetch, GuardFails, Untouched
  <2>2. PICK row \in guard.reap :
              \/ DeleteDone("sonarr", row)
              \/ DeleteMissed("sonarr", row)
              \/ DeleteFails("sonarr", row)
        BY <2>1 DEF GuardReap
  <2>3. blocked' = blocked \cup {row.download}
        BY <1>1, <2>2 DEF DeleteDone, DeleteMissed, DeleteFails, Untouched, TakeOut
  <2>4. d = row.download
        BY <1>1, <2>3
  <2> QED BY <1>1, <2>1, <2>4 DEF IInv, GuardInv, ReapIsUnaired, GuardReap
<1>2. IInv /\ [Next]_vars =>
        [guard' # guard =>
            \A d \in Downloads \ blocked :
               d \in blocked' => guard.shifted \/ Covers[d] \subseteq unaired]_vars
      BY <1>1
<1> QED BY <1>2, InitInv, StepInv, PTL DEF Spec, ReapedIsUnaired
=============================================================================
