--------------------------- MODULE SkeletonProofs ---------------------------
(***************************************************************************)
(* Proofs about Skeleton for every block tree, every set of announced      *)
(* heads and every configuration of back steps and merges: its types, that *)
(* a fill is never stuck and that no block is lost by its hash.            *)
(***************************************************************************)
EXTENDS Skeleton, WellFoundedInduction, FiniteSetTheorems, TLAPS

------------------------------------------------------------------------------
(* The block tree.                                                          *)

(* What the proofs use of a block and its ancestors. *)
LEMMA BlockFacts ==
    ASSUME NEW b \in Blocks
    PROVE  /\ Number[b] \in Nat
           /\ Number[b] = 0 <=> b = Genesis
           /\ Path[b][Number[b]] = b
           /\ \A n \in 0 .. Number[b] :
                /\ Path[b][n] \in Blocks
                /\ Number[Path[b][n]] = n
                /\ \A m \in 0 .. n : Path[Path[b][n]][m] = Path[b][m]
           /\ ParentHash(b) \in Blocks \cup {NoBlock}
           /\ b # Genesis => Parent(b) \in Blocks /\ Number[Parent(b)] = Number[b] - 1
<1>1. /\ Number[b] \in Nat
      /\ Number[b] = 0 <=> b = Genesis
      /\ Path[b] \in [0 .. Number[b] -> Blocks]
      /\ Path[b][Number[b]] = b
      /\ \A n \in 0 .. Number[b] :
            /\ Number[Path[b][n]] = n
            /\ \A m \in 0 .. n : Path[Path[b][n]][m] = Path[b][m]
  BY BlockTreeAssumption
<1>2. b # Genesis => Number[b] - 1 \in 0 .. Number[b]
  BY <1>1
<1>3. b # Genesis => Parent(b) \in Blocks /\ Number[Parent(b)] = Number[b] - 1
  BY <1>1, <1>2 DEF Parent
<1>4. ParentHash(b) \in Blocks \cup {NoBlock}
  BY <1>3 DEF ParentHash
<1> QED BY <1>1, <1>3, <1>4

(* A set of naturals with an element has a least one, *)
LEMMA LeastOf ==
    ASSUME NEW S, S \subseteq Nat, S # {}
    PROVE  \E n \in S : \A m \in S : n <= m
<1>1. PICK n \in S : \A m \in S : ~(<<m, n>> \in OpToRel(<, Nat))
  BY NatLessThanWellFounded, WFMin
<1>2. \A m \in S : ~(m < n)
  BY <1>1 DEF OpToRel
<1> QED BY <1>2

(* and a greatest one if it has a bound. *)
LEMMA GreatestOf ==
    ASSUME NEW S, S \subseteq Nat, S # {}, NEW k \in Nat, \A n \in S : n <= k
    PROVE  \E n \in S : \A m \in S : m <= n
<1> DEFINE T == {d \in Nat : k - d \in S}
<1>1. PICK s \in S : s \in Nat
  OBVIOUS
<1>2. k - s \in T
  BY <1>1
<1>3. PICK d \in T : \A e \in T : d <= e
  BY <1>2, LeastOf
<1>4. \A m \in S : k - m \in T
  OBVIOUS
<1> QED BY <1>3, <1>4

(* A block that is read is a block with the number that was asked for. *)
LEMMA ReadFacts ==
    ASSUME tip \in Blocks, NEW s, \A n \in DOMAIN s : s[n] \in Blocks,
           NEW n \in Nat, NEW linked
    PROVE  /\ Canonical(n) \in Blocks \cup {NoBlock}
           /\ GetBlock(n, s) \in Blocks \cup {NoBlock}
           /\ GetCanonicalBlock(n, s, linked) \in Blocks \cup {NoBlock}
<1>1. Canonical(n) \in Blocks \cup {NoBlock}
  BY BlockFacts DEF Canonical, Height
<1> QED BY <1>1 DEF GetBlock, GetCanonicalBlock

------------------------------------------------------------------------------
(* The list of subchains, over a finite set D of objects.                   *)

Statuses(D) ==
    [subs : Seq(D), obj : [D -> Subchain], linked : BOOLEAN, reset : BOOLEAN]

Live(D) == {st \in Statuses(D) : st.subs # <<>>}

Objects == {D \in SUBSET Nat : IsFiniteSet(D)}

(* The first subchain begins where a fill can cut the chain. *)
TailOK(st, height) == st.linked /\ st.reset => First(st).tail <= height + 1

LEMMA FirstType ==
    ASSUME NEW D, NEW st \in Live(D)
    PROVE  /\ st.subs[1] \in D
           /\ First(st) \in Subchain
           /\ Len(st.subs) > 1 => Second(st) \in Subchain /\ st.subs[2] \in D
<1>1. st.subs \in Seq(D) /\ st.subs # <<>> /\ st.obj \in [D -> Subchain]
  BY DEF Live, Statuses
<1>2. Len(st.subs) \in Nat /\ Len(st.subs) >= 1
  BY <1>1
<1>3. st.subs[1] \in D /\ (Len(st.subs) > 1 => st.subs[2] \in D)
  BY <1>1, <1>2
<1> QED BY <1>1, <1>3 DEF First, Second

LEMMA SetFirstFacts ==
    ASSUME NEW D, NEW st \in Live(D), NEW c \in Subchain
    PROVE  /\ SetFirst(st, c) \in Live(D)
           /\ First(SetFirst(st, c)) = c
           /\ SetFirst(st, c).subs = st.subs
           /\ SetFirst(st, c).linked = st.linked
           /\ SetFirst(st, c).reset = st.reset
<1>1. st.subs[1] \in D
  BY FirstType
<1> QED BY <1>1 DEF Live, Statuses, SetFirst, First

(* The head of the second subchain is trimmed. *)
LEMMA TrimFacts ==
    ASSUME NEW D, NEW st \in Live(D), Len(st.subs) > 1, NEW h \in Nat
    PROVE  [st EXCEPT !.obj[st.subs[2]].head = h] \in Live(D)
<1>1. st.subs[2] \in D /\ st.obj[st.subs[2]] \in Subchain
  BY FirstType DEF Second
<1>2. [st.obj[st.subs[2]] EXCEPT !.head = h] \in Subchain
  BY <1>1 DEF Subchain
<1> QED BY <1>1, <1>2 DEF Live, Statuses

LEMMA DropFacts ==
    ASSUME NEW D, NEW st \in Live(D)
    PROVE  /\ DropOthers(st) \in Live(D)
           /\ First(DropOthers(st)) = First(st)
           /\ DropOthers(st).linked = st.linked /\ DropOthers(st).reset = st.reset
           /\ Len(st.subs) > 1 =>
                /\ DropSecond(st) \in Live(D)
                /\ First(DropSecond(st)) = First(st)
                /\ DropSecond(st).linked = st.linked /\ DropSecond(st).reset = st.reset
<1>1. st.subs \in Seq(D) /\ st.subs[1] \in D /\ Len(st.subs) \in Nat
  BY FirstType DEF Live, Statuses
<1>2. <<st.subs[1]>> \in Seq(D) /\ <<st.subs[1]>> # <<>> /\ <<st.subs[1]>>[1] = st.subs[1]
  BY <1>1
<1>3. DropOthers(st) \in Live(D) /\ First(DropOthers(st)) = First(st)
        /\ DropOthers(st).linked = st.linked /\ DropOthers(st).reset = st.reset
  BY <1>2 DEF Live, Statuses, DropOthers, First
<1>4. ASSUME Len(st.subs) > 1
      PROVE  /\ DropSecond(st) \in Live(D)
             /\ First(DropSecond(st)) = First(st)
             /\ DropSecond(st).linked = st.linked /\ DropSecond(st).reset = st.reset
  <2> DEFINE rest == SubSeq(st.subs, 3, Len(st.subs))
  <2>1. rest \in Seq(D)
    BY <1>1
  <2> HIDE DEF rest
  <2>2. <<st.subs[1]>> \o rest \in Seq(D) /\ <<st.subs[1]>> \o rest # <<>>
          /\ (<<st.subs[1]>> \o rest)[1] = st.subs[1]
    BY <1>2, <2>1
  <2>3. DropSecond(st) = [st EXCEPT !.subs = <<st.subs[1]>> \o rest]
    BY DEF DropSecond, rest
  <2> QED BY <2>2, <2>3 DEF Live, Statuses, First
<1> QED BY <1>3, <1>4

LEMMA UnshiftFacts ==
    ASSUME NEW D \in Objects, NEW st \in Statuses(D), NEW c \in Subchain
    PROVE  /\ \E E \in Objects : Unshift(st, c) \in Live(E)
           /\ First(Unshift(st, c)) = c
           /\ Unshift(st, c).linked = st.linked /\ Unshift(st, c).reset = st.reset
<1>1. DOMAIN st.obj = D /\ D \subseteq Nat /\ IsFiniteSet(D) /\ st.subs \in Seq(D)
        /\ st.obj \in [D -> Subchain]
  BY DEF Statuses, Objects
<1> DEFINE I == 1 .. Cardinality(D) + 1
           id == CHOOSE i \in I : i \notin D
           obj == [i \in D \cup {id} |-> IF i = id THEN c ELSE st.obj[i]]
<1>2. \E i \in I : i \notin D
  <2>1. SUFFICES ASSUME I \subseteq D PROVE FALSE
    OBVIOUS
  <2>2. Cardinality(D) \in Nat
    BY <1>1, FS_CardinalityType
  <2>3. Cardinality(I) = Cardinality(D) + 1
    BY <2>2, FS_Interval
  <2>4. Cardinality(I) <= Cardinality(D)
    BY <1>1, <2>1, FS_Subset
  <2> QED BY <2>2, <2>3, <2>4
<1>3. id \in I /\ id \notin D
  BY <1>2
<1>4. id \in Nat
  BY <1>1, <1>3, FS_CardinalityType
<1>5. Unshift(st, c) = [st EXCEPT !.subs = <<id>> \o st.subs, !.obj = obj]
  BY <1>1 DEF Unshift
<1> HIDE DEF id, I
<1>6. D \cup {id} \in Objects
  BY <1>1, <1>4, FS_AddElement DEF Objects
<1>7. obj \in [D \cup {id} -> Subchain] /\ obj[id] = c
  BY <1>1
<1>8. st.subs \in Seq(D \cup {id}) /\ <<id>> \in Seq(D \cup {id})
  BY <1>1
<1>9. /\ <<id>> \o st.subs \in Seq(D \cup {id})
      /\ <<id>> \o st.subs # <<>>
      /\ (<<id>> \o st.subs)[1] = id
  BY <1>8
<1> HIDE DEF obj
<1>10. Unshift(st, c) \in Live(D \cup {id})
  BY <1>5, <1>7, <1>9 DEF Live, Statuses
<1>11. First(Unshift(st, c)) = c
  BY <1>5, <1>7, <1>9 DEF Statuses, First
<1>12. Unshift(st, c).linked = st.linked /\ Unshift(st, c).reset = st.reset
  BY <1>5 DEF Statuses
<1> QED BY <1>6, <1>10, <1>11, <1>12

LEMMA CheckLinkedFacts ==
    ASSUME NEW D, NEW st \in Statuses(D)
    PROVE  /\ CheckLinked(st) \in Statuses(D)
           /\ CheckLinked(st).linked = Linked(st)
           /\ CheckLinked(st).reset = st.reset
           /\ Linked(st) => st.subs # <<>>
           /\ st.subs # <<>> =>
                /\ CheckLinked(st) \in Live(D)
                /\ First(CheckLinked(st)) = First(st)
                /\ Height \in Nat => TailOK(CheckLinked(st), Height)
<1>1. Linked(st) \in BOOLEAN /\ (Linked(st) => st.subs # <<>>)
  BY DEF Linked
<1>2. ASSUME NEW kept \in Statuses(D)
      PROVE  /\ [kept EXCEPT !.linked = Linked(st)] \in Statuses(D)
             /\ [kept EXCEPT !.linked = Linked(st)].linked = Linked(st)
             /\ [kept EXCEPT !.linked = Linked(st)].reset = kept.reset
             /\ [kept EXCEPT !.linked = Linked(st)].subs = kept.subs
             /\ First([kept EXCEPT !.linked = Linked(st)]) = First(kept)
  BY <1>1 DEF Statuses, First
<1>3. CASE Linked(st) /\ First(st).tail > 0
  <2>1. st \in Live(D)
    BY <1>1, <1>3 DEF Live
  <2>2. CheckLinked(st) = [DropOthers(st) EXCEPT !.linked = Linked(st)]
    BY <1>3 DEF CheckLinked
  <2>3. DropOthers(st) \in Statuses(D) /\ DropOthers(st).subs # <<>>
          /\ First(DropOthers(st)) = First(st) /\ DropOthers(st).reset = st.reset
    BY <2>1, DropFacts DEF Live
  <2>4. Height \in Nat => First(st).tail <= Height + 1
    BY <1>3 DEF Linked
  <2> QED BY <1>1, <1>2, <2>2, <2>3, <2>4 DEF Live, TailOK
<1>4. CASE ~(Linked(st) /\ First(st).tail > 0)
  <2>1. CheckLinked(st) = [st EXCEPT !.linked = Linked(st)]
    BY <1>4 DEF CheckLinked
  <2>2. ASSUME Height \in Nat, Linked(st)
        PROVE  First(st).tail <= Height + 1
    <3>1. st \in Live(D)
      BY <1>1, <2>2 DEF Live
    <3>2. First(st).tail \in Nat
      BY <3>1, FirstType DEF Subchain
    <3> QED BY <1>4, <2>2, <3>2
  <2> QED BY <1>1, <1>2, <2>1, <2>2 DEF Live, TailOK
<1> QED BY <1>3, <1>4

(* One round of merging keeps the list a list of subchains. *)
LEMMA MergeStepFacts ==
    ASSUME NEW D, NEW s, NEW m \in [st : Live(D), merged : BOOLEAN]
    PROVE  /\ MergeStep(m, s) \in [st : Live(D), merged : BOOLEAN]
           /\ MergeStep(m, s).st.linked = m.st.linked
<1> DEFINE st == m.st
           first == First(st)
           second == Second(st)
           trimmed == [st EXCEPT !.obj[st.subs[2]].head = first.tail - 1]
           joined == [first EXCEPT !.tail = second.tail, !.next = second.next]
<1>1. CASE ~Overlaps(st)
  BY <1>1 DEF MergeStep
<1>2. CASE Overlaps(st)
  <2>1. st \in Live(D) /\ Len(st.subs) > 1
    BY <1>2 DEF Overlaps
  <2>2. first \in Subchain /\ second \in Subchain
    BY <2>1, FirstType
  <2>3. DropSecond(st) \in Live(D) /\ DropSecond(st).linked = st.linked
    BY <2>1, DropFacts
  <2>4. ASSUME ~(second.tail >= first.tail)
        PROVE  /\ trimmed \in Live(D) /\ trimmed.linked = st.linked
               /\ Len(trimmed.subs) > 1
    <3>1. first.tail - 1 \in Nat
      BY <2>2, <2>4 DEF Subchain
    <3>2. trimmed \in Live(D)
      BY <2>1, <3>1, TrimFacts
    <3>3. trimmed.linked = st.linked /\ trimmed.subs = st.subs
      BY <2>1 DEF Live, Statuses
    <3> QED BY <2>1, <3>2, <3>3
  <2>5. joined \in Subchain
    BY <2>2 DEF Subchain
  <2> HIDE DEF trimmed, joined, first, second, st
  <2>6. ASSUME ~(second.tail >= first.tail)
        PROVE  /\ DropOthers(trimmed) \in Live(D) /\ DropOthers(trimmed).linked = st.linked
               /\ DropSecond(trimmed) \in Live(D) /\ DropSecond(trimmed).linked = st.linked
               /\ DropSecond(SetFirst(trimmed, joined)) \in Live(D)
               /\ DropSecond(SetFirst(trimmed, joined)).linked = st.linked
    <3>1. trimmed \in Live(D) /\ trimmed.linked = st.linked /\ Len(trimmed.subs) > 1
      BY <2>4, <2>6
    <3>2. /\ SetFirst(trimmed, joined) \in Live(D)
          /\ SetFirst(trimmed, joined).linked = trimmed.linked
          /\ SetFirst(trimmed, joined).subs = trimmed.subs
      BY <2>5, <3>1, SetFirstFacts
    <3> QED BY <3>1, <3>2, DropFacts
  <2> DEFINE Good(r) == r \in [st : Live(D), merged : BOOLEAN] /\ r.st.linked = m.st.linked
  <2>7. \A x \in Live(D) : x.linked = m.st.linked =>
            Good([m EXCEPT !.st = x]) /\ Good([st |-> x, merged |-> TRUE])
    OBVIOUS
  <2> HIDE DEF Good
  <2>8. \/ MergeRound(m, s) = [m EXCEPT !.st = DropSecond(st)]
        \/ /\ ~(second.tail >= first.tail)
           /\ \/ MergeRound(m, s) = [m EXCEPT !.st = DropOthers(trimmed)]
              \/ MergeRound(m, s) = [m EXCEPT !.st = trimmed]
              \/ MergeRound(m, s) = [st |-> DropSecond(SetFirst(trimmed, joined)), merged |-> TRUE]
              \/ MergeRound(m, s) = [m EXCEPT !.st = DropSecond(trimmed)]
    BY Zenon DEF MergeRound, trimmed, joined, first, second, st
  <2>9. MergeStep(m, s) = MergeRound(m, s) /\ m.st = st
    BY <1>2 DEF MergeStep, st
  <2>10. Good(MergeRound(m, s))
    BY Zenon, <2>3, <2>4, <2>6, <2>7, <2>8, <2>9
  <2> QED BY <2>9, <2>10 DEF Good
<1> QED BY <1>1, <1>2

(* Merging, however many rounds it takes, by the least round that would go *)
(* wrong.                                                                  *)
LEMMA MergeFacts ==
    ASSUME NEW D, NEW st \in Live(D), NEW s
    PROVE  /\ Merge(st, s).st \in Live(D)
           /\ Merge(st, s).merged \in BOOLEAN
           /\ Merge(st, s).st.linked = st.linked
<1> DEFINE V == {m \in [st : Live(D), merged : BOOLEAN] : m.st.linked = st.linked}
           zero == [st |-> st, merged |-> FALSE]
           N == Len(st.subs)
           F(f, n) == [k \in 0 .. n |->
                        IF k = 0 THEN zero
                        ELSE CHOOSE r \in {MergeStep(m, s) : m \in {f[k - 1]}} : TRUE]
           Fits(n) == \E f \in [0 .. n -> V] : f = F(f, n)
           after == CHOOSE f : f = F(f, N)
<1>1. N \in Nat /\ zero \in V
  BY DEF Live, Statuses
<1>2. \A m \in V : MergeStep(m, s) \in V
  BY MergeStepFacts
<1>3. \A x : (CHOOSE r \in {MergeStep(m, s) : m \in {x}} : TRUE) = MergeStep(x, s)
  OBVIOUS
<1>4. Merge(st, s) = after[N]
  BY DEF Merge
<1> HIDE DEF V, zero, N
<1>5. \A n \in Nat : Fits(n)
  <2> DEFINE Bad == {n \in Nat : ~Fits(n)}
  <2>1. SUFFICES ASSUME Bad # {} PROVE FALSE
    OBVIOUS
  <2> HIDE DEF Fits
  <2>2. PICK n \in Bad : \A k \in Bad : n <= k
    BY <2>1, LeastOf
  <2> USE DEF Fits
  <2>3. CASE n = 0
    <3>1. [k \in 0 .. 0 |-> zero] \in [0 .. 0 -> V]
      BY <1>1
    <3>2. [k \in 0 .. 0 |-> zero] = F([k \in 0 .. 0 |-> zero], 0)
      OBVIOUS
    <3> QED BY <2>2, <2>3, <3>1, <3>2
  <2>4. CASE n # 0
    <3>1. n \in Nat /\ n - 1 \in Nat /\ n - 1 \notin Bad
      <4> HIDE DEF Fits
      <4>1. n \in Nat /\ n - 1 \in Nat
        BY <2>2, <2>4
      <4>2. n - 1 \notin Bad
        <5>1. SUFFICES ASSUME n - 1 \in Bad PROVE FALSE
          OBVIOUS
        <5>2. n <= n - 1
          BY <2>2, <5>1
        <5> QED BY <4>1, <5>2
      <4> QED BY <4>1, <4>2
    <3>2. PICK f \in [0 .. n - 1 -> V] : f = F(f, n - 1)
      BY <3>1
    <3> DEFINE g == [k \in 0 .. n |-> IF k = n THEN MergeStep(f[n - 1], s) ELSE f[k]]
    <3>3. g \in [0 .. n -> V]
      BY <1>2, <3>1
    <3>4. g = F(g, n)
      <4>1. \A k \in 0 .. n : g[k] = F(g, n)[k]
        <5>1. TAKE k \in 0 .. n
        <5>2. CASE k = 0
          BY <2>4, <3>1, <3>2, <5>2
        <5>3. CASE k # 0
          <6>1. g[k - 1] = f[k - 1] /\ k - 1 \in 0 .. n - 1
            BY <3>1, <5>3
          <6>2. F(g, n)[k] = MergeStep(g[k - 1], s)
            BY <1>3, <5>3
          <6>3. k # n => f[k] = F(f, n - 1)[k] /\ k \in 0 .. n - 1
            <7> HIDE DEF F
            <7>1. f[k] = F(f, n - 1)[k]
              BY <3>2
            <7>2. k # n => k \in 0 .. n - 1
              BY <3>1
            <7> QED BY <7>1, <7>2
          <6>4. k # n => F(f, n - 1)[k] = MergeStep(f[k - 1], s)
            BY <1>3, <5>3, <6>3
          <6> QED BY <6>1, <6>2, <6>3, <6>4
        <5> QED BY <5>2, <5>3
      <4> QED BY <4>1
    <3> QED BY <2>2, <3>1, <3>3, <3>4
  <2> QED BY <2>3, <2>4
<1>6. after = F(after, N)
  <2>1. \E f : f = F(f, N)
    BY <1>1, <1>5
  <2> QED BY <2>1
<1>7. \A n \in 0 .. N : after[n] \in V
  <2> DEFINE Out == {n \in 0 .. N : after[n] \notin V}
  <2> HIDE DEF after
  <2>1. SUFFICES ASSUME Out # {} PROVE FALSE
    OBVIOUS
  <2>2. Out \subseteq Nat
    BY <1>1
  <2>3. PICK n \in Out : \A k \in Out : n <= k
    BY <2>1, <2>2, LeastOf
  <2>4. n # 0
    <3>1. after[0] = zero
      BY <1>1, <1>6
    <3> QED BY <1>1, <2>3, <3>1
  <2>5. n - 1 \in 0 .. N /\ n - 1 \notin Out
    BY <1>1, <2>3, <2>4
  <2>6. after[n] = MergeStep(after[n - 1], s)
    BY <1>3, <1>6, <2>4, <2>3
  <2> QED BY <1>2, <2>3, <2>5, <2>6
<1>8. after[N] \in V
  BY <1>1, <1>7
<1> HIDE DEF after
<1> QED BY <1>4, <1>8 DEF V

------------------------------------------------------------------------------
(* setHead.                                                                 *)

(* The blocks of the skeleton and the chain it reads. *)
StoreInv ==
    /\ tip \in known
    /\ known \subseteq Blocks
    /\ \A b \in known : \A n \in 0 .. Number[b] : Path[b][n] \in known
    /\ DOMAIN sk \subseteq Nat
    /\ sk \in [DOMAIN sk -> Blocks]
    /\ \A n \in DOMAIN sk : Number[sk[n]] = n
    /\ byHash \subseteq Blocks

LEMMA StoreFacts ==
    ASSUME StoreInv
    PROVE  /\ tip \in Blocks
           /\ Height \in Nat
           /\ \A n \in Nat : GetBlock(n, sk) \in Blocks \cup {NoBlock}
           /\ \A n \in Nat : \A linked :
                GetCanonicalBlock(n, sk, linked) \in Blocks \cup {NoBlock}
<1>1. tip \in Blocks /\ \A n \in DOMAIN sk : sk[n] \in Blocks
  BY DEF StoreInv
<1>2. Height \in Nat
  BY <1>1, BlockFacts DEF Height
<1> QED BY <1>1, <1>2, ReadFacts

LEMMA SubchainOf ==
    ASSUME NEW b \in Blocks
    PROVE  /\ [head |-> Number[b], tail |-> Number[b], next |-> ParentHash(b)] \in Subchain
           /\ b # Genesis =>
                [head |-> Number[b], tail |-> Number[b], next |-> Parent(b)] \in Subchain
           /\ \A c \in Subchain :
                [c EXCEPT !.tail = Number[b], !.next = ParentHash(b)] \in Subchain
<1>1. /\ Number[b] \in Nat
      /\ ParentHash(b) \in Blocks \cup {NoBlock}
      /\ Number[b] > 0 => ParentHash(b) \in Blocks
      /\ b # Genesis => Parent(b) \in Blocks
  BY BlockFacts DEF ParentHash
<1> QED BY <1>1 DEF Subchain

LEMMA InitedFacts ==
    ASSUME StoreInv, NEW D \in Objects, NEW st \in Statuses(D)
    PROVE  /\ \E E \in Objects : Inited(st) \in Live(E)
           /\ st.subs # <<>> => Inited(st) = st
           /\ st.subs = <<>> => ~Inited(st).reset
<1>1. CASE st.subs # <<>>
  BY <1>1 DEF Inited, Live
<1>2. CASE st.subs = <<>>
  <2> DEFINE c == [head |-> Height, tail |-> Height, next |-> ParentHash(tip)]
             new == Unshift(st, c)
  <2>1. c \in Subchain
    BY StoreFacts, SubchainOf DEF Height
  <2> HIDE DEF c
  <2>2. PICK E \in Objects : new \in Live(E)
    BY <2>1, UnshiftFacts
  <2>3. Inited(st) = [new EXCEPT !.linked = TRUE, !.reset = FALSE]
    BY <1>2 DEF Inited, c
  <2> HIDE DEF new
  <2>4. Inited(st) \in Live(E) /\ ~Inited(st).reset
    BY <2>2, <2>3 DEF Live, Statuses
  <2> QED BY <1>2, <2>4
<1> QED BY <1>1, <1>2

LEMMA FastForwardedFacts ==
    ASSUME NEW D, NEW st \in Live(D), NEW target \in Nat, First(st).head <= target
    PROVE  FastForwarded(st, target) \in Nat
<1> DEFINE from == First(st).head
           Get(n) == GetCanonicalBlock(n, sk, st.linked)
           Fits(n) == \A m \in from + 1 .. n :
                        /\ Get(m) # NoBlock
                        /\ Get(m - 1) # NoBlock
                        /\ ParentHash(Get(m)) = Get(m - 1)
           reached == {n \in from .. target : Fits(n)}
<1>1. FastForwarded(st, target) = CHOOSE n \in reached : \A m \in reached : m <= n
  BY DEF FastForwarded
<1>2. from \in Nat
  BY FirstType DEF Subchain
<1> HIDE DEF from
<1>3. Fits(from)
  BY <1>2
<1> HIDE DEF Fits
<1>4. reached \subseteq Nat /\ from \in reached /\ \A n \in reached : n <= target
  BY <1>2, <1>3 DEF from
<1> HIDE DEF reached
<1>5. \E n \in reached : \A m \in reached : m <= n
  BY <1>4, GreatestOf
<1> QED BY <1>1, <1>4, <1>5

LEMMA TruncateFacts ==
    ASSUME StoreInv, NEW D, NEW st \in Live(D)
    PROVE  /\ \A limit : TruncateTailTo(st, limit) \in Blocks \cup {NoBlock}
           /\ \A b \in Blocks : Truncated(st, b) \in Live(D)
<1>1. \A limit : TruncateTailTo(st, limit) \in Blocks \cup {NoBlock}
  BY StoreFacts DEF TruncateTailTo
<1>2. ASSUME NEW b \in Blocks
      PROVE  Truncated(st, b) \in Live(D)
  <2>1. First(st) \in Subchain
    BY FirstType
  <2>2. [First(st) EXCEPT !.tail = Number[b], !.next = ParentHash(b)] \in Subchain
    BY <2>1, SubchainOf
  <2> QED BY <2>2, SetFirstFacts DEF Truncated
<1> QED BY <1>1, <1>2

(* What becomes of the first subchain is a subchain that a fill can start   *)
(* from if the one before was, unless the chain is going to be checked.     *)
LEMMA ProcessNewHeadFacts ==
    ASSUME StoreInv, NEW D, NEW st \in Live(D), NEW b \in Blocks, NEW force \in BOOLEAN
    PROVE  LET new == ProcessNewHead(st, b, force) IN
           /\ new.st \in Live(D)
           /\ new.reorg \in BOOLEAN
           /\ new.reorg => b # Genesis
           /\ ~(force /\ new.reorg) /\ TailOK(st, Height) => TailOK(new.st, Height)
<1> DEFINE n == Number[b]
           c == First(st)
           head == IF force /\ c.head + 1 < n THEN FastForwarded(st, n - 1) ELSE c.head
           Result(new, reorg) == [st |-> SetFirst(st, new), reorg |-> reorg]
           Asks(new) == Result(new, TRUE)
           Keeps(new) == Result(new, FALSE)
           differs == Result(c, GetBlock(n, sk) # b)
           Good(r) == /\ r.st \in Live(D)
                      /\ r.reorg \in BOOLEAN
                      /\ r.reorg => b # Genesis
                      /\ ~(force /\ r.reorg) /\ TailOK(st, Height) => TailOK(r.st, Height)
           fresh == [head |-> n, tail |-> n, next |-> Parent(b)]
           moved == IF force THEN fresh ELSE c
           raised == IF force THEN [c EXCEPT !.head = n] ELSE c
<1>1. n \in Nat /\ (n = 0 <=> b = Genesis) /\ c \in Subchain /\ c.head \in Nat /\ c.tail \in Nat
  BY BlockFacts, FirstType DEF Subchain
<1>2. head \in Nat
  <2>1. ASSUME c.head + 1 < n PROVE FastForwarded(st, n - 1) \in Nat
    BY <1>1, <2>1, FastForwardedFacts
  <2> QED BY <1>1, <2>1
<1>3. \A x \in Subchain, r \in BOOLEAN :
        /\ n > 0
        /\ ~(force /\ r) => x.tail = c.tail
        => Good(Result(x, r))
  <2>1. TAKE x \in Subchain, r \in BOOLEAN
  <2>2. HAVE n > 0 /\ (~(force /\ r) => x.tail = c.tail)
  <2>3. SetFirst(st, x) \in Live(D) /\ First(SetFirst(st, x)) = x
          /\ SetFirst(st, x).linked = st.linked /\ SetFirst(st, x).reset = st.reset
    BY SetFirstFacts
  <2>4. ~(force /\ r) /\ TailOK(st, Height) => TailOK(SetFirst(st, x), Height)
    BY <2>2, <2>3 DEF TailOK
  <2> QED BY <1>1, <2>2, <2>3, <2>4
<1>4. [c EXCEPT !.head = head] \in Subchain /\ [c EXCEPT !.head = head].tail = c.tail
  BY <1>1, <1>2 DEF Subchain
<1>5. [c EXCEPT !.head = n] \in Subchain /\ [c EXCEPT !.head = n].tail = c.tail
  BY <1>1 DEF Subchain
<1>6. n > 0 => fresh \in Subchain
  <2>1. b # Genesis => fresh \in Subchain
    BY SubchainOf
  <2> HIDE DEF fresh, n
  <2> QED BY <1>1, <2>1
<1>7. ProcessNewHead(st, b, force) =
        IF n = 0
        THEN [st |-> [st EXCEPT !.linked = TRUE, !.reset = FALSE], reorg |-> FALSE]
        ELSE IF n < c.tail THEN Asks(moved)
        ELSE IF n <= c.head THEN differs
        ELSE IF head + 1 < n \/ GetBlock(n - 1, sk) # Parent(b)
        THEN Asks([c EXCEPT !.head = head])
        ELSE Keeps(raised)
  BY DEF ProcessNewHead
<1> HIDE DEF n, c, head, fresh, moved, raised, Result, Good, Asks, Keeps, differs
<1>8. CASE n = 0
  <2> DEFINE s0 == [st EXCEPT !.linked = TRUE, !.reset = FALSE]
  <2>1. s0 \in Live(D) /\ ~s0.reset
    BY DEF Live, Statuses
  <2>2. ProcessNewHead(st, b, force) = [st |-> s0, reorg |-> FALSE]
    BY <1>7, <1>8, <1>1
  <2> HIDE DEF s0
  <2>3. Good([st |-> s0, reorg |-> FALSE])
    BY <2>1 DEF Good, TailOK
  <2> QED BY <2>2, <2>3 DEF Good
<1>9. CASE n # 0
  <2>0. n > 0
    BY <1>1, <1>9
  <2>1. CASE n < c.tail
    <3>1. ProcessNewHead(st, b, force) = Asks(moved)
      BY <1>1, <1>7, <2>0, <2>1
    <3>2. Good(Asks(moved))
      BY <1>1, <1>3, <1>6, <2>0 DEF moved, Asks
    <3> QED BY <3>1, <3>2 DEF Good
  <2>2. CASE ~(n < c.tail) /\ n <= c.head
    <3>1. ProcessNewHead(st, b, force) = differs
      BY <1>1, <1>7, <2>0, <2>2
    <3>2. Good(differs)
      BY <1>1, <1>3, <2>0 DEF differs
    <3> QED BY <3>1, <3>2 DEF Good
  <2>3. CASE ~(n < c.tail) /\ ~(n <= c.head)
    <3>1. \/ ProcessNewHead(st, b, force) = Asks([c EXCEPT !.head = head])
          \/ ProcessNewHead(st, b, force) = Keeps(raised)
      BY <1>1, <1>7, <2>0, <2>3
    <3>2. Good(Asks([c EXCEPT !.head = head]))
      BY <1>3, <1>4, <2>0 DEF Asks
    <3>3. Good(Keeps(raised))
      BY <1>1, <1>3, <1>5, <2>0 DEF raised, Keeps
    <3> QED BY <3>1, <3>2, <3>3 DEF Good
  <2> QED BY <2>1, <2>2, <2>3
<1> QED BY <1>8, <1>9

LEMMA ReorgedFacts ==
    ASSUME StoreInv, NEW D \in Objects, NEW st \in Live(D), NEW b \in Blocks,
           b # Genesis, NEW head0
    PROVE  \E E \in Objects : Reorged(st, b, head0) \in Live(E)
<1>1. Number[b] \in Nat
  BY BlockFacts
<1>2. ASSUME NEW x \in Live(D)
      PROVE  [x EXCEPT !.reset = TRUE] \in Live(D)
  BY <1>2 DEF Live, Statuses
<1>3. MovedHead(st, b) \in Live(D)
  <2> DEFINE moved == SetFirst(st, [First(st) EXCEPT !.head = Number[b]])
             cut == TruncateTailTo(moved, Number[b] - 1)
  <2>1. moved \in Live(D)
    <3>1. First(st) \in Subchain
      BY FirstType
    <3>2. [First(st) EXCEPT !.head = Number[b]] \in Subchain
      BY <1>1, <3>1 DEF Subchain
    <3> QED BY <3>2, SetFirstFacts
  <2> HIDE DEF moved
  <2>2. cut \in Blocks \cup {NoBlock}
    BY <2>1, TruncateFacts
  <2>3. MovedHead(st, b) =
            IF ~MustTruncate(st) THEN moved
            ELSE IF cut # NoBlock THEN Truncated(moved, cut)
            ELSE [Truncated(moved, b) EXCEPT !.reset = TRUE]
    BY DEF MovedHead, moved
  <2> HIDE DEF cut
  <2>4. Truncated(moved, b) \in Live(D) /\ (cut # NoBlock => Truncated(moved, cut) \in Live(D))
    BY <2>1, <2>2, TruncateFacts
  <2> QED BY <1>2, <2>1, <2>3, <2>4
<1>4. \E E \in Objects : NewSubchain(st, b, head0) \in Live(E)
  <2> DEFINE cut == TruncateTailTo(st, First(st).head)
             old == IF ~MustTruncate(st) THEN st
                    ELSE IF cut # NoBlock THEN Truncated(st, cut)
                    ELSE [st EXCEPT !.subs = Tail(st.subs)]
             rest == IF head0 = 0 THEN [old EXCEPT !.subs = <<>>] ELSE old
             c == [head |-> Number[b], tail |-> Number[b], next |-> Parent(b)]
  <2>1. cut # NoBlock => Truncated(st, cut) \in Statuses(D)
    BY TruncateFacts DEF Live
  <2>2. [st EXCEPT !.subs = Tail(st.subs)] \in Statuses(D)
    <3>1. Tail(st.subs) \in Seq(D)
      BY DEF Live, Statuses
    <3> QED BY <3>1 DEF Live, Statuses
  <2> HIDE DEF cut
  <2>3. old \in Statuses(D)
    BY <2>1, <2>2 DEF Live
  <2> HIDE DEF old
  <2>4. rest \in Statuses(D)
    <3> HIDE DEF c
    <3>1. <<>> \in Seq(D)
      OBVIOUS
    <3>2. [old EXCEPT !.subs = <<>>] \in Statuses(D)
      BY <2>3, <3>1 DEF Statuses
    <3> QED BY <2>3, <3>2
  <2>5. c \in Subchain
    BY SubchainOf
  <2>6. NewSubchain(st, b, head0) = [Unshift(rest, c) EXCEPT !.reset = TRUE]
    BY DEF NewSubchain, cut, old
  <2> HIDE DEF rest, c
  <2>7. PICK E \in Objects : Unshift(rest, c) \in Live(E)
    BY <2>4, <2>5, UnshiftFacts
  <2>8. [Unshift(rest, c) EXCEPT !.reset = TRUE] \in Live(E)
    BY <2>7 DEF Live, Statuses
  <2> QED BY <2>6, <2>8
<1> QED BY <1>3, <1>4 DEF Reorged

(* The status between two steps, and the one on disk. *)
StatusInv == \E D \in Objects : status \in Statuses(D)

Disks == [subs : Seq(Subchain), linked : BOOLEAN, reset : BOOLEAN]

LEMMA EncodedFacts ==
    ASSUME NEW D, NEW st \in Statuses(D)
    PROVE  Encoded(st) \in Disks
<1>1. st.subs \in Seq(D) /\ st.obj \in [D -> Subchain] /\ st.linked \in BOOLEAN
        /\ st.reset \in BOOLEAN
  BY DEF Statuses
<1>2. Len(st.subs) \in Nat /\ DOMAIN st.subs = 1 .. Len(st.subs)
        /\ \A i \in 1 .. Len(st.subs) : st.subs[i] \in D
  BY <1>1
<1>3. [i \in DOMAIN st.subs |-> st.obj[st.subs[i]]] \in [1 .. Len(st.subs) -> Subchain]
  BY <1>1, <1>2
<1>4. [i \in DOMAIN st.subs |-> st.obj[st.subs[i]]] \in Seq(Subchain)
  BY <1>2, <1>3
<1> QED BY <1>1, <1>4 DEF Encoded, Disks

(* Dropping the objects that are not used changes nothing that is read. *)
LEMMA RestrictFacts ==
    ASSUME NEW D \in Objects, NEW st \in Statuses(D), NEW used \in SUBSET D,
           \A i \in DOMAIN st.subs : st.subs[i] \in used
    PROVE  LET new == [st EXCEPT !.obj = [i \in used |-> st.obj[i]]] IN
           /\ used \in Objects
           /\ new \in Statuses(used)
           /\ new.subs = st.subs
           /\ new.linked = st.linked /\ new.reset = st.reset
           /\ st.subs # <<>> => First(new) = First(st)
<1> DEFINE new == [st EXCEPT !.obj = [i \in used |-> st.obj[i]]]
<1>1. st.subs \in Seq(D) /\ st.obj \in [D -> Subchain] /\ IsFiniteSet(D) /\ D \subseteq Nat
  BY DEF Statuses, Objects
<1>2. used \in Objects
  BY <1>1, FS_Subset DEF Objects
<1>3. Len(st.subs) \in Nat /\ DOMAIN st.subs = 1 .. Len(st.subs)
  BY <1>1
<1>4. st.subs \in Seq(used) /\ [i \in used |-> st.obj[i]] \in [used -> Subchain]
  BY <1>1, <1>3
<1>5. new \in Statuses(used)
  BY <1>4 DEF Statuses
<1>6. /\ new.subs = st.subs
      /\ new.linked = st.linked /\ new.reset = st.reset
      /\ new.obj = [i \in used |-> st.obj[i]]
  BY DEF Statuses
<1>7. ASSUME st.subs # <<>> PROVE First(new) = First(st)
  <2>1. 1 \in DOMAIN st.subs
    BY <1>1, <1>7
  <2>2. st.subs[1] \in used
    BY <2>1
  <2> HIDE DEF new
  <2> QED BY <1>6, <2>2 DEF First
<1> QED BY <1>2, <1>5, <1>6, <1>7

LEMMA SetStatusFacts ==
    ASSUME NEW D \in Objects, NEW st \in Statuses(D), SetStatus(st)
    PROVE  /\ StatusInv'
           /\ status'.subs = st.subs
           /\ status'.linked = st.linked /\ status'.reset = st.reset
           /\ st.subs # <<>> => First(status') = First(st)
<1> DEFINE used == {st.subs[i] : i \in DOMAIN st.subs}
                    \cup {i \in DOMAIN st.obj : FillsFrom(i)}
<1>1. st.subs \in Seq(D) /\ st.obj \in [D -> Subchain]
  BY DEF Statuses
<1>2. \A i \in DOMAIN st.subs : st.subs[i] \in D
  BY <1>1
<1>3. status' = [st EXCEPT !.obj = [i \in used |-> st.obj[i]]]
  BY DEF SetStatus
<1>4. used \subseteq D /\ \A i \in DOMAIN st.subs : st.subs[i] \in used
  BY <1>1, <1>2
<1> HIDE DEF used
<1> DEFINE new == [st EXCEPT !.obj = [i \in used |-> st.obj[i]]]
<1>5. /\ used \in Objects
      /\ new \in Statuses(used)
      /\ new.subs = st.subs
      /\ new.linked = st.linked /\ new.reset = st.reset
      /\ st.subs # <<>> => First(new) = First(st)
  BY ONLY <1>4, RestrictFacts, D \in Objects, st \in Statuses(D)
<1>6. status' = new
  BY <1>3
<1> HIDE DEF new
<1> QED BY <1>5, <1>6 DEF StatusInv

(* The pending calls. *)
Forkchoices ==
    [pc : {"idle", "open", "init", "start", "restart"}]
        \cup [pc : {"head", "fill"}, reorged : BOOLEAN]

Locks == {Free, [by |-> "head"]}
            \cup [by : {"put"}, fills : BOOLEAN, more : Blocks \cup {NoBlock}]

(* The first subchain, if there is one, begins where a fill can cut. *)
TailHeld == status.subs # <<>> => TailOK(status, Height)

LEMMA PutBlockFacts ==
    ASSUME StoreInv, NEW b \in Blocks, NEW only \in BOOLEAN, PutBlock(b, only),
           UNCHANGED chain
    PROVE  StoreInv'
<1>1. UNCHANGED <<tip, known>>
  BY DEF chain
<1>2. byHash' \subseteq Blocks
  BY DEF PutBlock, StoreInv
<1>3. sk' = sk \/ sk' = [n \in DOMAIN sk \cup {Number[b]} |-> IF n = Number[b] THEN b ELSE sk[n]]
  BY DEF PutBlock, Stored
<1>4. /\ DOMAIN sk' \subseteq Nat
      /\ sk' \in [DOMAIN sk' -> Blocks]
      /\ \A n \in DOMAIN sk' : Number[sk'[n]] = n
  BY <1>3, BlockFacts DEF StoreInv
<1> QED BY <1>1, <1>2, <1>4 DEF StoreInv

LEMMA SetHeadFacts ==
    ASSUME StoreInv, StatusInv, disk \in Disks, fcu \in Forkchoices,
           NEW b \in Blocks, NEW force \in BOOLEAN, NEW init \in BOOLEAN,
           SetHead(b, force, init), UNCHANGED chain
    PROVE  /\ StoreInv' /\ StatusInv'
           /\ disk' \in Disks
           /\ lock' \in Locks
           /\ fcu' \in Forkchoices
           /\ force \/ init => fcu'.pc # "open"
           /\ ~force /\ ~init => fcu' = fcu
           /\ status'.subs # <<>>
           /\ init \/ TailHeld => TailHeld'
           /\ faults' \subseteq faults \cup {"stale"}
<1> DEFINE start == Inited(status)
           head0 == First(start).head
           new == ProcessNewHead(start, b, force)
           placed == IF force /\ new.reorg THEN Reorged(new.st, b, head0) ELSE new.st
           merged == IF init THEN Merge(placed, Stored(b, FALSE)).st ELSE placed
           checks == (force /\ new.reorg) \/ init
           last == IF checks THEN CheckLinked(merged) ELSE merged
           junked == [last EXCEPT !.linked = merged.linked]
           only == ~force /\ Number[b] <= head0
<1>1. PICK D \in Objects : status \in Statuses(D)
  BY DEF StatusInv
<1>2. /\ PutBlock(b, only)
      /\ SetStatus(last)
      /\ lock' = IF force \/ init THEN [by |-> "head"] ELSE Free
      /\ disk' = IF last.subs # merged.subs THEN Encoded(junked)
                 ELSE IF merged # placed THEN Encoded(merged) ELSE disk
      /\ fcu' = IF init THEN [pc |-> "init"]
                ELSE IF force
                THEN [pc |-> IF new.reorg /\ status.linked /\ ~last.linked
                             THEN "head" ELSE "fill",
                      reorged |-> new.reorg]
                ELSE fcu
      /\ faults' = faults \cup {f \in {"stale"} : force /\ new.reorg /\ OnStaleParent(new.st, b)}
  <2>1. lock' = IF force \/ init THEN [by |-> "head"] ELSE Free
    BY DEF SetHead
  <2>2. disk' = Junked(merged, last, IF merged # placed THEN Encoded(merged) ELSE disk)
    BY ZenonT(60) DEF SetHead
  <2>3. /\ PutBlock(b, only)
        /\ SetStatus(last)
        /\ faults' = faults \cup {f \in {"stale"} : force /\ new.reorg /\ OnStaleParent(new.st, b)}
    BY ZenonT(60) DEF SetHead
  <2>4. fcu' = IF init THEN [pc |-> "init"]
               ELSE IF force
               THEN [pc |-> IF new.reorg /\ status.linked /\ ~last.linked
                            THEN "head" ELSE "fill",
                     reorged |-> new.reorg]
               ELSE fcu
    BY ZenonT(60) DEF SetHead
  <2> HIDE DEF last, merged, placed, new, start, only
  <2> QED BY <2>1, <2>2, <2>3, <2>4, Zenon DEF Junked
<1>3. /\ \E E \in Objects : start \in Live(E)
      /\ status.subs # <<>> => start = status
      /\ status.subs = <<>> => ~start.reset
  BY <1>1, InitedFacts
<1>4. PICK E \in Objects : start \in Live(E)
  BY <1>3
<1>5. init \/ TailHeld => init \/ TailOK(start, Height)
  BY <1>3 DEF TailHeld, TailOK
<1> HIDE DEF start
<1>6. /\ new.st \in Live(E)
      /\ new.reorg \in BOOLEAN
      /\ new.reorg => b # Genesis
      /\ ~(force /\ new.reorg) /\ TailOK(start, Height) => TailOK(new.st, Height)
  BY <1>4, ProcessNewHeadFacts
<1> HIDE DEF new, head0
<1>7. \E G \in Objects : placed \in Live(G)
  BY <1>6, ReorgedFacts
<1>8. PICK G \in Objects : placed \in Live(G)
  BY <1>7
<1>9. init \/ TailHeld => (~checks => TailOK(placed, Height))
  BY <1>5, <1>6
<1> HIDE DEF placed
<1>10. merged \in Live(G) /\ (~checks => merged = placed)
  BY <1>8, MergeFacts
<1> HIDE DEF merged, checks
<1>11. last \in Live(G) /\ (init \/ TailHeld => TailOK(last, Height))
  BY <1>9, <1>10, CheckLinkedFacts, StoreFacts DEF Live
<1> HIDE DEF last
<1>12. last \in Statuses(G) /\ last.subs # <<>> /\ junked \in Statuses(G)
  BY <1>10, <1>11 DEF Live, Statuses
<1> HIDE DEF junked
<1>13. /\ StatusInv'
       /\ status'.subs = last.subs
       /\ status'.linked = last.linked /\ status'.reset = last.reset
       /\ First(status') = First(last)
  BY <1>2, <1>12, SetStatusFacts
<1>14. Height' = Height
  BY DEF chain, Height
<1>15. init \/ TailHeld => TailHeld'
  BY <1>11, <1>13, <1>14 DEF TailHeld, TailOK
<1>16. StoreInv'
  <2>1. only \in BOOLEAN
    OBVIOUS
  <2> HIDE DEF only
  <2> QED BY <1>2, <2>1, PutBlockFacts
<1>17. disk' \in Disks
  BY <1>2, <1>10, <1>12, EncodedFacts DEF Live
<1>18. lock' \in Locks
  BY <1>2 DEF Locks
<1>19. fcu' \in Forkchoices /\ (force \/ init => fcu'.pc # "open") /\ (~force /\ ~init => fcu' = fcu)
  <2>2. CASE init
    BY <1>2, <2>2 DEF Forkchoices
  <2>3. CASE ~init /\ force
    <3>1. PICK pc \in {"head", "fill"} : fcu' = [pc |-> pc, reorged |-> new.reorg]
      BY <1>2, <2>3
    <3> QED BY <1>6, <2>3, <3>1 DEF Forkchoices
  <2>4. CASE ~init /\ ~force
    BY <1>2, <2>4
  <2> QED BY <2>2, <2>3, <2>4
<1>20. faults' \subseteq faults \cup {"stale"}
  BY <1>2
<1> QED BY <1>12, <1>13, <1>15, <1>16, <1>17, <1>18, <1>19, <1>20

------------------------------------------------------------------------------
(* The inductive invariant.                                                 *)

(* A fill stands at the head of the chain, or has a place to cut it; the    *)
(* block it puts is the next one, the block it deletes is in the chain.     *)
Fills(height) ==
    {NoFill, [pc |-> "undefined"]}
        \cup [pc : {"cut"}, at : 0 .. height, sub : Nat]
        \cup [pc : {"unflag", "loop"}, at : {height}, sub : Nat]
        \cup [pc : {"missing", "rejected"}, at : {height}, sub : Nat,
              block : Blocks \cup {NoBlock}]
        \cup [pc : {"put"}, at : {height}, sub : Nat,
              block : {b \in Blocks : Number[b] = height + 1}]
        \cup [pc : {"delete"}, at : {height}, sub : Nat, block : known]

FillInv == fill \in Fills(Height)

(* A fill that began on a subchain. *)
Working == fill.pc \notin {"idle", "undefined"}

(* There is a subchain whenever some call needs one. *)
SubsInv ==
    /\ Working \/ fcu.pc = "open" \/ lock # Free => status.subs # <<>>
    /\ fcu.pc = "open" => lock = Free /\ fill = NoFill

(* The status a restart loads is checked first; a fill that is about to cut *)
(* the chain lowers the flag before another fill can begin.                 *)
TailInv == fcu.pc # "open" /\ fill.pc \notin {"cut", "unflag"} => TailHeld

BoundsInv ==
    /\ announced \in Blocks
    /\ events \in 0 .. MaxEvents
    /\ restarts \in 0 .. MaxRestarts
    /\ running \in BOOLEAN /\ looping \in BOOLEAN
    /\ remote \subseteq Blocks

CountersInv ==
    /\ BoundsInv
    /\ faults \subseteq {"torn", "flag", "stale"}

IInv ==
    /\ StoreInv
    /\ StatusInv
    /\ disk \in Disks
    /\ lock \in Locks
    /\ fcu \in Forkchoices
    /\ FillInv
    /\ SubsInv
    /\ TailInv
    /\ CountersInv

LEMMA FillNotThrown == IInv => FillNotStuck
BY DEF IInv, FillInv, Fills, NoFill, FillNotStuck

LEMMA TypesHold == IInv => TypeOK
<1>1. SUFFICES ASSUME IInv PROVE TypeOK
  OBVIOUS
<1>2. PICK D \in Objects : status \in Statuses(D)
  BY <1>1 DEF IInv, StatusInv
<1>3. D = DOMAIN status.obj /\ D \subseteq Nat
  BY <1>2 DEF Statuses, Objects
<1>4. /\ DOMAIN status.obj \subseteq Nat
      /\ status.obj \in [DOMAIN status.obj -> Subchain]
      /\ status.subs \in Seq(DOMAIN status.obj)
      /\ status.linked \in BOOLEAN
      /\ status.reset \in BOOLEAN
  BY <1>2, <1>3 DEF Statuses
<1>5. /\ tip \in known
      /\ known \subseteq Blocks
      /\ DOMAIN sk \subseteq Nat
      /\ sk \in [DOMAIN sk -> Blocks]
      /\ byHash \subseteq Blocks
  BY <1>1 DEF IInv, StoreInv
<1>6. disk \in [subs : Seq(Subchain), linked : BOOLEAN, reset : BOOLEAN]
  BY <1>1 DEF IInv, Disks
<1>7. lock \in {Free} \cup [by : {"head"}]
               \cup [by : {"put"}, fills : BOOLEAN, more : Blocks \cup {NoBlock}]
  BY <1>1 DEF IInv, Locks
<1>8. fill.pc \in {"idle", "cut", "unflag", "loop", "put", "delete",
                   "missing", "rejected", "thrown", "undefined"}
  BY <1>1 DEF IInv, FillInv, Fills, NoFill
<1>9. fcu.pc \in {"open", "init", "start", "idle", "head", "fill", "restart"}
  BY <1>1 DEF IInv, Forkchoices
<1>10. CountersInv
  BY <1>1 DEF IInv
<1> QED BY <1>4, <1>5, <1>6, <1>7, <1>8, <1>9, <1>10 DEF TypeOK, CountersInv, BoundsInv

LEMMA InitInv == Init => IInv
<1>1. SUFFICES ASSUME Init PROVE IInv
  OBVIOUS
<1>2. Genesis \in Blocks /\ Number[Genesis] = 0 /\ Path[Genesis][0] = Genesis
  BY BlockTreeAssumption, BlockFacts
<1>3. StoreInv
  BY <1>1, <1>2 DEF Init, StoreInv
<1>4. StatusInv
  <2>1. {} \in Objects
    BY FS_EmptySet DEF Objects
  <2>2. status \in Statuses({})
    BY <1>1 DEF Init, Statuses
  <2> QED BY <2>1, <2>2 DEF StatusInv
<1>5. disk \in Disks
  BY <1>1 DEF Init, Disks
<1>6. lock = Free /\ fill = NoFill /\ fcu = [pc |-> "start"] /\ status.subs = <<>>
  BY <1>1 DEF Init
<1>7. lock \in Locks /\ fcu \in Forkchoices /\ FillInv
  BY <1>6 DEF Locks, Forkchoices, FillInv, Fills
<1>8. SubsInv
  BY <1>6 DEF SubsInv, Working, NoFill
<1>9. TailInv
  BY <1>6 DEF TailInv, TailHeld
<1>10. CountersInv
  <2>1. running \in BOOLEAN /\ looping \in BOOLEAN
    BY <1>1, Zenon DEF Init
  <2> QED BY <1>1, <1>2, <2>1, SkeletonAssumption DEF Init, CountersInv, BoundsInv
<1> QED BY <1>3, <1>4, <1>5, <1>7, <1>8, <1>9, <1>10 DEF IInv

(* A fill that begins has a place to cut, or goes on from the head. *)
LEMMA FillBegunFacts ==
    ASSUME StoreInv, StatusInv, FillInv, status.linked, Filling \/ TailHeld
    PROVE  /\ FillBegun(status) \in Fills(Height)
           /\ \/ FillBegun(status) = fill
              \/ status.subs = <<>> /\ FillBegun(status).pc = "undefined"
              \/ status.subs # <<>> /\ FillBegun(status).pc \in {"cut", "unflag"}
              \/ status.subs # <<>> /\ ~status.reset
<1>1. PICK D \in Objects : status \in Statuses(D)
  BY DEF StatusInv
<1>2. status.subs # <<>> => status \in Live(D)
  BY <1>1 DEF Live
<1>3. status.subs # <<>> => status.subs[1] \in Nat /\ First(status) \in Subchain
  BY <1>2, FirstType DEF Objects
<1>4. Height \in Nat /\ (status.subs # <<>> => First(status).tail \in Nat)
  BY <1>3, StoreFacts DEF Subchain
<1>5. CASE Filling
  <2>1. FillBegun(status) = fill
    BY <1>5 DEF FillBegun
  <2> QED BY <2>1 DEF FillInv
<1>8. CASE ~Filling /\ status.subs = <<>>
  <2>1. FillBegun(status) = [pc |-> "undefined"]
    BY <1>8 DEF FillBegun, NoSubchain
  <2> QED BY <1>8, <2>1 DEF Fills
<1>6. CASE ~Filling /\ status.subs # <<>> /\ ~status.reset
  <2>1. FillBegun(status) = [pc |-> "loop", at |-> Height, sub |-> status.subs[1]]
    BY <1>6 DEF FillBegun, NoSubchain
  <2> QED BY <1>3, <1>6, <2>1 DEF Fills
<1>7. CASE ~Filling /\ status.subs # <<>> /\ status.reset
  <2> DEFINE newHead == IF First(status).tail = 0 THEN 0 ELSE First(status).tail - 1
  <2>1. First(status).tail <= Height + 1
    BY <1>7 DEF TailHeld, TailOK
  <2>2. FillBegun(status) =
            IF Height > 0 THEN [pc |-> "cut", at |-> newHead, sub |-> status.subs[1]]
            ELSE [pc |-> "unflag", at |-> 0, sub |-> status.subs[1]]
    BY <1>4, <1>7, <2>1 DEF FillBegun, NoSubchain
  <2>3. newHead \in 0 .. Height
    BY <1>4, <1>7, <2>1
  <2> HIDE DEF newHead
  <2> QED BY <1>3, <1>4, <1>7, <2>2, <2>3 DEF Fills
<1> QED BY <1>5, <1>6, <1>7, <1>8

------------------------------------------------------------------------------
(* The steps.                                                               *)

LEMMA PutFacts ==
    ASSUME StoreInv, StatusInv, disk \in Disks, NEW b \in Blocks, NEW fills \in BOOLEAN,
           PutBlockOf(b, fills)
    PROVE  /\ StoreInv' /\ StatusInv'
           /\ disk' \in Disks
           /\ lock' \in Locks
           /\ status'.subs # <<>>
           /\ TailHeld => TailHeld'
           /\ UNCHANGED <<chain, fill>>
<1>1. PICK D \in Objects : status \in Statuses(D)
  BY DEF StatusInv
<1>2. status \in Live(D) /\ status.subs # <<>> /\ ~status.linked
  BY <1>1 DEF Live, PutBlockOf
<1>3. ParentHash(b) \in Blocks \cup {NoBlock} /\ Number[b] \in Nat
  BY BlockFacts
<1>4. CASE PutSkipped(b, fills) \/ PutThrows(b)
  <2>1. UNCHANGED <<chain, store, status, disk, fill>>
    BY <1>4 DEF PutSkipped, PutThrows
  <2>2. lock' = Free \/ lock' = [by |-> "put", fills |-> fills, more |-> ParentHash(b)]
    BY <1>4 DEF PutSkipped, PutThrows
  <2>3. lock' \in Locks
    BY <1>3, <2>2 DEF Locks
  <2>4. StoreInv' /\ StatusInv'
    BY <2>1 DEF StoreInv, StatusInv, chain, store
  <2>5. TailHeld => TailHeld'
    BY <2>1 DEF TailHeld, TailOK, First, Height, chain
  <2> QED BY <1>2, <2>1, <2>3, <2>4, <2>5
<1>5. CASE PutExtending(b, fills)
  <2> DEFINE c == First(status)
             longer == [c EXCEPT !.tail = Number[b], !.next = ParentHash(b)]
             extended == SetFirst(status, longer)
             merge == Merge(extended, Stored(b, FALSE))
             flagged == [merge.st EXCEPT !.reset = TRUE]
             checked == IF First(flagged).tail <= Height + 1 THEN CheckLinked(flagged) ELSE flagged
             junked == [checked EXCEPT !.linked = flagged.linked]
             more == IF merge.merged \/ checked.linked THEN NoBlock ELSE ParentHash(b)
  <2>1. /\ PutBlock(b, FALSE)
        /\ SetStatus(checked)
        /\ disk' = IF checked.subs # flagged.subs THEN Encoded(junked)
                   ELSE IF merge.st # extended THEN Encoded(merge.st)
                   ELSE disk
        /\ lock' = [by |-> "put", fills |-> fills, more |-> more]
        /\ UNCHANGED <<chain, fill>>
    BY <1>5, ZenonT(60) DEF PutExtending, Junked
  <2>2. longer \in Subchain
    <3>1. c \in Subchain
      BY <1>2, FirstType
    <3> HIDE DEF c
    <3> QED BY <3>1, SubchainOf
  <2> HIDE DEF longer
  <2>3. extended \in Live(D) /\ extended.linked = FALSE
    BY <1>1, <1>2, <2>2, SetFirstFacts DEF Statuses
  <2> HIDE DEF extended
  <2>4. merge.st \in Live(D) /\ merge.merged \in BOOLEAN /\ merge.st.linked = FALSE
    BY <2>3, MergeFacts
  <2> HIDE DEF merge
  <2>5. flagged \in Live(D) /\ flagged.linked = FALSE
    BY <2>4 DEF Live, Statuses
  <2> HIDE DEF flagged
  <2>6. checked \in Live(D) /\ TailOK(checked, Height)
    <3>1. CheckLinked(flagged) \in Live(D) /\ TailOK(CheckLinked(flagged), Height)
      BY <2>5, CheckLinkedFacts, StoreFacts DEF Live
    <3>2. TailOK(flagged, Height)
      BY <2>5 DEF TailOK
    <3> QED BY <2>5, <3>1, <3>2
  <2> HIDE DEF checked
  <2>7. checked \in Statuses(D) /\ checked.subs # <<>>
    BY <2>6 DEF Live
  <2>8. junked \in Statuses(D)
    BY <2>5, <2>7 DEF Statuses
  <2> HIDE DEF junked
  <2>9. disk' \in Disks
    BY <2>1, <2>4, <2>8, EncodedFacts DEF Live
  <2>10. lock' \in Locks
    <3>1. more \in Blocks \cup {NoBlock}
      BY <1>3
    <3> HIDE DEF more
    <3> QED BY <2>1, <3>1 DEF Locks
  <2>11. /\ StatusInv'
         /\ status'.subs = checked.subs
         /\ status'.linked = checked.linked /\ status'.reset = checked.reset
         /\ First(status') = First(checked)
    BY <2>1, <2>7, SetStatusFacts
  <2>12. Height' = Height
    BY <2>1 DEF chain, Height
  <2>13. TailHeld'
    BY <2>6, <2>11, <2>12 DEF TailHeld, TailOK
  <2>14. StoreInv'
    BY <2>1, PutBlockFacts
  <2> QED BY <2>1, <2>7, <2>9, <2>10, <2>11, <2>13, <2>14
<1> QED BY <1>4, <1>5 DEF PutBlockOf

(* A step that changes no status and no chain keeps the tail. *)
LEMMA SameTail ==
    ASSUME UNCHANGED <<chain, status>>
    PROVE  TailHeld' <=> TailHeld
BY DEF chain, TailHeld, TailOK, First, Height

LEMMA SameStore ==
    ASSUME UNCHANGED <<chain, store>>
    PROVE  (StoreInv' <=> StoreInv) /\ Height' = Height
BY DEF chain, store, StoreInv, Height

LEMMA AnnounceInv ==
    ASSUME IInv, NEW b \in Blocks, NEW force \in BOOLEAN, fcu.pc # "open",
           SetHead(b, force, FALSE), UNCHANGED <<chain, fill>>, BoundsInv'
    PROVE  IInv'
<1>1. /\ StoreInv' /\ StatusInv'
      /\ disk' \in Disks
      /\ lock' \in Locks
      /\ fcu' \in Forkchoices
      /\ fcu'.pc # "open"
      /\ status'.subs # <<>>
      /\ TailHeld => TailHeld'
      /\ faults' \subseteq faults \cup {"stale"}
  BY SetHeadFacts DEF IInv
<1>2. FillInv'
  BY DEF IInv, FillInv, Fills, Height, chain
<1>3. SubsInv'
  BY <1>1 DEF SubsInv
<1>4. TailInv'
  BY <1>1 DEF IInv, TailInv
<1>5. CountersInv'
  BY <1>1 DEF IInv, CountersInv, BoundsInv
<1> QED BY <1>1, <1>2, <1>3, <1>4, <1>5 DEF IInv

LEMMA NewPayloadInv ==
    ASSUME IInv, NEW b \in Heads, NewPayload(b)
    PROVE  IInv'
<1>1. b \in Blocks /\ BoundsInv'
  BY SkeletonAssumption DEF IInv, CountersInv, BoundsInv, NewPayload, Event, syncer
<1>2. fcu.pc # "open" /\ SetHead(b, FALSE, FALSE) /\ UNCHANGED <<chain, fill>>
  BY DEF NewPayload, Booting
<1> QED BY <1>1, <1>2, AnnounceInv

LEMMA ForkchoiceInv ==
    ASSUME IInv, NEW b \in Blocks, ForkchoiceUpdate(b), events' \in 0 .. MaxEvents
    PROVE  IInv'
<1>1. BoundsInv'
  BY DEF IInv, CountersInv, BoundsInv, ForkchoiceUpdate, syncer
<1>2. fcu.pc # "open" /\ SetHead(b, TRUE, FALSE) /\ UNCHANGED <<chain, fill>>
  BY DEF ForkchoiceUpdate
<1> QED BY <1>1, <1>2, AnnounceInv

LEMMA EventsCount ==
    ASSUME CountersInv
    PROVE  (Event => events' \in 0 .. MaxEvents) /\ events \in 0 .. MaxEvents
BY SkeletonAssumption DEF CountersInv, BoundsInv, Event

LEMMA ForkchoicesInv ==
    ASSUME IInv, SameForkchoice \/ \E b \in Heads : NewForkchoice(b)
    PROVE  IInv'
<1>1. CASE SameForkchoice
  <2>1. announced \in Blocks /\ ForkchoiceUpdate(announced) /\ events' \in 0 .. MaxEvents
    BY <1>1 DEF IInv, CountersInv, BoundsInv, SameForkchoice
  <2> QED BY <2>1, ForkchoiceInv
<1>2. ASSUME NEW b \in Heads, NewForkchoice(b)
      PROVE  IInv'
  <2>1. b \in Blocks /\ ForkchoiceUpdate(b) /\ events' \in 0 .. MaxEvents
    BY <1>2, EventsCount, SkeletonAssumption DEF IInv, NewForkchoice
  <2> QED BY <2>1, ForkchoiceInv
<1> QED BY <1>1, <1>2

LEMMA PutInv ==
    ASSUME IInv, NEW b \in Blocks, NEW fills \in BOOLEAN, PutBlockOf(b, fills),
           fcu.pc # "open", fcu' \in Forkchoices, fcu'.pc # "open", CountersInv'
    PROVE  IInv'
<1>1. /\ StoreInv' /\ StatusInv'
      /\ disk' \in Disks
      /\ lock' \in Locks
      /\ status'.subs # <<>>
      /\ TailHeld => TailHeld'
      /\ UNCHANGED <<chain, fill>>
  BY PutFacts DEF IInv
<1>2. FillInv'
  BY <1>1 DEF IInv, FillInv, Fills, Height, chain
<1>3. SubsInv'
  BY <1>1 DEF SubsInv
<1>4. TailInv'
  BY <1>1 DEF IInv, TailInv
<1> QED BY <1>1, <1>2, <1>3, <1>4 DEF IInv

LEMMA FetchesInv ==
    ASSUME IInv, Fetch \/ PutMore \/ \E b \in Blocks : FetchOther(b)
    PROVE  IInv'
<1>1. CASE Fetch
  <2>1. PutBlockOf(First(status).next, TRUE) /\ fcu.pc # "open" /\ fcu' = fcu
          /\ status.subs # <<>> /\ First(status).tail > 1
    BY <1>1 DEF Fetch, Fetching, Booting
  <2>2. PICK D \in Objects : status \in Statuses(D)
    BY DEF IInv, StatusInv
  <2>3. First(status) \in Subchain
    BY <2>1, <2>2, FirstType DEF Live
  <2>4. First(status).next \in Blocks
    BY <2>1, <2>3 DEF Subchain
  <2>5. CountersInv'
    BY <1>1 DEF Fetch, IInv, CountersInv, BoundsInv, syncer
  <2> QED BY <2>1, <2>4, <2>5, PutInv DEF IInv
<1>2. CASE PutMore
  <2>1. lock.by = "put" /\ lock.more # NoBlock /\ PutBlockOf(lock.more, lock.fills)
          /\ fcu' = fcu
    BY <1>2 DEF PutMore
  <2>2. lock.more \in Blocks /\ lock.fills \in BOOLEAN /\ lock # Free
    BY <2>1 DEF IInv, Locks, Free
  <2>3. fcu.pc # "open"
    BY <2>2 DEF IInv, SubsInv
  <2>4. CountersInv'
    BY <1>2 DEF PutMore, IInv, CountersInv, BoundsInv, syncer
  <2> QED BY <2>1, <2>2, <2>3, <2>4, PutInv DEF IInv
<1>3. ASSUME NEW b \in Blocks, FetchOther(b)
      PROVE  IInv'
  <2>1. PutBlockOf(b, TRUE) /\ fcu.pc # "open" /\ fcu' = fcu
    BY <1>3 DEF FetchOther, Booting
  <2>2. CountersInv'
    BY <1>3, EventsCount DEF FetchOther, IInv, CountersInv, BoundsInv, syncer
  <2> QED BY <2>1, <2>2, PutInv DEF IInv
<1> QED BY <1>1, <1>2, <1>3

(* The pending forkchoice goes on. *)
LEMMA ForkchoiceGoesOn ==
    ASSUME fcu \in Forkchoices, fcu.pc = "head"
    PROVE  [fcu EXCEPT !.pc = "fill"] \in Forkchoices /\ [fcu EXCEPT !.pc = "fill"].pc = "fill"
BY DEF Forkchoices

LEMMA FcuBackfillInv ==
    ASSUME IInv, FcuBackfill
    PROVE  IInv'
<1>1. /\ fcu.pc = "head" /\ lock = Free
      /\ fcu' \in Forkchoices /\ fcu'.pc = "fill"
      /\ CountersInv'
  BY ForkchoiceGoesOn DEF FcuBackfill, IInv, CountersInv, BoundsInv, syncer
<1>2. CASE ~status.linked /\ status.subs # <<>> /\ HasBlock(First(status).next)
  <2>1. PutBlockOf(First(status).next, FALSE)
    BY <1>2 DEF FcuBackfill
  <2>2. First(status).next \in Blocks
    BY <1>2 DEF HasBlock, IInv, StoreInv
  <2> QED BY <1>1, <2>1, <2>2, PutInv
<1>3. CASE ~(~status.linked /\ status.subs # <<>> /\ HasBlock(First(status).next))
  <2>1. UNCHANGED <<chain, store, status, disk, lock, fill>>
    BY <1>3 DEF FcuBackfill
  <2>2. StoreInv' /\ StatusInv' /\ FillInv' /\ (TailHeld' <=> TailHeld)
    BY <2>1, SameTail, SameStore
       DEF IInv, StoreInv, StatusInv, FillInv, Fills, Height, chain, store
  <2>3. SubsInv'
    BY <1>1, <2>1 DEF IInv, SubsInv, Working
  <2>4. TailInv'
    BY <1>1, <2>1, <2>2 DEF IInv, TailInv
  <2> QED BY <1>1, <2>1, <2>2, <2>3, <2>4 DEF IInv
<1> QED BY <1>2, <1>3

(* A call starts a fill, or ends. *)
LEMMA BeginsInv ==
    ASSUME IInv, UNCHANGED <<chain, store, status>>,
           fill' = fill \/ (status.linked /\ fill' = FillBegun(status)),
           disk' \in Disks, lock' \in Locks, lock' # Free => lock' = lock,
           fcu' \in Forkchoices, fcu.pc # "open", fcu'.pc # "open", CountersInv'
    PROVE  IInv'
<1>1. StoreInv' /\ StatusInv' /\ (TailHeld' <=> TailHeld) /\ Height' = Height
  BY SameTail, SameStore DEF IInv, StatusInv
<1>2. Filling \/ TailHeld
  BY DEF IInv, TailInv, Filling
<1>3. Fills(Height)' = Fills(Height)
  BY <1>1 DEF Fills, chain
<1>4. CASE fill' = fill
  <2>1. FillInv'
    BY <1>3, <1>4 DEF IInv, FillInv
  <2>2. SubsInv'
    BY <1>4 DEF IInv, SubsInv, Working
  <2>3. TailInv'
    BY <1>1, <1>4 DEF IInv, TailInv
  <2> QED BY <1>1, <2>1, <2>2, <2>3 DEF IInv
<1>5. CASE status.linked /\ fill' = FillBegun(status)
  <2>1. /\ fill' \in Fills(Height)
        /\ \/ fill' = fill
           \/ status.subs = <<>> /\ fill'.pc = "undefined"
           \/ status.subs # <<>> /\ (fill'.pc \in {"cut", "unflag"} \/ ~status.reset)
    BY <1>2, <1>5, FillBegunFacts DEF IInv
  <2>2. FillInv'
    BY <1>3, <2>1 DEF FillInv
  <2>3. SubsInv'
    BY <2>1 DEF IInv, SubsInv, Working
  <2>4. TailInv'
    <3>1. status.subs = <<>> \/ ~status.reset => TailHeld
      BY DEF TailHeld, TailOK
    <3> QED BY <1>1, <2>1, <3>1 DEF IInv, TailInv
  <2> QED BY <1>1, <2>2, <2>3, <2>4 DEF IInv
<1> QED BY <1>4, <1>5

LEMMA FcuFillInv ==
    ASSUME IInv, FcuFill
    PROVE  IInv'
<1>1. /\ fcu.pc = "fill" /\ lock = Free
      /\ UNCHANGED <<chain, store, status, disk, lock>>
      /\ fcu' = [pc |-> "restart"] \/ fcu' = NoFcu
      /\ fill' = fill \/ (status.linked /\ fill' = FillBegun(status))
  BY DEF FcuFill
<1>2. CountersInv'
  <2>1. events' \in 0 .. MaxEvents
    BY EventsCount DEF FcuFill, IInv
  <2> QED BY <2>1 DEF FcuFill, IInv, CountersInv, BoundsInv, syncer
<1>3. fcu' \in Forkchoices /\ fcu'.pc # "open"
  BY <1>1 DEF Forkchoices, NoFcu
<1> QED BY <1>1, <1>2, <1>3, BeginsInv DEF IInv

(* The synchroniser starts: it fetches, or fills. *)
LEMMA StartInv ==
    ASSUME IInv, Start \/ UNCHANGED <<fill, syncer>>,
           UNCHANGED <<chain, store, status, disk, lock, remote, announced, events, restarts, faults>>,
           fcu.pc # "open", fcu' \in Forkchoices, fcu'.pc # "open"
    PROVE  IInv'
<1>1. fill' = fill \/ (status.linked /\ fill' = FillBegun(status))
  BY DEF Start
<1>2. CountersInv'
  BY DEF Start, IInv, CountersInv, BoundsInv, syncer
<1> QED BY <1>1, <1>2, BeginsInv DEF IInv

LEMMA FcuRestartInv ==
    ASSUME IInv, FcuRestart
    PROVE  IInv'
<1>1. fcu.pc = "restart" /\ fcu' = NoFcu /\ Start
      /\ UNCHANGED <<chain, store, status, disk, lock, remote, announced, events, restarts, faults>>
  BY DEF FcuRestart
<1> QED BY <1>1, StartInv DEF Forkchoices, NoFcu

LEMMA BootStartInv ==
    ASSUME IInv, BootStart
    PROVE  IInv'
<1>1. /\ fcu.pc # "open"
      /\ fcu' = [pc |-> "start"] \/ fcu' = NoFcu
      /\ Start \/ UNCHANGED <<fill, syncer>>
      /\ UNCHANGED <<chain, store, status, disk, lock, remote, announced, events, restarts, faults>>
  BY DEF BootStart
<1> QED BY <1>1, StartInv DEF Forkchoices, NoFcu

LEMMA LoopEndsInv ==
    ASSUME IInv, LoopEnds
    PROVE  IInv'
<1>1. /\ looping' = FALSE
      /\ UNCHANGED <<chain, store, status, disk, lock, fill, fcu, running, remote, announced,
                     events, restarts, faults>>
  BY DEF LoopEnds
<1>2. StoreInv' /\ (TailHeld' <=> TailHeld) /\ Height' = Height
  BY <1>1, SameStore, SameTail DEF IInv
<1>3. StatusInv' /\ FillInv' /\ CountersInv'
  BY <1>1, <1>2 DEF IInv, StatusInv, FillInv, Fills, CountersInv, BoundsInv, chain
<1>4. SubsInv' /\ TailInv'
  BY <1>1, <1>2 DEF IInv, SubsInv, Working, TailInv
<1> QED BY <1>1, <1>2, <1>3, <1>4 DEF IInv

LEMMA WriteSyncStatusInv ==
    ASSUME IInv, WriteSyncStatus
    PROVE  IInv'
<1>1. /\ lock # Free /\ lock' = Free /\ disk' = Encoded(status)
      /\ UNCHANGED <<chain, store, status, fcu>>
      /\ fill' = fill \/ (status.linked /\ fill' = FillBegun(status))
  BY DEF WriteSyncStatus
<1>2. fcu.pc # "open"
  BY <1>1 DEF IInv, SubsInv
<1>3. CountersInv'
  BY DEF WriteSyncStatus, IInv, CountersInv, BoundsInv, syncer
<1>4. disk' \in Disks /\ lock' \in Locks
  BY <1>1, EncodedFacts DEF IInv, StatusInv, Locks
<1> QED BY <1>1, <1>2, <1>3, <1>4, BeginsInv DEF IInv

(* The steps of a fill. *)
LEMMA FillingFacts ==
    ASSUME IInv, Working
    PROVE  /\ fcu.pc # "open" /\ status.subs # <<>>
           /\ fill.at \in Nat /\ fill.sub \in Nat /\ Height \in Nat
<1>1. fcu.pc # "open" /\ status.subs # <<>>
  BY DEF IInv, SubsInv, Working, NoFill
<1>2. Height \in Nat
  BY StoreFacts DEF IInv
<1>3. fill \in Fills(Height) /\ fill # NoFill /\ fill # [pc |-> "undefined"]
  BY DEF IInv, FillInv, Working, NoFill
<1> QED BY <1>1, <1>2, <1>3 DEF Fills

LEMMA FillResetInv ==
    ASSUME IInv, FillReset
    PROVE  IInv'
<1>1. /\ fill.pc = "cut"
      /\ UNCHANGED <<known, store, status, disk, lock, fcu, syncer, remote, announced, events, restarts, faults>>
  BY DEF FillReset, FillSteps
<1>2. fill \in [pc : {"cut"}, at : 0 .. Height, sub : Nat] /\ Height \in Nat
  BY <1>1, StoreFacts DEF IInv, FillInv, Fills, NoFill
<1>3. tip' = Path[tip][fill.at] /\ fill' = [fill EXCEPT !.pc = "unflag"]
  BY <1>2 DEF FillReset
<1>4. tip \in Blocks /\ tip' \in known /\ tip' \in Blocks /\ Height' = fill.at
  BY <1>2, <1>3, BlockFacts DEF IInv, StoreInv, Height
<1>5. StoreInv'
  BY <1>1, <1>4 DEF IInv, StoreInv, store
<1>6. fill' \in [pc : {"unflag"}, at : {fill.at}, sub : Nat]
  BY <1>2, <1>3
<1>7. FillInv'
  BY <1>4, <1>6 DEF FillInv, Fills
<1>8. SubsInv'
  BY <1>1, <1>6 DEF IInv, SubsInv, Working, NoFill
<1>9. TailInv'
  BY <1>6 DEF TailInv
<1>10. StatusInv' /\ CountersInv'
  BY <1>1 DEF IInv, StatusInv, CountersInv, BoundsInv, syncer
<1> QED BY <1>1, <1>5, <1>7, <1>8, <1>9, <1>10 DEF IInv

LEMMA FillUnflagInv ==
    ASSUME IInv, FillUnflag
    PROVE  IInv'
<1>1. /\ fill.pc = "unflag" /\ lock = Free
      /\ status' = [status EXCEPT !.reset = FALSE]
      /\ fill' = [fill EXCEPT !.pc = "loop"]
      /\ UNCHANGED <<chain, store, disk, lock, fcu, syncer, remote, announced, events, restarts>>
      /\ faults' \subseteq faults \cup {"flag"}
  BY DEF FillUnflag, FillSteps
<1>2. fill \in [pc : {"unflag", "loop"}, at : {Height}, sub : Nat]
  BY <1>1 DEF IInv, FillInv, Fills, NoFill
<1>3. StoreInv' /\ Height' = Height
  BY <1>1, SameStore DEF IInv
<1>4. PICK D \in Objects : status \in Statuses(D)
  BY DEF IInv, StatusInv
<1>5. status' \in Statuses(D) /\ ~status'.reset /\ status'.subs = status.subs
  BY <1>1, <1>4 DEF Statuses
<1>6. StatusInv'
  BY <1>5 DEF StatusInv
<1>7. fill' \in [pc : {"loop"}, at : {Height}, sub : Nat]
  BY <1>1, <1>2
<1>8. FillInv'
  BY <1>3, <1>7 DEF FillInv, Fills
<1>9. SubsInv'
  <2>1. Working
    BY <1>1 DEF Working
  <2> QED BY <1>1, <1>5, <2>1, FillingFacts DEF SubsInv
<1>10. TailInv'
  BY <1>5 DEF TailInv, TailHeld, TailOK
<1>11. CountersInv'
  BY <1>1 DEF IInv, CountersInv, BoundsInv, syncer
<1> QED BY <1>1, <1>3, <1>6, <1>8, <1>9, <1>10, <1>11 DEF IInv

(* A fill that reads, ends, or looks at the flag changes nothing else. *)
LEMMA FillMovesOn ==
    ASSUME IInv, fill.pc \in {"loop", "missing", "delete"}, fill' \in Fills(Height),
           fill'.pc \notin {"cut", "unflag"},
           UNCHANGED <<chain, store, status, disk, lock, fcu, syncer, remote, announced, events, restarts, faults>>
    PROVE  IInv'
<1>1. StoreInv' /\ StatusInv' /\ (TailHeld' <=> TailHeld) /\ Height' = Height
  BY SameTail, SameStore DEF IInv, StatusInv
<1>2. FillInv'
  BY <1>1 DEF FillInv, Fills, chain
<1>3. Working
  BY DEF Working
<1>4. SubsInv'
  BY <1>3, FillingFacts DEF SubsInv
<1>5. TailInv'
  BY <1>1, <1>3, FillingFacts DEF IInv, TailInv
<1>6. CountersInv'
  BY DEF IInv, CountersInv, BoundsInv, syncer
<1> QED BY <1>1, <1>2, <1>4, <1>5, <1>6 DEF IInv

LEMMA FillEndInv ==
    ASSUME IInv, FillEnd \/ FillBreak
    PROVE  IInv'
<1>1. /\ fill.pc \in {"loop", "missing"} /\ fill' = NoFill
      /\ UNCHANGED <<chain, store, status, disk, lock, fcu, syncer, remote, announced, events, restarts, faults>>
  BY DEF FillEnd, FillBreak, FillSteps
<1>2. fill' \in Fills(Height) /\ fill'.pc \notin {"cut", "unflag"}
  BY <1>1 DEF Fills, NoFill
<1> QED BY <1>1, <1>2, FillMovesOn

LEMMA FillReadInv ==
    ASSUME IInv, FillRead
    PROVE  IInv'
<1> DEFINE b == GetBlock(fill.at + 1, sk)
<1>1. /\ fill.pc = "loop"
      /\ fill' = [pc |-> IF b = NoBlock THEN "missing" ELSE "put",
                  at |-> fill.at, sub |-> fill.sub, block |-> b]
      /\ UNCHANGED <<chain, store, status, disk, lock, fcu, syncer, remote, announced, events, restarts, faults>>
  BY DEF FillRead, FillSteps
<1>2. fill \in [pc : {"unflag", "loop"}, at : {Height}, sub : Nat]
  BY <1>1 DEF IInv, FillInv, Fills, NoFill
<1>3. Height \in Nat /\ fill.at = Height /\ b \in Blocks \cup {NoBlock}
  BY <1>2, StoreFacts DEF IInv
<1>4. ASSUME b # NoBlock PROVE Number[b] = Height + 1
  <2>1. Canonical(Height + 1) = NoBlock
    BY <1>3 DEF Canonical
  <2> QED BY <1>3, <1>4, <2>1 DEF GetBlock, IInv, StoreInv
<1> HIDE DEF b
<1>5. fill' \in Fills(Height) /\ fill'.pc \in {"missing", "put"}
  BY <1>1, <1>2, <1>3, <1>4 DEF Fills
<1> QED BY <1>1, <1>5, FillMovesOn

LEMMA FillPutInv ==
    ASSUME IInv, FillPut
    PROVE  IInv'
<1> DEFINE b == fill.block
           accepted == Parent(b) \in known
<1>1. /\ fill.pc = "put"
      /\ UNCHANGED <<store, status, disk, lock, fcu, syncer, remote, announced, events, restarts, faults>>
  BY DEF FillPut, FillSteps
<1>2. fill \in [pc : {"put"}, at : {Height}, sub : Nat,
                block : {x \in Blocks : Number[x] = Height + 1}] /\ Height \in Nat
  BY <1>1, StoreFacts DEF IInv, FillInv, Fills, NoFill
<1>3. b \in Blocks /\ Number[b] = Height + 1 /\ fill.at = Height
  BY <1>2
<1>4. CASE accepted
  <2>1. /\ tip' = b /\ known' = known \cup {b}
        /\ fill' = [fill EXCEPT !.pc = "delete", !.at = @ + 1]
    BY <1>2, <1>3, <1>4 DEF FillPut
  <2>2. Height' = Height + 1
    BY <1>3, <2>1 DEF Height
  <2>3. \A n \in 0 .. Number[b] : Path[b][n] \in known'
    <3>1. TAKE n \in 0 .. Number[b]
    <3>2. CASE n = Number[b]
      BY <1>3, <2>1, <3>2, BlockFacts
    <3>3. CASE n # Number[b]
      <4>1. /\ Number[b] - 1 \in 0 .. Number[b] /\ n \in 0 .. Number[b] - 1
            /\ Parent(b) = Path[b][Number[b] - 1]
        BY <1>2, <1>3, <3>3 DEF Parent
      <4>2. Path[Parent(b)][n] = Path[b][n] /\ Number[Parent(b)] = Number[b] - 1
        BY <1>3, <4>1, BlockFacts
      <4> QED BY <1>4, <2>1, <4>1, <4>2 DEF IInv, StoreInv
    <3> QED BY <3>2, <3>3
  <2>4. StoreInv'
    BY <1>1, <1>3, <2>1, <2>3 DEF IInv, StoreInv, store
  <2>5. fill' \in [pc : {"delete"}, at : {Height + 1}, sub : Nat, block : known']
    BY <1>2, <1>3, <2>1
  <2>6. FillInv'
    BY <2>2, <2>5 DEF FillInv, Fills
  <2>7. Working
    BY <1>1 DEF Working
  <2>8. SubsInv'
    BY <1>1, <2>7, FillingFacts DEF SubsInv
  <2>9. TailHeld => TailHeld'
    <3>1. ASSUME TailHeld, status'.subs # <<>>, status'.linked, status'.reset
          PROVE  First(status').tail <= Height' + 1
      <4>1. PICK D \in Objects : status \in Statuses(D)
        BY DEF IInv, StatusInv
      <4>2. status \in Live(D)
        BY <1>1, <3>1, <4>1 DEF Live
      <4>3. First(status).tail \in Nat
        BY <4>2, FirstType DEF Subchain
      <4>4. First(status).tail <= Height + 1
        BY <1>1, <3>1 DEF TailHeld, TailOK
      <4>5. First(status') = First(status)
        BY <1>1
      <4> QED BY <1>2, <2>2, <4>3, <4>4, <4>5
    <3> QED BY <3>1 DEF TailHeld, TailOK
  <2>10. TailInv'
    BY <1>1, <2>7, <2>9, FillingFacts DEF IInv, TailInv
  <2>11. StatusInv' /\ CountersInv'
    BY <1>1 DEF IInv, StatusInv, CountersInv, BoundsInv, syncer
  <2> QED BY <1>1, <2>4, <2>6, <2>8, <2>10, <2>11 DEF IInv
<1>5. CASE ~accepted
  <2>1. UNCHANGED chain /\ fill' = [fill EXCEPT !.pc = "rejected"]
    BY <1>2, <1>3, <1>5 DEF FillPut, chain
  <2>2. StoreInv' /\ StatusInv' /\ (TailHeld' <=> TailHeld) /\ Height' = Height
    BY <1>1, <2>1, SameTail, SameStore DEF IInv, StatusInv
  <2>3. fill' \in [pc : {"rejected"}, at : {Height}, sub : Nat, block : Blocks]
    BY <1>2, <1>3, <2>1
  <2>4. FillInv'
    BY <2>2, <2>3 DEF FillInv, Fills
  <2>5. Working
    BY <1>1 DEF Working
  <2>6. SubsInv'
    BY <1>1, <2>5, FillingFacts DEF SubsInv
  <2>7. TailInv'
    BY <1>1, <2>2, <2>5, FillingFacts DEF IInv, TailInv
  <2>8. CountersInv'
    BY <1>1 DEF IInv, CountersInv, BoundsInv, syncer
  <2> QED BY <1>1, <2>2, <2>4, <2>6, <2>7, <2>8 DEF IInv
<1> QED BY <1>4, <1>5

LEMMA FillDeleteInv ==
    ASSUME IInv, FillDelete
    PROVE  IInv'
<1>1. /\ fill.pc = "delete"
      /\ fill' = [pc |-> "loop", at |-> fill.at, sub |-> fill.sub]
      /\ UNCHANGED <<chain, status, disk, lock, fcu, syncer, remote, announced, events, restarts, faults>>
      /\ \/ UNCHANGED store
         \/ /\ sk' = [n \in DOMAIN sk \ {Number[fill.block]} |-> sk[n]]
            /\ byHash' = byHash \ {fill.block}
  BY DEF FillDelete, FillSteps
<1>2. fill \in [pc : {"delete"}, at : {Height}, sub : Nat, block : known]
  BY <1>1 DEF IInv, FillInv, Fills, NoFill
<1>3. StoreInv'
  BY <1>1 DEF IInv, StoreInv, store, chain
<1>4. StatusInv' /\ (TailHeld' <=> TailHeld) /\ Height' = Height
  BY <1>1, SameTail DEF IInv, StatusInv, chain, Height
<1>5. FillInv'
  BY <1>1, <1>2, <1>4 DEF FillInv, Fills
<1>6. Working
  BY <1>1 DEF Working
<1>7. SubsInv'
  BY <1>1, <1>6, FillingFacts DEF SubsInv
<1>8. TailInv'
  BY <1>1, <1>4, <1>6, FillingFacts DEF IInv, TailInv
<1>9. CountersInv'
  BY <1>1 DEF IInv, CountersInv, BoundsInv, syncer
<1> QED BY <1>1, <1>3, <1>4, <1>5, <1>7, <1>8, <1>9 DEF IInv

(* A back step truncates the first subchain or drops them all. *)
LEMMA BackSteppedFacts ==
    ASSUME StoreInv, NEW D, status \in Live(D), NEW from \in Nat
    PROVE  BackStepped(from) \in Statuses(D)
<1> DEFINE c == First(status)
           start == IF c.tail < from THEN from ELSE c.tail
           Get(n) == GetCanonicalBlock(n, sk, status.linked)
           tried == {n \in start .. c.head : n > start /\ (n - start) % BackStep = 0
                                              /\ Get(n) # NoBlock}
           newTail == IF tried = {} THEN c.head
                      ELSE CHOOSE n \in tried : \A m \in tried : n <= m
<1>1. c.tail \in Nat /\ c.head \in Nat
  BY FirstType DEF Subchain
<1>2. start \in Nat
  BY <1>1
<1>3. BackStepped(from) =
        IF BackStep = 0 THEN status
        ELSE IF Get(newTail) # NoBlock THEN Truncated(status, Get(newTail))
        ELSE [status EXCEPT !.subs = <<>>]
  BY DEF BackStepped
<1> HIDE DEF c, start
<1>4. tried \subseteq Nat
  BY <1>1, <1>2
<1> HIDE DEF tried
<1>5. newTail \in Nat
  <2>1. CASE tried = {}
    BY <1>1, <2>1
  <2>2. CASE tried # {}
    <3>1. \E n \in tried : \A m \in tried : n <= m
      BY <1>4, <2>2, LeastOf
    <3> QED BY <1>4, <2>2, <3>1
  <2> QED BY <2>1, <2>2
<1> HIDE DEF newTail
<1>6. Get(newTail) \in Blocks \cup {NoBlock}
  BY <1>5, StoreFacts
<1> HIDE DEF Get
<1>7. Get(newTail) # NoBlock => Truncated(status, Get(newTail)) \in Statuses(D)
  BY <1>6, TruncateFacts DEF Live
<1>8. [status EXCEPT !.subs = <<>>] \in Statuses(D)
  <2>1. <<>> \in Seq(D)
    OBVIOUS
  <2> QED BY <2>1 DEF Live, Statuses
<1> QED BY <1>3, <1>7, <1>8 DEF Live

LEMMA FillBackStepInv ==
    ASSUME IInv, FillBackStep
    PROVE  IInv'
<1> DEFINE st == BackStepped(fill.at + 1)
           flagged == [st EXCEPT !.reset = TRUE]
           checked == CheckLinked(flagged)
           junked == [checked EXCEPT !.linked = flagged.linked]
           used == {checked.subs[k] : k \in DOMAIN checked.subs}
<1>1. /\ fill.pc \in {"missing", "rejected"} /\ lock = Free /\ fill' = NoFill
      /\ UNCHANGED <<chain, store, lock, fcu, syncer, remote, announced, events, restarts, faults>>
      /\ \/ UNCHANGED <<status, disk>>
         \/ /\ status' = [checked EXCEPT !.obj = [i \in used |-> checked.obj[i]]]
            /\ disk' = IF checked.subs # flagged.subs THEN Encoded(junked)
                       ELSE IF BackStep > 0 THEN Encoded(st) ELSE disk
  BY Zenon DEF FillBackStep, FillSteps, Junked
<1>2. Working
  BY <1>1 DEF Working
<1>3. StoreInv' /\ Height' = Height
  BY <1>1, SameStore DEF IInv
<1>4. FillInv' /\ ~Working' /\ fcu'.pc # "open" /\ lock' = Free
  BY <1>1, <1>2, FillingFacts DEF FillInv, Fills, Working, NoFill
<1>5. CountersInv'
  BY <1>1 DEF IInv, CountersInv, BoundsInv, syncer
<1>6. PICK D \in Objects : status \in Statuses(D)
  BY DEF IInv, StatusInv
<1>7. status \in Live(D)
  BY <1>2, <1>6, FillingFacts DEF Live
<1>8. st \in Statuses(D)
  BY <1>2, <1>7, FillingFacts, BackSteppedFacts DEF IInv
<1>9. CASE UNCHANGED <<status, disk>>
  <2>1. StatusInv' /\ (TailHeld' <=> TailHeld)
    BY <1>1, <1>9, SameTail DEF IInv, StatusInv
  <2>2. SubsInv'
    BY <1>1, <1>2, <1>4, <1>9, FillingFacts DEF SubsInv
  <2>3. TailInv'
    BY <1>1, <1>2, <2>1, FillingFacts DEF IInv, TailInv
  <2> QED BY <1>1, <1>3, <1>4, <1>5, <1>9, <2>1, <2>2, <2>3 DEF IInv
<1>10. CASE /\ status' = [checked EXCEPT !.obj = [i \in used |-> checked.obj[i]]]
            /\ disk' = IF checked.subs # flagged.subs THEN Encoded(junked)
                       ELSE IF BackStep > 0 THEN Encoded(st) ELSE disk
  <2> HIDE DEF st
  <2>1. flagged \in Statuses(D)
    BY <1>8 DEF Statuses
  <2> HIDE DEF flagged
  <2>2. /\ checked \in Statuses(D)
        /\ checked.linked => flagged.subs # <<>>
        /\ flagged.subs # <<>> =>
             checked.subs # <<>> /\ TailOK(checked, Height)
    BY <2>1, <1>3, StoreFacts, CheckLinkedFacts DEF Live, IInv
  <2>3. flagged.subs = <<>> => checked.subs = <<>>
    BY DEF CheckLinked, Linked
  <2> HIDE DEF checked
  <2>11. junked \in Statuses(D)
    BY <2>1, <2>2 DEF Statuses
  <2> HIDE DEF junked
  <2>4. used \subseteq D
    <3>1. checked.subs \in Seq(D)
      BY <2>2 DEF Statuses
    <3>2. \A k \in DOMAIN checked.subs : checked.subs[k] \in D
      BY <3>1
    <3> QED BY <3>2
  <2>5. \A k \in DOMAIN checked.subs : checked.subs[k] \in used
    OBVIOUS
  <2> HIDE DEF used
  <2>6. /\ used \in Objects
        /\ status' \in Statuses(used)
        /\ status'.subs = checked.subs
        /\ status'.linked = checked.linked /\ status'.reset = checked.reset
        /\ checked.subs # <<>> => First(status') = First(checked)
    BY <1>10, <2>2, <2>4, <2>5, RestrictFacts
  <2>7. StatusInv'
    BY <2>6 DEF StatusInv
  <2>8. TailHeld'
    BY <1>3, <2>2, <2>3, <2>6 DEF TailHeld, TailOK
  <2>9. SubsInv'
    BY <1>4, <2>2, <2>6 DEF SubsInv
  <2>10. disk' \in Disks
    BY <1>8, <1>10, <2>11, EncodedFacts DEF IInv
  <2> QED BY <1>1, <1>3, <1>4, <1>5, <2>7, <2>8, <2>9, <2>10 DEF IInv, TailInv
<1> QED BY <1>1, <1>9, <1>10

LEMMA RestartInv ==
    ASSUME IInv, Restart
    PROVE  IInv'
<1> DEFINE ids == [i \in DOMAIN disk.subs |-> i]
           D == 1 .. Len(disk.subs)
<1>1. /\ status' = [subs |-> ids, obj |-> disk.subs, linked |-> disk.linked, reset |-> disk.reset]
      /\ lock' = Free
      /\ fill' = NoFill
      /\ fcu' = [pc |-> IF disk.subs = <<>> THEN "start" ELSE "open"]
      /\ UNCHANGED <<chain, store, disk>>
  BY DEF Restart
<1>2. disk.subs \in Seq(Subchain) /\ disk.linked \in BOOLEAN /\ disk.reset \in BOOLEAN
  BY DEF IInv, Disks
<1>3. Len(disk.subs) \in Nat /\ DOMAIN disk.subs = D /\ disk.subs \in [D -> Subchain]
  BY <1>2
<1>4. D \in Objects
  BY <1>3, FS_Interval DEF Objects
<1>5. ids \in Seq(D) /\ (disk.subs # <<>> => ids # <<>>) /\ (disk.subs = <<>> => ids = <<>>)
  <2>1. ids = [i \in 1 .. Len(disk.subs) |-> i]
    BY <1>3
  <2> HIDE DEF ids
  <2>2. ids \in Seq(D) /\ Len(ids) = Len(disk.subs)
    BY <1>3, <2>1
  <2>3. disk.subs = <<>> <=> Len(disk.subs) = 0
    BY <1>2
  <2>4. ids = <<>> <=> Len(ids) = 0
    BY <2>2
  <2> QED BY <2>2, <2>3, <2>4
<1> HIDE DEF D
<1>6. status' \in Statuses(D) /\ status'.subs = ids
  BY <1>1, <1>2, <1>3, <1>5 DEF Statuses
<1>7. StatusInv'
  BY <1>4, <1>6 DEF StatusInv
<1>8. StoreInv'
  BY <1>1, SameStore DEF IInv
<1>9. lock' \in Locks /\ fcu' \in Forkchoices /\ FillInv'
  BY <1>1 DEF Locks, Forkchoices, FillInv, Fills
<1> HIDE DEF ids
<1>10. SubsInv'
  BY <1>1, <1>5, <1>6 DEF SubsInv, Working, NoFill
<1>11. TailInv'
  BY <1>1, <1>5, <1>6 DEF TailInv, TailHeld
<1>12. CountersInv'
  <2>1. announced' = announced /\ events' \in 0 .. MaxEvents /\ faults' \subseteq faults \cup {"torn"}
    BY EventsCount DEF Restart, IInv
  <2>2. restarts' \in 0 .. MaxRestarts
    BY SkeletonAssumption DEF Restart, IInv, CountersInv, BoundsInv
  <2>3. running' \in BOOLEAN /\ looping' \in BOOLEAN /\ remote' = {}
    BY Zenon DEF Restart
  <2> QED BY <2>1, <2>2, <2>3 DEF IInv, CountersInv, BoundsInv
<1> QED BY <1>1, <1>7, <1>8, <1>9, <1>10, <1>11, <1>12 DEF IInv

LEMMA OpenInv ==
    ASSUME IInv, Open
    PROVE  IInv'
<1> DEFINE head == GetCanonicalBlock(First(status).head, sk, status.linked)
           none == [subs |-> <<>>, obj |-> <<>>, linked |-> FALSE, reset |-> FALSE]
<1>1. /\ fcu.pc = "open"
      /\ UNCHANGED <<chain, fill, syncer, remote, announced, events, restarts>>
      /\ \/ head # NoBlock /\ SetHead(head, TRUE, TRUE)
         \/ /\ status' = none /\ disk' = Encoded(none) /\ fcu' = [pc |-> "start"]
            /\ UNCHANGED <<store, lock, faults>>
  BY DEF Open
<1>2. status.subs # <<>> /\ lock = Free /\ fill = NoFill
  BY <1>1 DEF IInv, SubsInv
<1>3. BoundsInv'
  BY <1>1 DEF IInv, CountersInv, BoundsInv, syncer
<1>4. FillInv' /\ ~Working'
  BY <1>1, <1>2 DEF FillInv, Fills, Working, NoFill
<1>5. CASE head # NoBlock /\ SetHead(head, TRUE, TRUE)
  <2>1. PICK D \in Objects : status \in Statuses(D)
    BY DEF IInv, StatusInv
  <2>2. First(status).head \in Nat
    BY <1>2, <2>1, FirstType DEF Live, Subchain
  <2>3. head \in Blocks
    BY <1>5, <2>2, StoreFacts DEF IInv
  <2> HIDE DEF head
  <2>4. /\ StoreInv' /\ StatusInv'
        /\ disk' \in Disks
        /\ lock' \in Locks
        /\ fcu' \in Forkchoices
        /\ fcu'.pc # "open"
        /\ status'.subs # <<>>
        /\ TailHeld'
        /\ faults' \subseteq faults \cup {"stale"}
    BY <1>1, <1>5, <2>3, SetHeadFacts DEF IInv
  <2>5. CountersInv'
    BY <1>3, <2>4 DEF IInv, CountersInv, BoundsInv, syncer
  <2> QED BY <1>4, <2>4, <2>5 DEF IInv, SubsInv, TailInv
<1>6. CASE /\ status' = none /\ disk' = Encoded(none) /\ fcu' = [pc |-> "start"]
           /\ UNCHANGED <<store, lock, faults>>
  <2>1. {} \in Objects /\ none \in Statuses({}) /\ none.subs = <<>> /\ ~none.linked
    BY FS_EmptySet DEF Objects, Statuses
  <2> HIDE DEF none
  <2>2. StatusInv' /\ disk' \in Disks
    BY <1>6, <2>1, EncodedFacts DEF StatusInv
  <2>3. StoreInv'
    BY <1>1, <1>6, SameStore DEF IInv
  <2>4. fcu' \in Forkchoices /\ fcu'.pc # "open"
    BY <1>6 DEF Forkchoices
  <2>5. SubsInv'
    BY <1>2, <1>4, <1>6, <2>1, <2>4 DEF SubsInv
  <2>6. TailInv'
    BY <1>6, <2>1 DEF TailInv, TailHeld
  <2>7. lock' \in Locks
    BY <1>6 DEF IInv
  <2>8. CountersInv'
    BY <1>3, <1>6 DEF IInv, CountersInv, BoundsInv, syncer
  <2> QED BY <1>4, <2>2, <2>3, <2>4, <2>5, <2>6, <2>7, <2>8 DEF IInv
<1> QED BY <1>1, <1>5, <1>6

LEMMA StutterInv ==
    ASSUME IInv, UNCHANGED vars
    PROVE  IInv'
<1>1. UNCHANGED <<chain, store, status, disk, lock, fill, fcu, syncer, remote, announced, events, restarts, faults>>
  BY DEF vars, chain, store
<1>2. StoreInv' /\ (TailHeld' <=> TailHeld) /\ Height' = Height
  BY <1>1, SameStore, SameTail DEF IInv
<1>3. StatusInv' /\ FillInv' /\ CountersInv'
  BY <1>1, <1>2 DEF IInv, StatusInv, FillInv, Fills, CountersInv, BoundsInv, syncer, chain
<1>4. SubsInv'
  BY <1>1 DEF IInv, SubsInv, Working
<1>5. TailInv'
  BY <1>1, <1>2 DEF IInv, TailInv
<1> QED BY <1>1, <1>2, <1>3, <1>4, <1>5 DEF IInv

LEMMA NextInv ==
    ASSUME IInv, [Next]_vars
    PROVE  IInv'
<1>1. CASE \E b \in Heads : NewPayload(b)
  BY <1>1, NewPayloadInv
<1>2. CASE SameForkchoice \/ \E b \in Heads : NewForkchoice(b)
  BY <1>2, ForkchoicesInv
<1>3. CASE Fetch \/ PutMore \/ \E b \in Blocks : FetchOther(b)
  BY <1>3, FetchesInv
<1>4. CASE FcuStep
  BY <1>4, FcuBackfillInv, FcuFillInv, FcuRestartInv DEF FcuStep
<1>5. CASE WriteSyncStatus
  BY <1>5, WriteSyncStatusInv
<1>6. CASE FillStep
  BY <1>6, FillResetInv, FillUnflagInv, FillEndInv, FillReadInv, FillPutInv, FillDeleteInv,
     FillBackStepInv DEF FillStep
<1>7. CASE Restart
  BY <1>7, RestartInv
<1>8. CASE Open
  BY <1>8, OpenInv
<1>10. CASE LoopEnds \/ BootStart
  BY <1>10, LoopEndsInv, BootStartInv
<1>9. CASE UNCHANGED vars
  BY <1>9, StutterInv
<1> QED BY <1>1, <1>2, <1>3, <1>4, <1>5, <1>6, <1>7, <1>8, <1>9, <1>10 DEF Next

------------------------------------------------------------------------------
(* The theorems.                                                            *)

(* The invariant holds however many heads are announced, payloads repeated, *)
(* answers late and processes restarted.                                    *)
THEOREM SkeletonInductive == Spec => []IInv
<1>1. Init => IInv
  BY InitInv
<1>2. IInv /\ [Next]_vars => IInv'
  BY NextInv
<1> QED BY <1>1, <1>2, PTL DEF Spec

(* Chain, skeleton, status and pending calls keep their types: no handler   *)
(* reads a subchain, a block or a number that is not there.                 *)
THEOREM TypeCorrectSkeleton == Spec => []TypeOK
BY SkeletonInductive, TypesHold, PTL

(* fillCanonicalChain never throws: whatever setHead does between two of    *)
(* its awaits, when it begins to cut the chain the tail is at most one      *)
(* above the head, so that filling does not stay true for ever.             *)
THEOREM FillNeverStuck == Spec => []FillNotStuck
BY SkeletonInductive, FillNotThrown, PTL

LEMMA HashesKept ==
    ASSUME IInv, [Next]_vars
    PROVE  \A b \in byHash : b \in byHash' \cup known
<1>1. ASSUME NEW b, NEW only, PutBlock(b, only)
      PROVE  byHash \subseteq byHash'
  BY <1>1 DEF PutBlock
<1>2. ASSUME NEW b, NEW fills, PutBlockOf(b, fills)
      PROVE  byHash \subseteq byHash'
  BY <1>2, <1>1 DEF PutBlockOf, PutExtending, PutSkipped, PutThrows, store
<1>3. ASSUME NEW b, NEW force, NEW init, SetHead(b, force, init)
      PROVE  byHash \subseteq byHash'
  BY <1>3, <1>1 DEF SetHead
<1>4. CASE \E b \in Heads : NewPayload(b) \/ NewForkchoice(b)
  BY <1>3, <1>4 DEF NewPayload, NewForkchoice, ForkchoiceUpdate
<1>5. CASE SameForkchoice
  BY <1>3, <1>5 DEF SameForkchoice, ForkchoiceUpdate
<1>6. CASE Fetch \/ PutMore \/ \E b \in Blocks : FetchOther(b)
  BY <1>2, <1>6 DEF Fetch, PutMore, FetchOther
<1>7. CASE FcuStep
  BY <1>2, <1>7 DEF FcuStep, FcuBackfill, FcuFill, FcuRestart, store
<1>8. CASE FillDelete
  <2>1. fill.block \in known
    BY <1>8 DEF FillDelete, IInv, FillInv, Fills, NoFill
  <2> QED BY <1>8, <2>1 DEF FillDelete, store
<1>9. CASE FillReset \/ FillUnflag \/ FillEnd \/ FillRead \/ FillPut \/ FillBackStep \/ FillBreak
  BY <1>9 DEF FillReset, FillUnflag, FillEnd, FillRead, FillPut, FillBackStep, FillBreak, store
<1>10. CASE WriteSyncStatus \/ Restart \/ LoopEnds \/ BootStart \/ UNCHANGED vars
  BY <1>10 DEF WriteSyncStatus, Restart, LoopEnds, BootStart, vars, store
<1>11. CASE Open
  BY <1>3, <1>11 DEF Open, store
<1> QED BY <1>4, <1>5, <1>6, <1>7, <1>8, <1>9, <1>10, <1>11 DEF Next, FillStep

(* deleteBlock, the only call that forgets a hash, deletes a block that the *)
(* fill has put in the chain.                                               *)
THEOREM NoneLost == Spec => NothingLost
<1>1. IInv /\ [Next]_vars => [\A b \in byHash : b \in byHash' \cup known]_vars
  BY HashesKept
<1> QED BY <1>1, SkeletonInductive, PTL DEF Spec, NothingLost

=============================================================================
