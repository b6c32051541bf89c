-------------------------- MODULE BootMemoryProofs --------------------------
(***************************************************************************)
(* Frames are given out once and the heaps are mapped whole, for every     *)
(* valid memory map, every page size and every list of areas.              *)
(***************************************************************************)
EXTENDS BootMemory, SequenceTheorems, WellFoundedInduction, TLAPS

-----------------------------------------------------------------------------
(* usable_frames: the frames of one region are consecutive, and flat_map lines up those
   of all the usable regions. *)

(* Flattening, as far as the first n sequences. *)
IsFlat(f, ss, n) == f = [i \in 1..n |-> IF i = 1 THEN ss[i] ELSE f[i - 1] \o ss[i]]

(* FlattenSeq is defined by recursion: such a function exists. *)
LEMMA FlatExists ==
  ASSUME NEW ss, NEW len \in Nat \ {0}
  PROVE  \E f : IsFlat(f, ss, len)
<1> DEFINE T == {n \in Nat \ {0} : ~\E f : IsFlat(f, ss, n)}
<1>1. T = {}
  <2> SUFFICES ASSUME T # {} PROVE FALSE
    OBVIOUS
  <2>1. PICK n \in T : \A k \in T : ~(<<k, n>> \in OpToRel(<, Nat))
    BY NatLessThanWellFounded, WFMin
  <2>2. \A k \in Nat : k < n => k \notin T
    BY <2>1 DEF OpToRel
  <2>3. CASE n = 1
    <3> DEFINE f == [i \in 1..1 |-> ss[1]]
    <3>1. IsFlat(f, ss, 1)
      BY DEF IsFlat
    <3> QED BY <2>3, <3>1
  <2>4. CASE n # 1
    <3>1. n - 1 \in Nat \ {0} /\ n - 1 < n /\ n \in Nat
      BY <2>4
    <3>2. PICK g : IsFlat(g, ss, n - 1)
      BY <2>2, <3>1
    <3> DEFINE f == [i \in 1..n |-> IF i < n THEN g[i] ELSE g[n - 1] \o ss[n]]
    <3>3. \A i \in 1..(n - 1) : g[i] = IF i = 1 THEN ss[i] ELSE g[i - 1] \o ss[i]
      BY <3>2 DEF IsFlat
    <3>4. ASSUME NEW i \in 1..n PROVE f[i] = IF i = 1 THEN ss[i] ELSE f[i - 1] \o ss[i]
      <4>1. CASE i < n
        <5>1. i \in 1..(n - 1) /\ f[i] = g[i]
          BY <3>1, <4>1
        <5>2. i # 1 => i - 1 \in 1..n /\ i - 1 < n
          BY <3>1, <4>1
        <5>3. i # 1 => f[i - 1] = g[i - 1]
          BY <5>2
        <5> HIDE DEF f
        <5> QED BY <3>3, <5>1, <5>3
      <4>2. CASE i = n
        <5>1. n - 1 \in 1..n /\ n - 1 < n /\ ~(n < n) /\ n \in 1..n
          BY <3>1
        <5>2. f[n - 1] = g[n - 1] /\ f[n] = g[n - 1] \o ss[n]
          BY <5>1
        <5> HIDE DEF f
        <5> QED BY <2>4, <4>2, <5>2
      <4> QED BY <3>1, <4>1, <4>2
    <3>5. IsFlat(f, ss, n)
      BY <3>4 DEF IsFlat
    <3> QED BY <3>5
  <2> QED BY <2>3, <2>4
<1> QED BY <1>1

(* FlattenSeq has the elements of the sequences, each as often as they do. *)
LEMMA Flattened ==
  ASSUME NEW S, NEW ss \in Seq(Seq(S))
  PROVE  /\ FlattenSeq(ss) \in Seq(S)
         /\ \A n \in 1..Len(FlattenSeq(ss)) :
              \E i \in 1..Len(ss) : \E k \in 1..Len(ss[i]) : FlattenSeq(ss)[n] = ss[i][k]
         /\ (\A i, j \in 1..Len(ss) : \A k \in 1..Len(ss[i]), l \in 1..Len(ss[j]) :
               ss[i][k] = ss[j][l] => i = j /\ k = l)
            => \A n, o \in 1..Len(FlattenSeq(ss)) :
                 FlattenSeq(ss)[n] = FlattenSeq(ss)[o] => n = o
<1>1. CASE Len(ss) = 0
  <2>1. ss = <<>> /\ FlattenSeq(ss) = <<>>
    BY <1>1, EmptySeq DEF FlattenSeq
  <2>2. <<>> \in Seq(S) /\ 1..Len(<<>>) = {}
    OBVIOUS
  <2> DEFINE flat == FlattenSeq(ss)
  <2>3. flat \in Seq(S) /\ 1..Len(flat) = {}
    BY <2>1, <2>2
  <2> HIDE DEF flat
  <2>4. /\ \A n \in 1..Len(flat) : \E i \in 1..Len(ss) : \E k \in 1..Len(ss[i]) : flat[n] = ss[i][k]
        /\ \A n, o \in 1..Len(flat) : flat[n] = flat[o] => n = o
    BY <2>3
  <2> QED BY <2>3, <2>4 DEF flat
<1>2. CASE Len(ss) # 0
  <2> DEFINE len == Len(ss)
             f == CHOOSE g : IsFlat(g, ss, len)
             Once == \A i, j \in 1..len : \A k \in 1..Len(ss[i]), l \in 1..Len(ss[j]) :
                       ss[i][k] = ss[j][l] => i = j /\ k = l
             Good(n) == /\ f[n] \in Seq(S)
                        /\ \A o \in 1..Len(f[n]) :
                             \E i \in 1..n : \E k \in 1..Len(ss[i]) : f[n][o] = ss[i][k]
                        /\ Once => \A o, p \in 1..Len(f[n]) : f[n][o] = f[n][p] => o = p
  <2>1. len \in Nat \ {0}
    BY <1>2
  <2>2. IsFlat(f, ss, len)
    BY <2>1, FlatExists
  <2>3. FlattenSeq(ss) = f[len]
    BY <1>2 DEF FlattenSeq, IsFlat
  <2> HIDE DEF f
  <2>4. \A i \in 1..len : f[i] = IF i = 1 THEN ss[i] ELSE f[i - 1] \o ss[i]
    BY <2>2 DEF IsFlat
  <2>5. \A i \in 1..len : ss[i] \in Seq(S) /\ Len(ss[i]) \in Nat
    OBVIOUS
  <2> HIDE DEF len
  <2>6. ASSUME NEW n \in 1..len, n = 1 \/ (n > 1 /\ Good(n - 1)) PROVE Good(n)
    <3>1. CASE n = 1
      <4>1. f[n] = ss[n] /\ n \in 1..n /\ n \in 1..len
        BY <2>1, <2>4, <3>1
      <4> QED BY <2>5, <4>1
    <3>2. CASE n > 1 /\ Good(n - 1)
      <4> DEFINE a == f[n - 1]
                 b == ss[n]
      <4>1. /\ n - 1 \in 1..len /\ n \in Nat /\ n # 1
            /\ a \in Seq(S) /\ b \in Seq(S) /\ Len(a) \in Nat /\ Len(b) \in Nat
        <5>1. n - 1 \in 1..len /\ n \in Nat /\ n # 1
          BY <2>1, <3>2
        <5>2. a \in Seq(S) /\ b \in Seq(S)
          BY <2>5, <3>2, Zenon
        <5> HIDE DEF a, b
        <5> QED BY <5>1, <5>2
      <4>2. f[n] = a \o b
        BY <2>4, <4>1
      <4> HIDE DEF a, b
      <4>3. /\ a \o b \in Seq(S) /\ Len(a \o b) = Len(a) + Len(b)
            /\ \A o \in 1..(Len(a) + Len(b)) :
                 (a \o b)[o] = IF o <= Len(a) THEN a[o] ELSE b[o - Len(a)]
        BY <4>1
      <4>4. /\ \A o \in 1..Len(a) :
                 \E i \in 1..(n - 1) : \E k \in 1..Len(ss[i]) : a[o] = ss[i][k]
            /\ Once => \A o, p \in 1..Len(a) : a[o] = a[p] => o = p
        BY <3>2 DEF a
      <4>5. ASSUME NEW o \in 1..Len(f[n])
            PROVE  \/ o \in 1..Len(a) /\ f[n][o] = a[o]
                   \/ o \notin 1..Len(a) /\ o - Len(a) \in 1..Len(b) /\ f[n][o] = b[o - Len(a)]
        BY <4>1, <4>2, <4>3
      <4>6. ASSUME NEW o \in 1..Len(f[n])
            PROVE  \E i \in 1..n : \E k \in 1..Len(ss[i]) : f[n][o] = ss[i][k]
        <5>1. 1..(n - 1) \subseteq 1..n /\ n \in 1..n
          BY <4>1
        <5>2. CASE o \in 1..Len(a) /\ f[n][o] = a[o]
          <6>1. PICK i \in 1..(n - 1) : \E k \in 1..Len(ss[i]) : a[o] = ss[i][k]
            BY <4>4, <5>2
          <6> QED BY <5>1, <5>2, <6>1
        <5>3. CASE o - Len(a) \in 1..Len(b) /\ f[n][o] = b[o - Len(a)]
          BY <5>1, <5>3 DEF b
        <5> QED BY <4>5, <5>2, <5>3, SMTT(30)
      <4>7. ASSUME Once, NEW o \in 1..Len(f[n]), NEW p \in 1..Len(f[n]), f[n][o] = f[n][p]
            PROVE  o = p
        (* An element of the new sequence is in none of those before. *)
        <5>1. ASSUME NEW u \in 1..Len(a), NEW v \in 1..Len(b) PROVE a[u] # b[v]
          <6>1. PICK i \in 1..(n - 1) : \E k \in 1..Len(ss[i]) : a[u] = ss[i][k]
            BY <4>4, SMTT(30)
          <6>2. PICK k \in 1..Len(ss[i]) : a[u] = ss[i][k]
            BY <6>1
          <6>3. i \in 1..len /\ i # n /\ v \in 1..Len(ss[n])
            <7>1. i \in 1..len /\ i # n
              <8> HIDE <4>7
              <8> QED BY <2>1, <4>1, SMTT(30)
            <7> QED BY <7>1 DEF b
          <6> QED BY <4>7, <6>2, <6>3, SMTT(30) DEF b
        <5>2. \A u, v \in 1..Len(b) : b[u] = b[v] => u = v
          BY <4>7 DEF b
        <5>3. CASE o \in 1..Len(a) /\ p \in 1..Len(a)
          BY <4>4, <4>5, <4>7, <5>3
        <5>4. CASE o \notin 1..Len(a) /\ p \notin 1..Len(a)
          <6>1. o - Len(a) = p - Len(a)
            BY <4>5, <4>7, <5>2, <5>4
          <6>2. Len(f[n]) \in Nat
            BY <4>1, <4>2, <4>3
          <6> QED BY <4>1, <6>1, <6>2
        <5> QED BY <4>5, <4>7, <5>1, <5>3, <5>4
      <4> QED BY <4>2, <4>3, <4>6, <4>7
    <3> QED BY <2>6, <3>1, <3>2
  <2> DEFINE T == {n \in 1..len : ~Good(n)}
  <2> HIDE DEF Good
  <2>7. T = {}
    <3> SUFFICES ASSUME T # {} PROVE FALSE
      OBVIOUS
    <3>1. T \subseteq Nat
      BY <2>1
    <3>2. PICK n \in T : \A k \in T : ~(<<k, n>> \in OpToRel(<, Nat))
      BY <3>1, NatLessThanWellFounded, WFMin
    <3>3. \A k \in Nat : k < n => k \notin T
      BY <3>1, <3>2 DEF OpToRel
    <3>4. n # 1 => n - 1 \in 1..len /\ n - 1 \in Nat /\ n - 1 < n /\ n > 1
      BY <2>1
    <3> QED BY <2>6, <3>3, <3>4
  <2>8. Good(len)
    BY <2>1, <2>7
  <2>9. /\ f[len] \in Seq(S)
        /\ \A o \in 1..Len(f[len]) :
             \E i \in 1..len : \E k \in 1..Len(ss[i]) : f[len][o] = ss[i][k]
        /\ Once => \A o, p \in 1..Len(f[len]) : f[len][o] = f[len][p] => o = p
    BY <2>8 DEF Good
  <2> DEFINE flat == FlattenSeq(ss)
  <2> HIDE DEF flat, Once
  <2>10. /\ flat \in Seq(S)
         /\ \A o \in 1..Len(flat) : \E i \in 1..len : \E k \in 1..Len(ss[i]) : flat[o] = ss[i][k]
         /\ Once => \A o, p \in 1..Len(flat) : flat[o] = flat[p] => o = p
    <3>1. flat = f[len]
      BY <2>3 DEF flat
    <3> QED BY <2>9, <3>1
  <2> QED BY <2>10, Zenon DEF Once, flat, len
<1> QED BY <1>1, <1>2

(* Division by the page size counts pages. *)
LEMMA Pages ==
  ASSUME NEW s \in Nat \ {0}, NEW a \in Nat, NEW k \in Nat
  PROVE  (a + k * s) \div s = (a \div s) + k
<1>1. a = s * (a \div s) + (a % s) /\ a \div s \in Nat /\ a % s \in 0..(s - 1)
  OBVIOUS
<1> DEFINE q == a \div s
           c == a % s
<1>2. q \in Nat /\ c \in 0..(s - 1) /\ a = s * q + c
  BY <1>1
<1> HIDE DEF q, c
<1>3. \A d \in Nat : (s * d + c) \div s = d
  BY <1>2
<1>4. a + k * s = s * (q + k) + c /\ q + k \in Nat
  BY <1>2
<1>5. (a + k * s) \div s = q + k
  BY <1>3, <1>4
<1> QED BY <1>5 DEF q

Region == [start : Nat, end : Nat, usable : BOOLEAN]

(* The k-th frame of a region holds its address start + (k - 1) * PageSize. *)
LEMMA RegionFrames ==
  ASSUME NEW r \in Region
  PROVE  /\ FramesOf(r) \in Seq(Nat)
         /\ \A k \in 1..Len(FramesOf(r)) :
              /\ r.start + (k - 1) * PageSize \in r.start..(r.end - 1)
              /\ FramesOf(r)[k] = Containing(r.start + (k - 1) * PageSize)
              /\ FramesOf(r)[k] = Containing(r.start) + (k - 1)
<1> DEFINE n == (r.end - r.start + PageSize - 1) \div PageSize
           P == PageSize
<1>1. P \in Nat \ {0} /\ r.start \in Nat /\ r.end \in Nat
  BY PageSizeAssumption DEF Region
<1>2. ASSUME NEW s \in Nat \ {0}, NEW x \in Int
      PROVE  x \div s \in Int /\ s * (x \div s) <= x
  OBVIOUS
<1>3. n \in Int /\ P * n <= (r.end - r.start) + (P - 1)
  <2>1. r.end - r.start + PageSize - 1 \in Int
        /\ r.end - r.start + PageSize - 1 = (r.end - r.start) + (P - 1)
    BY <1>1
  <2> QED BY <1>1, <1>2, <2>1, SMTT(30)
<1>4. FramesOf(r) = [k \in 1..n |-> Containing(r.start + (k - 1) * P)]
  BY DEF FramesOf
<1> HIDE DEF n
<1>5. ASSUME NEW k \in 1..n
      PROVE  /\ r.start + (k - 1) * P \in r.start..(r.end - 1)
             /\ Containing(r.start + (k - 1) * P) = Containing(r.start) + (k - 1)
             /\ Containing(r.start + (k - 1) * P) \in Nat
  <2>1. k - 1 \in Nat /\ k \in Nat /\ k <= n
    BY <1>3
  <2>2. ASSUME NEW x \in Int, NEW y \in Int, x <= y PROVE P * x <= P * y
    BY <1>1, <2>2
  <2>3. P * k <= P * n /\ P * k = (k - 1) * P + P
    BY <1>1, <1>3, <2>1, <2>2
  <2>4. (k - 1) * P \in Nat
    BY <1>1, <2>1
  <2> DEFINE j == (k - 1) * P
             m == P * n
  <2>5. j + P <= m /\ m \in Int /\ j \in Nat /\ m <= (r.end - r.start) + (P - 1)
    BY <1>1, <1>3, <2>3, <2>4
  <2> HIDE DEF j, m
  <2>6. r.start + j \in r.start..(r.end - 1)
    BY <1>1, <2>5
  <2>7. (r.start + (k - 1) * P) \div P = (r.start \div P) + (k - 1)
    BY <1>1, <2>1, Pages
  <2>8. r.start \div P \in Nat
    BY <1>1
  <2> QED BY <2>1, <2>6, <2>7, <2>8 DEF Containing, j
<1>6. CASE n \in Nat
  <2>1. FramesOf(r) \in Seq(Nat) /\ Len(FramesOf(r)) = n
    BY <1>4, <1>5, <1>6
  <2> QED BY <1>4, <1>5, <2>1
<1>7. CASE n \notin Nat
  <2>1. 1..n = {}
    BY <1>3, <1>7
  <2>2. FramesOf(r) = <<>>
    BY <1>4, <2>1
  <2> QED BY <2>2
<1> QED BY <1>6, <1>7

(* Every frame in usable_frames is that of an address in a usable region, whole pages
   after its start; and no frame is there twice. *)
LEMMA UsableFrames ==
  /\ usable_frames \in Seq(Nat)
  /\ \A n \in 1..Len(usable_frames) : \E i \in DOMAIN memory_map : \E k \in Nat :
       /\ memory_map[i].usable
       /\ memory_map[i].start + k * PageSize < memory_map[i].end
       /\ usable_frames[n] = Containing(memory_map[i].start) + k
  /\ \A n, o \in 1..Len(usable_frames) : usable_frames[n] = usable_frames[o] => n = o
<1> DEFINE ss == [i \in DOMAIN memory_map |->
                    IF memory_map[i].usable THEN FramesOf(memory_map[i]) ELSE <<>>]
<1>1. /\ memory_map \in Seq(Region) /\ DOMAIN memory_map = 1..Len(memory_map)
      /\ Len(memory_map) \in Nat /\ \A i \in DOMAIN memory_map : memory_map[i] \in Region
  <2>1. memory_map \in Seq(Region)
    BY MapAssumption DEF Region
  <2> QED BY <2>1
<1>2. \A i \in DOMAIN memory_map : ss[i] \in Seq(Nat)
  BY <1>1, RegionFrames
<1>3. ss \in Seq(Seq(Nat)) /\ Len(ss) = Len(memory_map)
  BY <1>1, <1>2
<1>4. usable_frames = FlattenSeq(ss)
  BY DEF usable_frames
<1>5. ASSUME NEW i \in 1..Len(ss), NEW k \in 1..Len(ss[i])
      PROVE  /\ i \in DOMAIN memory_map /\ memory_map[i] \in Region
             /\ memory_map[i].usable /\ ss[i] = FramesOf(memory_map[i])
             /\ memory_map[i].start + (k - 1) * PageSize
                  \in memory_map[i].start..(memory_map[i].end - 1)
             /\ ss[i][k] = Containing(memory_map[i].start + (k - 1) * PageSize)
             /\ ss[i][k] = Containing(memory_map[i].start) + (k - 1)
  <2>1. i \in DOMAIN memory_map /\ memory_map[i] \in Region
    BY <1>1, <1>3
  <2>2. memory_map[i].usable
    <3>1. CASE ~memory_map[i].usable
      <4>1. ss[i] = <<>>
        BY <2>1, <3>1
      <4> QED BY <1>5, <4>1
    <3> QED BY <3>1
  <2>3. ss[i] = FramesOf(memory_map[i])
    BY <2>1, <2>2
  <2> HIDE DEF ss
  <2> QED BY <1>5, <2>1, <2>2, <2>3, RegionFrames
<1> HIDE DEF ss
<1>6. ASSUME NEW i \in 1..Len(ss), NEW j \in 1..Len(ss), NEW k \in 1..Len(ss[i]),
             NEW l \in 1..Len(ss[j]), ss[i][k] = ss[j][l]
      PROVE  i = j /\ k = l
  <2>1. i = j
    <3> DEFINE a == memory_map[i].start + (k - 1) * PageSize
               b == memory_map[j].start + (l - 1) * PageSize
    <3>1. /\ i \in DOMAIN memory_map /\ memory_map[i].usable
          /\ a \in memory_map[i].start..(memory_map[i].end - 1) /\ ss[i][k] = Containing(a)
      BY <1>5
    <3>2. /\ j \in DOMAIN memory_map /\ memory_map[j].usable
          /\ b \in memory_map[j].start..(memory_map[j].end - 1) /\ ss[j][l] = Containing(b)
      BY <1>5
    <3> HIDE DEF a, b
    <3> QED BY <1>6, <3>1, <3>2, MapAssumption
  <2>2. Containing(memory_map[i].start) + (k - 1) = Containing(memory_map[i].start) + (l - 1)
    BY <1>5, <1>6, <2>1, SMTT(30)
  <2>3. Containing(memory_map[i].start) \in Int
    <3>1. memory_map[i].start \in Nat
      BY <1>5, SMTT(30) DEF Region
    <3> QED BY <3>1, PageSizeAssumption DEF Containing
  <2>4. k \in Int /\ l \in Int
    OBVIOUS
  <2> QED BY <2>1, <2>2, <2>3, <2>4
<1>7. ASSUME NEW n \in 1..Len(usable_frames)
      PROVE  \E i \in DOMAIN memory_map : \E k \in Nat :
               /\ memory_map[i].usable
               /\ memory_map[i].start + k * PageSize < memory_map[i].end
               /\ usable_frames[n] = Containing(memory_map[i].start) + k
  <2>1. PICK i \in 1..Len(ss) : \E k \in 1..Len(ss[i]) : usable_frames[n] = ss[i][k]
    <3>1. \A o \in 1..Len(FlattenSeq(ss)) :
            \E j \in 1..Len(ss) : \E k \in 1..Len(ss[j]) : FlattenSeq(ss)[o] = ss[j][k]
      BY <1>3, Flattened
    <3> QED BY <1>4, <3>1
  <2>2. PICK k \in 1..Len(ss[i]) : usable_frames[n] = ss[i][k]
    BY <2>1
  <2>3. k - 1 \in Nat
    OBVIOUS
  <2>4. memory_map[i].start + (k - 1) * PageSize < memory_map[i].end
    <3> DEFINE x == memory_map[i].start + (k - 1) * PageSize
    <3>1. x \in memory_map[i].start..(memory_map[i].end - 1)
      BY <1>5
    <3>2. memory_map[i].start \in Nat /\ memory_map[i].end \in Nat
      BY <1>5 DEF Region
    <3> HIDE DEF x
    <3>3. x < memory_map[i].end
      BY <3>1, <3>2
    <3> QED BY <3>3 DEF x
  <2> QED BY <1>5, <2>2, <2>3, <2>4
<1>8. /\ FlattenSeq(ss) \in Seq(Nat)
      /\ \A n, o \in 1..Len(FlattenSeq(ss)) : FlattenSeq(ss)[n] = FlattenSeq(ss)[o] => n = o
  <2>1. \A i, j \in 1..Len(ss) : \A k \in 1..Len(ss[i]), l \in 1..Len(ss[j]) :
          ss[i][k] = ss[j][l] => i = j /\ k = l
    BY <1>6, SMTT(30)
  <2> QED BY <1>3, <2>1, Flattened
<1> QED BY <1>4, <1>7, <1>8

(* No frame comes up twice in usable_frames. *)
LEMMA FramesAreDistinct ==
  /\ usable_frames \in Seq(Nat)
  /\ \A i, j \in 1..Len(usable_frames) : usable_frames[i] = usable_frames[j] => i = j
BY UsableFrames

-----------------------------------------------------------------------------
(* The frame is one that allocate_frame has returned. *)
Given(f) == \E i \in 1..Len(usable_frames) : i <= next /\ f = usable_frames[i]

IsMapped(p) == \E m \in mapping : m.page = p

(* The inductive invariant: frames in use are among those returned so far, and
   the areas are mapped up to the loop's page. *)
Inv == /\ next \in Nat /\ area \in Nat \ {0} /\ page \in Int
       /\ ~stopped => next <= Len(usable_frames)
       /\ \A m \in mapping : Given(m.frame)
       /\ \A t \in tables : Given(t)
       /\ FramesOnce
       /\ \A i \in 1..(area - 1) :
            /\ i <= Len(Areas)
            /\ \A p \in first_page(Areas[i])..last_page(Areas[i]) : IsMapped(p)
       /\ area <= Len(Areas) => \A p \in first_page(Areas[area])..(page - 1) : IsMapped(p)

(* What an area is. *)
LEMMA AreaType ==
  ASSUME NEW i \in 1..Len(Areas)
  PROVE  Areas[i].start \in Nat /\ Areas[i].size \in Nat \ {0}
<1>1. Areas[i] \in [start : Nat, size : Nat \ {0}]
  BY AreasAssumption, ElementOfSeq
<1> QED BY <1>1

(* Division by the page size is monotonic. *)
LEMMA ContainingMonotonic ==
  ASSUME NEW a \in Nat, NEW b \in Nat, a <= b
  PROVE  Containing(a) \in Int /\ Containing(b) \in Int /\ Containing(a) <= Containing(b)
<1>1. ASSUME NEW s \in Nat \ {0} PROVE a \div s \in Int /\ b \div s \in Int /\ a \div s <= b \div s
  OBVIOUS
<1> QED BY <1>1, PageSizeAssumption DEF Containing

(* The frame returned next is new, and so are the ones after it. *)
LEMMA NthIsNew ==
  ASSUME Inv, NEW k \in Nat \ {0}, next + k <= Len(usable_frames)
  PROVE  /\ ~Given(Nth(k))
         /\ \A j \in Nat \ {0} : next + j <= Len(usable_frames) /\ Nth(j) = Nth(k) => j = k
<1>1. Len(usable_frames) \in Nat
  BY FramesAreDistinct
<1>2. next \in Nat
  BY DEF Inv
<1> QED BY <1>1, <1>2, FramesAreDistinct DEF Given, Nth

(* Nothing is mapped at the start. *)
LEMMA InitInv == Init => Inv
<1> SUFFICES ASSUME Init PROVE Inv
  OBVIOUS
<1>1. Len(usable_frames) \in Nat
  BY FramesAreDistinct
<1>2. Areas[1].start \in Nat
  <2>1. 1 \in 1..Len(Areas)
    BY AreasAssumption
  <2> QED BY <2>1, AreaType
<1>3. page \in Int
  BY <1>2, ContainingMonotonic DEF Init, first_page
<1> QED BY <1>1, <1>3 DEF Init, Inv, FramesOnce

(* A mapped page stays mapped, a frame given out stays given out. *)
LEMMA Monotonic ==
  ASSUME Inv, next' \in Nat, next' >= next, mapping \subseteq mapping'
  PROVE  /\ \A f : Given(f) => Given(f)'
         /\ \A p : IsMapped(p) => IsMapped(p)'
<1>1. \A p : IsMapped(p) => IsMapped(p)'
  BY DEF IsMapped
<1>2. ASSUME NEW f, Given(f) PROVE Given(f)'
  <2>1. PICK i \in 1..Len(usable_frames) : i <= next /\ f = usable_frames[i]
    BY <1>2 DEF Given
  <2>2. i <= next'
    BY <2>1 DEF Inv
  <2> QED BY <2>1, <2>2 DEF Given
<1> QED BY <1>1, <1>2

(* A page is mapped: its frame and the frames of its tables are new. *)
LEMMA MapPageInv ==
  ASSUME Inv, NEW n \in 0..MaxTables, MapPage(n)
  PROVE  Inv'
<1> DEFINE new == [page |-> page, frame |-> Nth(1)]
           more == {Nth(1 + k) : k \in 1..n}
<1>1. /\ Len(usable_frames) \in Nat /\ next \in Nat /\ n \in Nat
      /\ next + 1 + n <= Len(usable_frames) /\ page \in Int
      /\ area \in Nat \ {0} /\ area <= Len(Areas)
  <2>1. Len(usable_frames) \in Nat
    BY FramesAreDistinct
  <2>2. next \in Nat /\ page \in Int /\ area \in Nat \ {0}
    BY DEF Inv
  <2>3. Len(usable_frames) - next >= n + 1 /\ area <= Len(Areas)
    BY DEF MapPage, Left, Preparing
  <2> QED BY <2>1, <2>2, <2>3, MaxTablesAssumption
<1>2. /\ mapping' = mapping \cup {new} /\ tables' = tables \cup more
      /\ next' = next + 1 + n /\ page' = page + 1 /\ area' = area /\ stopped' = stopped
  BY DEF MapPage
<1>3. next' \in Nat /\ next' >= next /\ mapping \subseteq mapping'
  BY <1>1, <1>2
<1>4. (\A f : Given(f) => Given(f)') /\ (\A p : IsMapped(p) => IsMapped(p)')
  BY <1>3, Monotonic
<1>5. ASSUME NEW f, NEW k \in 1..(n + 1), f = Nth(k) PROVE Given(f)'
  <2>1. next + k \in 1..Len(usable_frames) /\ next + k <= next'
    BY <1>1, <1>2
  <2> QED BY <1>5, <2>1 DEF Given, Nth
<1>6. \A m \in mapping' : Given(m.frame)'
  <2>1. new.frame = Nth(1) /\ 1 \in 1..(n + 1)
    BY <1>1
  <2>2. \A m \in {new} : Given(m.frame)'
    BY <1>5, <2>1
  <2>3. \A m \in mapping : Given(m.frame)'
    BY <1>4 DEF Inv
  <2> QED BY <1>2, <2>2, <2>3
<1>7. \A t \in tables' : Given(t)'
  <2>1. ASSUME NEW t \in more PROVE Given(t)'
    <3>1. PICK k \in 1..n : t = Nth(1 + k)
      OBVIOUS
    <3>2. 1 + k \in 1..(n + 1)
      BY <1>1
    <3> QED BY <1>5, <3>1, <3>2
  <2> QED BY <1>2, <1>4, <2>1 DEF Inv
<1>8. ~Given(Nth(1)) /\ \A k \in 1..n : ~Given(Nth(1 + k)) /\ Nth(1 + k) # Nth(1)
  <2>1. ~Given(Nth(1))
    BY <1>1, NthIsNew
  <2>2. ASSUME NEW k \in 1..n PROVE ~Given(Nth(1 + k)) /\ Nth(1 + k) # Nth(1)
    <3>1. 1 + k \in Nat \ {0} /\ next + (1 + k) <= Len(usable_frames) /\ 1 + k # 1
          /\ next + 1 <= Len(usable_frames)
      BY <1>1
    <3> QED BY <3>1, NthIsNew
  <2> QED BY <2>1, <2>2
<1>9. FramesOnce'
  <2>1. \A m, o \in mapping' : m.frame = o.frame => m = o
    BY <1>2, <1>8 DEF Inv, FramesOnce
  <2>2. \A m \in mapping' : m.frame \notin tables'
    <3>1. \A m \in mapping : m.frame \notin tables /\ m.frame \notin more
      BY <1>8 DEF Inv, FramesOnce
    <3>2. new.frame \notin tables /\ new.frame \notin more
      BY <1>8 DEF Inv
    <3> QED BY <1>2, <3>1, <3>2
  <2> QED BY <2>1, <2>2 DEF FramesOnce
<1>10. \A i \in 1..(area' - 1) :
            /\ i <= Len(Areas)
            /\ \A p \in first_page(Areas[i])..last_page(Areas[i]) : IsMapped(p)'
  BY <1>2, <1>4 DEF Inv
<1>11. \A p \in first_page(Areas[area])..(page' - 1) : IsMapped(p)'
  <2>1. ASSUME NEW p, p = page PROVE IsMapped(p)'
    <3>1. new \in mapping' /\ new.page = p
      BY <1>2, <2>1
    <3> QED BY <3>1 DEF IsMapped
  <2>2. ASSUME NEW p \in first_page(Areas[area])..page, p # page PROVE IsMapped(p)
    <3>1. p \in first_page(Areas[area])..(page - 1)
      BY <1>1, <2>2
    <3> QED BY <1>1, <3>1 DEF Inv
  <2>3. page' - 1 = page
    BY <1>1, <1>2
  <2> QED BY <1>4, <2>1, <2>2, <2>3
<1>12. ~stopped' => next' <= Len(usable_frames)
  BY <1>1, <1>2
<1>13. next' \in Nat /\ area' \in Nat \ {0} /\ page' \in Int
  BY <1>1, <1>2
<1> QED BY <1>2, <1>6, <1>7, <1>9, <1>10, <1>11, <1>12, <1>13 DEF Inv

(* The frames run out: what is mapped stays, and the tables got new frames. *)
LEMMA FailureInv ==
  ASSUME Inv, NEW n \in 0..MaxTables, FrameAllocationFailed(n)
  PROVE  Inv'
<1> DEFINE more == {Nth(1 + k) : k \in 1..(Left - 1)}
<1>1. /\ Len(usable_frames) \in Nat /\ next \in Nat /\ next <= Len(usable_frames)
      /\ Left = Len(usable_frames) - next
  BY FramesAreDistinct DEF Inv, FrameAllocationFailed, Preparing, Left
<1>2. /\ mapping' = mapping /\ tables' = tables \cup more
      /\ next' = Len(usable_frames) + 1 /\ page' = page /\ area' = area /\ stopped'
  BY DEF FrameAllocationFailed
<1>3. next' \in Nat /\ next' >= next /\ mapping \subseteq mapping'
  BY <1>1, <1>2
<1>4. (\A f : Given(f) => Given(f)') /\ (\A p : IsMapped(p) => IsMapped(p)')
  BY <1>3, Monotonic
<1>5. ASSUME NEW t \in more PROVE Given(t)' /\ ~Given(t)
  <2>1. PICK k \in 1..(Left - 1) : t = Nth(1 + k)
    OBVIOUS
  <2>2. /\ 1 + k \in Nat \ {0} /\ next + (1 + k) <= Len(usable_frames)
        /\ next + (1 + k) \in 1..Len(usable_frames) /\ next + (1 + k) <= next'
    BY <1>1, <1>2
  <2>3. ~Given(t)
    BY <2>1, <2>2, NthIsNew
  <2>4. Given(t)'
    BY <2>1, <2>2 DEF Given, Nth
  <2> QED BY <2>3, <2>4
<1>6. FramesOnce'
  BY <1>2, <1>5 DEF Inv, FramesOnce
<1>7. \A t \in tables' : Given(t)'
  BY <1>2, <1>4, <1>5 DEF Inv
<1>8. \A m \in mapping' : Given(m.frame)'
  BY <1>2, <1>4 DEF Inv
<1> QED BY <1>2, <1>3, <1>4, <1>6, <1>7, <1>8 DEF Inv

(* The loop has passed the last page of the area. *)
LEMMA AreaReadyInv ==
  ASSUME Inv, AreaReady
  PROVE  Inv'
<1>1. /\ next' = next /\ mapping' = mapping /\ tables' = tables /\ stopped' = stopped
      /\ area' = area + 1
      /\ page' = IF area < Len(Areas) THEN first_page(Areas[area + 1]) ELSE page
  BY DEF AreaReady
<1>2. /\ area \in Nat \ {0} /\ page \in Int /\ Len(Areas) \in Nat
      /\ area <= Len(Areas) /\ page > last_page(Areas[area])
  BY AreasAssumption DEF Inv, AreaReady
<1>3. \A i \in 1..Len(Areas) :
        first_page(Areas[i]) \in Int /\ last_page(Areas[i]) \in Int
  <2>1. ASSUME NEW i \in 1..Len(Areas)
        PROVE  first_page(Areas[i]) \in Int /\ last_page(Areas[i]) \in Int
    <3> DEFINE a == Areas[i].start
               b == a + Areas[i].size - 1
    <3>1. a \in Nat /\ b \in Nat /\ a <= b
      BY AreaType
    <3> HIDE DEF a, b
    <3>2. Containing(a) \in Int /\ Containing(b) \in Int
      BY <3>1, ContainingMonotonic
    <3> QED BY <3>2 DEF first_page, last_page, a, b
  <2> QED BY <2>1
<1>4. \A p \in first_page(Areas[area])..last_page(Areas[area]) : IsMapped(p)
  <2>1. ASSUME NEW p \in first_page(Areas[area])..last_page(Areas[area])
        PROVE  p \in first_page(Areas[area])..(page - 1)
    BY <1>2, <1>3, <2>1
  <2> QED BY <1>2, <2>1 DEF Inv
<1>5. \A p : IsMapped(p)' <=> IsMapped(p)
  BY <1>1 DEF IsMapped
<1>6. \A f : Given(f)' <=> Given(f)
  BY <1>1 DEF Given
<1>7. \A i \in 1..(area' - 1) :
        /\ i <= Len(Areas)
        /\ \A p \in first_page(Areas[i])..last_page(Areas[i]) : IsMapped(p)'
  <2>1. \A i \in 1..(area' - 1) : i = area \/ i \in 1..(area - 1)
    BY <1>1, <1>2
  <2> QED BY <1>2, <1>4, <1>5, <2>1 DEF Inv
<1>8. page' \in Int
  BY <1>1, <1>2, <1>3
<1>9. area' <= Len(Areas) =>
        \A p \in first_page(Areas[area'])..(page' - 1) : IsMapped(p)'
  <2> SUFFICES ASSUME area' <= Len(Areas)
               PROVE  first_page(Areas[area'])..(page' - 1) = {}
    OBVIOUS
  <2>1. page' = first_page(Areas[area']) /\ page' \in Int
    BY <1>1, <1>2, <1>8
  <2> QED BY <2>1
<1>10. area' \in Nat \ {0} /\ FramesOnce'
  BY <1>1, <1>2 DEF Inv, FramesOnce
<1> QED BY <1>1, <1>6, <1>7, <1>8, <1>9, <1>10 DEF Inv

(* Every step keeps the invariant. *)
LEMMA NextInv == Inv /\ [Next]_vars => Inv'
<1> SUFFICES ASSUME Inv, [Next]_vars PROVE Inv'
  OBVIOUS
<1>1. CASE Done \/ UNCHANGED vars
  <2>1. UNCHANGED vars
    BY <1>1 DEF Done
  <2> QED BY <2>1 DEF vars, Inv, Given, IsMapped, FramesOnce
<1> QED BY <1>1, MapPageInv, FailureInv, AreaReadyInv DEF Next

(* Whatever the memory map and the page tables ask for, no frame is given out
   twice. *)
THEOREM FramesGivenOnce == Spec => []FramesOnce
<1>1. Inv => FramesOnce
  BY DEF Inv
<1> QED BY <1>1, InitInv, NextInv, PTL DEF Spec

(* prepare_pages returns Ok only when every byte of the area is mapped: the range
   of pages, both ends included, is the range of bytes rounded to pages. *)
THEOREM AreasAreMapped == Spec => []AreasMapped
<1>1. Inv => AreasMapped
  <2> SUFFICES ASSUME Inv, NEW i \in 1..(area - 1),
                      NEW addr \in Areas[i].start..(Areas[i].start + Areas[i].size - 1)
               PROVE  IsMapped(Containing(addr))
    BY DEF AreasMapped, IsMapped
  <2>1. i \in 1..Len(Areas)
    BY AreasAssumption DEF Inv
  <2> DEFINE a == Areas[i].start
             b == a + Areas[i].size - 1
  <2>2. a \in Nat /\ b \in Nat /\ addr \in Nat /\ a <= addr /\ addr <= b
    BY <2>1, AreaType
  <2>3. /\ Containing(a) <= Containing(addr) /\ Containing(addr) <= Containing(b)
        /\ Containing(a) \in Int /\ Containing(b) \in Int /\ Containing(addr) \in Int
    <3> HIDE DEF a, b
    <3> QED BY <2>2, ContainingMonotonic
  <2>4. Containing(addr) \in first_page(Areas[i])..last_page(Areas[i])
    BY <2>3 DEF first_page, last_page
  <2> QED BY <2>4 DEF Inv
<1> QED BY <1>1, InitInv, NextInv, PTL DEF Spec

(* Only memory of the usable regions is overwritten, whatever frames the page tables
   take, if the regions consist of whole frames. *)
THEOREM FramesAreUnused ==
  ASSUME PageAligned PROVE Spec => []FramesUnused
<1>1. ASSUME NEW n \in 1..Len(usable_frames)
      PROVE  \E i \in DOMAIN memory_map :
               /\ memory_map[i].usable
               /\ memory_map[i].start <= usable_frames[n] * PageSize
               /\ (usable_frames[n] + 1) * PageSize <= memory_map[i].end
  <2>1. PICK i \in DOMAIN memory_map : \E k \in Nat :
          /\ memory_map[i].usable
          /\ memory_map[i].start + k * PageSize < memory_map[i].end
          /\ usable_frames[n] = Containing(memory_map[i].start) + k
    BY UsableFrames
  <2>2. PICK k \in Nat :
          /\ memory_map[i].usable
          /\ memory_map[i].start + k * PageSize < memory_map[i].end
          /\ usable_frames[n] = Containing(memory_map[i].start) + k
    BY <2>1
  <2> DEFINE P == PageSize
             a == memory_map[i].start
             b == memory_map[i].end
             f == usable_frames[n]
  <2>3. P \in Nat \ {0} /\ a \in Nat /\ b \in Nat /\ a % P = 0 /\ b % P = 0
    <3>1. memory_map[i] \in Region
      <4>1. memory_map \in Seq(Region)
        BY MapAssumption DEF Region
      <4> QED BY <4>1
    <3>2. a \in Nat /\ b \in Nat
      BY <3>1 DEF Region
    <3> QED BY <2>2, <3>2, PageSizeAssumption DEF PageAligned
  <2>4. f = (a \div P) + k /\ a + k * P < b
    BY <2>2 DEF Containing
  <2> HIDE DEF P, a, b, f
  <2>5. ASSUME NEW x \in Nat, x % P = 0 PROVE x \div P \in Nat /\ x = P * (x \div P)
    <3>1. x \div P \in Nat /\ x = P * (x \div P) + (x % P)
      BY <2>3
    <3> QED BY <2>3, <2>5, <3>1
  <2> DEFINE u == a \div P
             v == b \div P
  <2>6. u \in Nat /\ v \in Nat /\ a = P * u /\ b = P * v
    BY <2>3, <2>5
  <2>7. f = u + k /\ a + k * P < b
    BY <2>4
  <2> HIDE DEF u, v
  <2>8. f \in Nat /\ f * P = a + k * P /\ (f + 1) * P = f * P + P /\ a <= f * P
    BY <2>3, <2>6, <2>7
  <2>9. P * f < P * v
    BY <2>3, <2>6, <2>7, <2>8
  <2>10. f < v
    BY <2>3, <2>6, <2>8, <2>9
  <2>11. (f + 1) * P <= P * v
    <3>1. f + 1 <= v /\ f + 1 \in Nat
      BY <2>6, <2>8, <2>10
    <3> QED BY <2>3, <2>6, <3>1
  <2> QED BY <2>2, <2>6, <2>8, <2>11 DEF P, a, b, f
<1>2. Inv => FramesUnused
  <2> SUFFICES ASSUME Inv, NEW f \in {m.frame : m \in mapping} \cup tables
               PROVE  Given(f)
    BY <1>1 DEF FramesUnused, Given
  <2> QED BY DEF Inv
<1> QED BY <1>2, InitInv, NextInv, PTL DEF Spec
=============================================================================
