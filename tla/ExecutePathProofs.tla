------------------------- MODULE ExecutePathProofs --------------------------
(***************************************************************************)
(* Proofs about execute_path, for every disk, every list of paths and      *)
(* every choice of the bounds: what runs is the whole program, a module    *)
(* has the name that its path gives it, and every source is read once.     *)
(***************************************************************************)
EXTENDS ExecutePath, FiniteSetTheorems, TLAPS

-----------------------------------------------------------------------------
(* Paths of files. *)

Starts(p, q) == Len(p) <= Len(q) /\ \A i \in 1..Len(p) : p[i] = q[i]

(* IsPrefix, position by position. *)
LEMMA PrefixIs ==
  ASSUME NEW p \in Seq(Names), NEW q \in Seq(Names)
  PROVE  /\ IsPrefix(p, q) <=> Starts(p, q)
         /\ IsStrictPrefix(p, q) <=> Starts(p, q) /\ Len(p) < Len(q)
<1>1. Len(p) \in Nat /\ Len(q) \in Nat
  OBVIOUS
<1>2. SubSeq(p, 1, Len(p)) = p
  OBVIOUS
<1>3. ASSUME Len(p) <= Len(q)
      PROVE  /\ SubSeq(q, 1, Len(p)) \in Seq(Names) /\ Len(SubSeq(q, 1, Len(p))) = Len(p)
             /\ \A i \in 1..Len(p) : SubSeq(q, 1, Len(p))[i] = q[i]
  BY <1>1, <1>3
<1>4. ASSUME Len(p) <= Len(q)
      PROVE  p = SubSeq(q, 1, Len(p)) <=> \A i \in 1..Len(p) : p[i] = q[i]
  BY <1>1, <1>3, <1>4
<1>5. IsPrefix(p, q) <=> Starts(p, q)
  BY <1>2, <1>4 DEF IsPrefix, Starts
<1>6. Starts(p, q) /\ Len(p) = Len(q) => p = q
  BY DEF Starts
<1>7. Starts(p, q) => Len(p) <= Len(q)
  BY DEF Starts
<1> QED BY <1>1, <1>5, <1>6, <1>7 DEF IsStrictPrefix

(* The order of the prefixes of a path. *)
LEMMA StartsIs ==
  ASSUME NEW p \in Seq(Names), NEW q \in Seq(Names), NEW r \in Seq(Names)
  PROVE  /\ Starts(p, q) /\ Starts(q, r) => Starts(p, r)
         /\ Starts(p, r) /\ Starts(q, r) /\ Len(p) <= Len(q) => Starts(p, q)
         /\ Starts(p, q) /\ Len(p) = Len(q) => p = q
<1>1. Len(p) \in Nat /\ Len(q) \in Nat /\ Len(r) \in Nat
  OBVIOUS
<1>2. Len(p) <= Len(q) => \A i \in 1..Len(p) : i \in 1..Len(q)
  BY <1>1
<1>3. Starts(p, q) /\ Starts(q, r) => Starts(p, r)
  BY <1>1, <1>2 DEF Starts
<1>4. Starts(p, r) /\ Starts(q, r) /\ Len(p) <= Len(q) => Starts(p, q)
  BY <1>1, <1>2 DEF Starts
<1>5. Starts(p, q) /\ Len(p) = Len(q) => p = q
  BY DEF Starts
<1> QED BY <1>3, <1>4, <1>5

SubOf(D, d) == {SubSeq(f.at, 1, Len(d) + 1) : f \in {g \in D : IsStrictPrefix(d, g.at)}}

(* The entries of a directory: one for each way down to a file below it. *)
LEMMA SubIs ==
  ASSUME NEW D \in Disks, NEW d \in Seq(Names)
  PROVE  /\ \A e \in SubOf(D, d) : /\ e \in Seq(Names) /\ Len(e) = Len(d) + 1 /\ Starts(d, e)
                                   /\ \E f \in D : Starts(e, f.at)
         /\ \A f \in D : Starts(d, f.at) /\ Len(d) < Len(f.at)
                           => \E e \in SubOf(D, d) : Starts(e, f.at)
<1>1. \A f \in D : f.at \in Seq(Names)
  BY DiskAssumption
<1>2. ASSUME NEW f \in D, Starts(d, f.at), Len(d) < Len(f.at), NEW e, e = SubSeq(f.at, 1, Len(d) + 1)
      PROVE  e \in Seq(Names) /\ Len(e) = Len(d) + 1 /\ Starts(d, e) /\ Starts(e, f.at)
  <2>1. Len(d) \in Nat /\ Len(f.at) \in Nat /\ Len(d) + 1 <= Len(f.at) /\ f.at \in Seq(Names)
    BY <1>1, <1>2
  <2>2. /\ e \in Seq(Names) /\ Len(e) = Len(d) + 1
        /\ \A i \in 1..(Len(d) + 1) : e[i] = f.at[i]
    BY <1>2, <2>1
  <2>3. \A i \in 1..Len(d) : i \in 1..(Len(d) + 1)
    BY <2>1
  <2> QED BY <1>2, <2>1, <2>2, <2>3 DEF Starts
<1>3. \A e \in SubOf(D, d) : \E f \in D : /\ Starts(d, f.at) /\ Len(d) < Len(f.at)
                                          /\ e = SubSeq(f.at, 1, Len(d) + 1)
  BY <1>1, PrefixIs DEF SubOf
<1>4. ASSUME NEW f \in D, Starts(d, f.at), Len(d) < Len(f.at)
      PROVE  SubSeq(f.at, 1, Len(d) + 1) \in SubOf(D, d)
  BY <1>1, <1>4, PrefixIs DEF SubOf
<1>5. ASSUME NEW e \in SubOf(D, d)
      PROVE  e \in Seq(Names) /\ Len(e) = Len(d) + 1 /\ Starts(d, e) /\ \E f \in D : Starts(e, f.at)
  BY <1>2, <1>3
<1>6. ASSUME NEW f \in D, Starts(d, f.at), Len(d) < Len(f.at)
      PROVE  \E e \in SubOf(D, d) : Starts(e, f.at)
  BY <1>2, <1>4, <1>6, Zenon
<1> QED BY <1>5, <1>6

-----------------------------------------------------------------------------
(* The calls of walk_dir or walk_file that are open. *)

Frames == [dir : Seq(Names), todo : SUBSET Seq(Names)]

(* Each call is one level below its caller, in an entry that the caller has taken. *)
GoodStack(D, stk, root) ==
  /\ stk \in Seq(Frames)
  /\ \A k \in 1..Len(stk) : /\ stk[k].todo \subseteq SubOf(D, stk[k].dir)
                            /\ Starts(root, stk[k].dir) /\ Len(stk[k].dir) = Len(root) + k - 1
  /\ \A k, l \in 1..Len(stk) : k < l => \A e \in stk[k].todo : ~Starts(e, stk[l].dir)

(* The file f is still to be met. *)
Covers(stk, f) == \E k \in 1..Len(stk) : \E e \in stk[k].todo : Starts(e, f.at)

(* No file is met through two entries. *)
LEMMA OneEntry ==
  ASSUME NEW D \in Disks, NEW root \in Seq(Names), NEW stk, GoodStack(D, stk, root), NEW f \in D,
         NEW k \in 1..Len(stk), NEW l \in 1..Len(stk), NEW a \in stk[k].todo, NEW b \in stk[l].todo,
         Starts(a, f.at), Starts(b, f.at)
  PROVE  k = l /\ a = b
<1>1. f.at \in Seq(Names) /\ stk \in Seq(Frames) /\ Len(stk) \in Nat /\ Len(root) \in Nat
  BY DiskAssumption DEF GoodStack
<1>2. \A i \in 1..Len(stk) : stk[i].dir \in Seq(Names) /\ \A e \in stk[i].todo : e \in SubOf(D, stk[i].dir)
  <2>1. \A i \in 1..Len(stk) : stk[i] \in Frames
    BY <1>1
  <2>2. \A i \in 1..Len(stk) : stk[i].dir \in Seq(Names)
    BY <2>1 DEF Frames
  <2>3. \A i \in 1..Len(stk) : stk[i].todo \subseteq SubOf(D, stk[i].dir)
    BY DEF GoodStack
  <2> QED BY <2>2, <2>3
<1>3. \A i \in 1..Len(stk) : Len(stk[i].dir) = Len(root) + i - 1
  BY DEF GoodStack
<1>4. \A i \in 1..Len(stk) : \A e : e \in stk[i].todo =>
        e \in Seq(Names) /\ Len(e) = Len(root) + i /\ Starts(stk[i].dir, e)
  <2> SUFFICES ASSUME NEW i \in 1..Len(stk), NEW e, e \in stk[i].todo
               PROVE  e \in Seq(Names) /\ Len(e) = Len(root) + i /\ Starts(stk[i].dir, e)
    OBVIOUS
  <2>1. e \in Seq(Names) /\ Len(e) = Len(stk[i].dir) + 1 /\ Starts(stk[i].dir, e)
    BY <1>2, SubIs
  <2> QED BY <1>1, <1>3, <2>1
<1>5. ASSUME NEW i \in 1..Len(stk), NEW j \in 1..Len(stk), i < j,
             NEW d \in stk[i].todo, NEW e \in stk[j].todo, Starts(d, f.at), Starts(e, f.at)
      PROVE  FALSE
  <2>1. /\ d \in Seq(Names) /\ Len(d) = Len(root) + i
        /\ e \in Seq(Names) /\ Len(e) = Len(root) + j /\ Starts(stk[j].dir, e)
    BY <1>4
  <2>2. Starts(stk[j].dir, f.at)
    BY <2>1, <1>1, <1>2, <1>5, StartsIs
  <2>3. Len(d) <= Len(stk[j].dir)
    BY <2>1, <1>1, <1>3, <1>5
  <2>4. Starts(d, stk[j].dir)
    BY <2>1, <2>2, <2>3, <1>1, <1>2, <1>5, StartsIs
  <2> QED BY <2>4, <1>5, SMTT(30) DEF GoodStack
<1>6. k = l
  <2>1. k \in Nat /\ l \in Nat
    BY <1>1
  <2>2. ~(k < l) /\ ~(l < k)
    BY <1>5
  <2> QED BY <2>1, <2>2
<1>7. a = b
  <2>1. a \in Seq(Names) /\ b \in Seq(Names) /\ Len(a) = Len(b) /\ Len(a) \in Nat
    BY <1>4, <1>6
  <2>2. Starts(a, b)
    BY <2>1, <1>1, StartsIs
  <2> QED BY <2>1, <2>2, StartsIs
<1> QED BY <1>6, <1>7

(* The frames of a good stack. *)
LEMMA FramesAre ==
  ASSUME NEW D \in Disks, NEW root \in Seq(Names), NEW stk, GoodStack(D, stk, root)
  PROVE  /\ Len(stk) \in Nat /\ Len(root) \in Nat
         /\ \A k \in 1..Len(stk) : stk[k] \in Frames /\ stk[k].dir \in Seq(Names)
         /\ \A k \in 1..Len(stk) : \A e : e \in stk[k].todo =>
              e \in Seq(Names) /\ Len(e) = Len(root) + k /\ Starts(stk[k].dir, e) /\ Starts(root, e)
<1>1. stk \in Seq(Frames) /\ Len(stk) \in Nat /\ Len(root) \in Nat
  BY DEF GoodStack
<1>2. \A k \in 1..Len(stk) : stk[k] \in Frames
  BY <1>1
<1>3. \A k \in 1..Len(stk) : stk[k].dir \in Seq(Names)
  BY <1>2 DEF Frames
<1>4. ASSUME NEW k \in 1..Len(stk), NEW e \in stk[k].todo
      PROVE  e \in Seq(Names) /\ Len(e) = Len(root) + k /\ Starts(stk[k].dir, e) /\ Starts(root, e)
  <2>1. e \in SubOf(D, stk[k].dir) /\ Len(stk[k].dir) = Len(root) + k - 1 /\ Starts(root, stk[k].dir)
    BY <1>4 DEF GoodStack
  <2>2. e \in Seq(Names) /\ Len(e) = Len(stk[k].dir) + 1 /\ Starts(stk[k].dir, e)
    BY <2>1, <1>3, SubIs
  <2>3. Starts(root, e)
    BY <2>1, <2>2, <1>3, StartsIs
  <2> QED BY <1>1, <2>1, <2>2, <2>3
<1> QED BY <1>1, <1>2, <1>3, <1>4

(* A frame with other entries to do. *)
LEMMA FrameTakes ==
  ASSUME NEW r \in Frames, NEW u \in SUBSET Seq(Names)
  PROVE  /\ [r EXCEPT !.todo = u] \in Frames
         /\ [r EXCEPT !.todo = u].dir = r.dir /\ [r EXCEPT !.todo = u].todo = u
         /\ r.todo \in SUBSET Seq(Names)
BY DEF Frames

(* A function of 1..n is a sequence. *)
LEMMA IsSequence ==
  ASSUME NEW S, NEW n \in Nat, NEW s, DOMAIN s = 1..n, s = [k \in DOMAIN s |-> s[k]],
         \A k \in 1..n : s[k] \in S
  PROVE  s \in Seq(S) /\ Len(s) = n
OBVIOUS

IsTaken(stk, e, new) ==
  /\ new \in Seq(Frames) /\ Len(new) = Len(stk)
  /\ \A k \in 1..Len(stk) :
       /\ new[k].dir = stk[k].dir
       /\ new[k].todo = IF k = Len(stk) THEN stk[k].todo \ {e} ELSE stk[k].todo

(* The stack whose top frame lost an entry. *)
LEMMA TakenIs ==
  ASSUME NEW stk \in Seq(Frames), Len(stk) > 0, NEW e
  PROVE  IsTaken(stk, e, [stk EXCEPT ![Len(stk)].todo = @ \ {e}])
<1> DEFINE n == Len(stk)
           r == [stk[n] EXCEPT !.todo = stk[n].todo \ {e}]
           new == [stk EXCEPT ![n].todo = @ \ {e}]
<1>1. n \in Nat /\ n \in 1..n /\ \A k \in 1..n : stk[k] \in Frames
  OBVIOUS
<1>2. new = [k \in 1..n |-> IF k = n THEN r ELSE stk[k]]
  <2>1. stk = [k \in 1..n |-> stk[k]]
    OBVIOUS
  <2> QED BY <1>1, <2>1, Zenon
<1>3. r \in Frames /\ r.dir = stk[n].dir /\ r.todo = stk[n].todo \ {e}
  <2>1. stk[n] \in Frames /\ stk[n].todo \in SUBSET Seq(Names)
    BY <1>1, FrameTakes, Zenon
  <2>2. stk[n].todo \ {e} \in SUBSET Seq(Names)
    BY <2>1
  <2> QED BY <2>1, <2>2, FrameTakes, Zenon
<1> HIDE DEF n, r, new
<1>4. DOMAIN new = 1..n /\ new = [k \in DOMAIN new |-> new[k]]
  BY <1>2
<1>5. new[n] = r /\ \A k \in 1..n : k # n => new[k] = stk[k]
  BY <1>1, <1>2
<1>6. ASSUME NEW k \in 1..n
      PROVE  /\ new[k].dir = stk[k].dir /\ new[k] \in Frames
             /\ new[k].todo = IF k = n THEN stk[k].todo \ {e} ELSE stk[k].todo
  <2>1. CASE k = n
    BY <2>1, <1>3, <1>5
  <2>2. CASE k # n
    BY <2>2, <1>1, <1>5
  <2> QED BY <2>1, <2>2
<1>7. new \in Seq(Frames) /\ Len(new) = n
  BY <1>1, <1>4, <1>6, IsSequence, Zenon
<1>8. IsTaken(stk, e, new)
  BY <1>6, <1>7, Zenon DEF IsTaken, n
<1> QED BY <1>8 DEF new, n

(* An entry of the innermost call is taken: the files it leads to are no longer to be
   met, and all others still are. *)
LEMMA EntryTaken ==
  ASSUME NEW D \in Disks, NEW root \in Seq(Names), NEW stk, GoodStack(D, stk, root), Len(stk) > 0,
         NEW e \in stk[Len(stk)].todo,
         NEW new, IsTaken(stk, e, new)
  PROVE  /\ GoodStack(D, new, root) /\ Len(new) = Len(stk)
         /\ \A k \in 1..Len(stk) : new[k].dir = stk[k].dir
         /\ \A f \in D : Covers(new, f) <=> Covers(stk, f) /\ ~Starts(e, f.at)
         /\ \A k \in 1..Len(stk) : \A d \in new[k].todo : ~Starts(d, e)
<1> DEFINE n == Len(stk)
<1>1. /\ n \in Nat /\ n \in 1..n /\ Len(root) \in Nat
      /\ \A k \in 1..n : stk[k] \in Frames /\ stk[k].dir \in Seq(Names)
  <2>1. /\ n \in Nat /\ Len(root) \in Nat
        /\ \A k \in 1..n : stk[k] \in Frames /\ stk[k].dir \in Seq(Names)
    BY FramesAre
  <2> QED BY <2>1
<1>6. \A k \in 1..n : /\ new[k].dir = stk[k].dir
                      /\ new[k].todo = IF k = n THEN stk[n].todo \ {e} ELSE stk[k].todo
  BY Zenon DEF IsTaken
<1>7. new \in Seq(Frames) /\ Len(new) = n
  BY DEF IsTaken
<1> HIDE DEF n
<1>8. \A k \in 1..n : new[k].todo \subseteq stk[k].todo
  BY <1>6
<1>9. GoodStack(D, new, root)
  <2>1. \A k \in 1..n : /\ new[k].todo \subseteq SubOf(D, new[k].dir)
                        /\ Starts(root, new[k].dir) /\ Len(new[k].dir) = Len(root) + k - 1
    BY <1>6, <1>8, Zenon DEF GoodStack, n
  <2>2. \A k, l \in 1..n : k < l => \A d \in new[k].todo : ~Starts(d, new[l].dir)
    BY <1>6, <1>8, Zenon DEF GoodStack, n
  <2> QED BY <2>1, <2>2, <1>7 DEF GoodStack
<1>10. ASSUME NEW f \in D PROVE Covers(new, f) <=> Covers(stk, f) /\ ~Starts(e, f.at)
  <2>1. ASSUME Covers(new, f) PROVE Covers(stk, f) /\ ~Starts(e, f.at)
    <3>1. PICK k \in 1..n : \E d \in new[k].todo : Starts(d, f.at)
      BY <2>1, <1>7 DEF Covers
    <3>2. PICK d \in new[k].todo : Starts(d, f.at)
      BY <3>1
    <3>3. d \in stk[k].todo
      BY <1>8
    <3>4. Covers(stk, f)
      BY <3>2, <3>3 DEF Covers, n
    <3>5. Starts(e, f.at) => k = n /\ d = e
      BY <3>2, <3>3, <1>1, OneEntry DEF n
    <3>6. ~(k = n /\ d = e)
      BY <1>6
    <3> QED BY <3>4, <3>5, <3>6
  <2>2. ASSUME Covers(stk, f), ~Starts(e, f.at) PROVE Covers(new, f)
    <3>1. PICK k \in 1..n : \E d \in stk[k].todo : Starts(d, f.at)
      BY <2>2 DEF Covers, n
    <3>2. PICK d \in stk[k].todo : Starts(d, f.at)
      BY <3>1
    <3>3. d \in new[k].todo
      BY <2>2, <3>2, <1>6
    <3> QED BY <3>2, <3>3, <1>7 DEF Covers
  <2> QED BY <2>1, <2>2
<1>11. ASSUME NEW k \in 1..n, NEW d \in new[k].todo PROVE ~Starts(d, e)
  <2>1. d \in stk[k].todo /\ ~(k = n /\ d = e)
    BY <1>6, <1>8
  <2>2. PICK f \in D : Starts(e, f.at)
    <3>1. e \in SubOf(D, stk[n].dir)
      BY <1>1, Zenon DEF GoodStack, n
    <3> QED BY <3>1, <1>1, SubIs
  <2>3. d \in Seq(Names) /\ e \in Seq(Names) /\ f.at \in Seq(Names)
    BY <2>1, <1>1, FramesAre, DiskAssumption, Zenon DEF n
  <2>4. Starts(d, e) => Starts(d, f.at)
    BY <2>2, <2>3, StartsIs
  <2>5. Starts(d, f.at) => k = n /\ d = e
    BY <2>1, <2>2, <1>1, OneEntry DEF n
  <2> QED BY <2>1, <2>4, <2>5
<1> QED BY <1>6, <1>7, <1>9, <1>10, <1>11 DEF n

(* A call in the directory e: the files below e are to be met. *)
LEMMA EntryOpened ==
  ASSUME NEW D \in Disks, NEW root \in Seq(Names), NEW stk, GoodStack(D, stk, root),
         NEW e \in Seq(Names), Starts(root, e), Len(e) = Len(root) + Len(stk),
         \A k \in 1..Len(stk) : \A d \in stk[k].todo : ~Starts(d, e),
         NEW r \in Frames, r.dir = e, r.todo = SubOf(D, e)
  PROVE  /\ GoodStack(D, Append(stk, r), root)
         /\ \A f \in D : Covers(Append(stk, r), f)
                           <=> Covers(stk, f) \/ (Starts(e, f.at) /\ Len(e) < Len(f.at))
<1> DEFINE n == Len(stk)
           new == Append(stk, r)
<1>1. stk \in Seq(Frames) /\ n \in Nat /\ Len(root) \in Nat
  BY FramesAre DEF GoodStack
<1>2. /\ new \in Seq(Frames) /\ Len(new) = n + 1
      /\ \A k \in 1..n : new[k] = stk[k]
      /\ new[n + 1] = r
  BY <1>1
<1>3. \A k \in 1..(n + 1) : k \in 1..n \/ k = n + 1
  BY <1>1
<1>4. n + 1 \in 1..(n + 1) /\ \A k \in 1..n : k \in 1..(n + 1)
  BY <1>1
<1> HIDE DEF new, n
<1>5. GoodStack(D, new, root)
  <2>1. \A k \in 1..n : /\ stk[k].todo \subseteq SubOf(D, stk[k].dir)
                        /\ Starts(root, stk[k].dir) /\ Len(stk[k].dir) = Len(root) + k - 1
    BY DEF GoodStack, n
  <2>2. r.todo \subseteq SubOf(D, r.dir) /\ Starts(root, r.dir) /\ Len(r.dir) = Len(root) + (n + 1) - 1
    BY <1>1 DEF n
  <2>3. \A k \in 1..(n + 1) : /\ new[k].todo \subseteq SubOf(D, new[k].dir)
                              /\ Starts(root, new[k].dir) /\ Len(new[k].dir) = Len(root) + k - 1
    BY <2>1, <2>2, <1>2, <1>3, Zenon
  <2>4. ASSUME NEW k \in 1..(n + 1), NEW l \in 1..(n + 1), k < l, NEW d \in new[k].todo
        PROVE  ~Starts(d, new[l].dir)
    <3>1. k \in 1..n /\ d \in stk[k].todo
      BY <2>4, <1>1, <1>2, <1>3
    <3>2. CASE l \in 1..n
      <4>1. ~Starts(d, stk[l].dir)
        BY <2>4, <3>1, <3>2, Zenon DEF GoodStack, n
      <4> QED BY <4>1, <3>2, <1>2
    <3>3. CASE l = n + 1
      <4>1. ~Starts(d, e)
        BY <3>1 DEF n
      <4> QED BY <4>1, <3>3, <1>2
    <3> QED BY <3>2, <3>3, <1>3
  <2> QED BY <2>3, <2>4, <1>2, SMTT(30) DEF GoodStack
<1>6. ASSUME NEW f \in D
      PROVE  Covers(new, f) <=> Covers(stk, f) \/ (Starts(e, f.at) /\ Len(e) < Len(f.at))
  <2>1. (\E d \in r.todo : Starts(d, f.at)) <=> Starts(e, f.at) /\ Len(e) < Len(f.at)
    <3>1. f.at \in Seq(Names) /\ Len(f.at) \in Nat /\ Len(e) \in Nat
      BY DiskAssumption
    <3>2. ASSUME NEW d \in SubOf(D, e), Starts(d, f.at)
          PROVE  Starts(e, f.at) /\ Len(e) < Len(f.at)
      <4>1. d \in Seq(Names) /\ Len(d) = Len(e) + 1 /\ Starts(e, d)
        BY SubIs
      <4>2. Starts(e, f.at)
        BY <3>1, <3>2, <4>1, StartsIs
      <4>3. Len(d) <= Len(f.at)
        BY <3>2 DEF Starts
      <4> QED BY <3>1, <4>1, <4>2, <4>3
    <3>3. Starts(e, f.at) /\ Len(e) < Len(f.at) => \E d \in SubOf(D, e) : Starts(d, f.at)
      BY SubIs
    <3> QED BY <3>2, <3>3
  <2>2. Covers(new, f) <=> \E k \in 1..(n + 1) : \E d \in new[k].todo : Starts(d, f.at)
    BY <1>2 DEF Covers
  <2>3. Covers(stk, f) <=> \E k \in 1..n : \E d \in stk[k].todo : Starts(d, f.at)
    BY DEF Covers, n
  <2>4. Covers(new, f) <=> Covers(stk, f) \/ \E d \in r.todo : Starts(d, f.at)
    BY <2>2, <2>3, <1>2, <1>3, <1>4
  <2> QED BY <2>1, <2>4
<1> QED BY <1>5, <1>6 DEF new

(* A sequence without its last element. *)
LEMMA FrontIs ==
  ASSUME NEW S, NEW s \in Seq(S), Len(s) > 0
  PROVE  /\ Front(s) \in Seq(S) /\ Len(Front(s)) = Len(s) - 1
         /\ \A k \in 1..(Len(s) - 1) : Front(s)[k] = s[k]
<1>1. Len(s) \in Nat /\ Len(s) - 1 \in Nat /\ Len(s) - 1 <= Len(s)
  OBVIOUS
<1>2. \A m \in Nat : m <= Len(s) =>
        /\ SubSeq(s, 1, m) \in Seq(S) /\ Len(SubSeq(s, 1, m)) = m
        /\ \A k \in 1..m : SubSeq(s, 1, m)[k] = s[k]
  OBVIOUS
<1> QED BY <1>1, <1>2, Zenon DEF Front

(* A call returns. *)
LEMMA CallEnds ==
  ASSUME NEW D \in Disks, NEW root \in Seq(Names), NEW stk, GoodStack(D, stk, root), Len(stk) > 0,
         stk[Len(stk)].todo = {}
  PROVE  /\ GoodStack(D, Front(stk), root) /\ Len(Front(stk)) = Len(stk) - 1
         /\ \A k \in 1..(Len(stk) - 1) : Front(stk)[k] = stk[k]
         /\ \A f : Covers(Front(stk), f) <=> Covers(stk, f)
<1> DEFINE n == Len(stk)
           new == Front(stk)
<1>1. stk \in Seq(Frames) /\ n \in Nat /\ n > 0
  BY FramesAre DEF GoodStack
<1>2. new \in Seq(Frames) /\ Len(new) = n - 1 /\ \A k \in 1..(n - 1) : new[k] = stk[k]
  BY <1>1, FrontIs
<1>3. (\A k \in 1..(n - 1) : k \in 1..n) /\ \A k \in 1..n : k \in 1..(n - 1) \/ k = n
  BY <1>1
<1> HIDE DEF new, n
<1>4. GoodStack(D, new, root)
  <2>1. \A k \in 1..(n - 1) : /\ new[k].todo \subseteq SubOf(D, new[k].dir)
                              /\ Starts(root, new[k].dir) /\ Len(new[k].dir) = Len(root) + k - 1
    BY <1>2, <1>3, Zenon DEF GoodStack, n
  <2>2. \A k, l \in 1..(n - 1) : k < l => \A e \in new[k].todo : ~Starts(e, new[l].dir)
    BY <1>2, <1>3, Zenon DEF GoodStack, n
  <2> QED BY <2>1, <2>2, <1>2 DEF GoodStack
<1>5. \A f : Covers(new, f) <=> Covers(stk, f)
  BY <1>2, <1>3 DEF Covers, n
<1> QED BY <1>2, <1>4, <1>5 DEF new, n

-----------------------------------------------------------------------------
(* Counting. *)

(* A set of positions with one more at the end. *)
LEMMA OneMore ==
  ASSUME NEW n \in Nat, NEW K, K \subseteq 1..n
  PROVE  /\ IsFiniteSet(K) /\ Cardinality(K) \in Nat
         /\ Cardinality(K \cup {n + 1}) = Cardinality(K) + 1
<1>1. IsFiniteSet(1..n)
  BY FS_Interval
<1>2. IsFiniteSet(K)
  BY <1>1, FS_Subset, Zenon
<1>3. n + 1 \notin K
  OBVIOUS
<1> QED BY <1>2, <1>3, FS_AddElement, FS_CardinalityType

FileCount(ms, f) == Cardinality({i \in DOMAIN ms : ms[i].file = f})
ErrorCount(es, f) == Cardinality({i \in DOMAIN es : es[i] = f})

(* A module more counts for its file and for no other. *)
LEMMA FileCounted ==
  ASSUME NEW S, NEW ms \in Seq(S), NEW m \in S, NEW f
  PROVE  /\ FileCount(ms, f) \in Nat
         /\ FileCount(Append(ms, m), f) = FileCount(ms, f) + (IF m.file = f THEN 1 ELSE 0)
<1> DEFINE n == Len(ms)
           K == {i \in 1..n : ms[i].file = f}
           new == Append(ms, m)
           L == {i \in 1..(n + 1) : new[i].file = f}
<1>1. n \in Nat /\ DOMAIN ms = 1..n /\ DOMAIN new = 1..(n + 1)
  OBVIOUS
<1>2. new[n + 1] = m /\ \A i \in 1..n : new[i] = ms[i]
  OBVIOUS
<1>3. K \subseteq 1..n
  OBVIOUS
<1> HIDE DEF new, n
<1>4. L = IF m.file = f THEN K \cup {n + 1} ELSE K
  BY <1>1, <1>2
<1> HIDE DEF K, L
<1>5. Cardinality(K) \in Nat /\ Cardinality(L) = Cardinality(K) + (IF m.file = f THEN 1 ELSE 0)
  <2>1. Cardinality(K) \in Nat /\ Cardinality(K \cup {n + 1}) = Cardinality(K) + 1
    BY <1>1, <1>3, OneMore, Zenon
  <2> QED BY <2>1, <1>4
<1>6. FileCount(ms, f) = Cardinality(K) /\ FileCount(new, f) = Cardinality(L)
  BY <1>1 DEF FileCount, K, L
<1> QED BY <1>5, <1>6 DEF new

(* An error more counts for its file and for no other. *)
LEMMA ErrorCounted ==
  ASSUME NEW S, NEW es \in Seq(S), NEW g \in S, NEW f
  PROVE  /\ ErrorCount(es, f) \in Nat
         /\ ErrorCount(Append(es, g), f) = ErrorCount(es, f) + (IF g = f THEN 1 ELSE 0)
<1> DEFINE n == Len(es)
           K == {i \in 1..n : es[i] = f}
           new == Append(es, g)
           L == {i \in 1..(n + 1) : new[i] = f}
<1>1. n \in Nat /\ DOMAIN es = 1..n /\ DOMAIN new = 1..(n + 1)
  OBVIOUS
<1>2. new[n + 1] = g /\ \A i \in 1..n : new[i] = es[i]
  OBVIOUS
<1>3. K \subseteq 1..n
  OBVIOUS
<1> HIDE DEF new, n
<1>4. L = IF g = f THEN K \cup {n + 1} ELSE K
  BY <1>1, <1>2
<1> HIDE DEF K, L
<1>5. Cardinality(K) \in Nat /\ Cardinality(L) = Cardinality(K) + (IF g = f THEN 1 ELSE 0)
  <2>1. Cardinality(K) \in Nat /\ Cardinality(K \cup {n + 1}) = Cardinality(K) + 1
    BY <1>1, <1>3, OneMore, Zenon
  <2> QED BY <2>1, <1>4
<1>6. ErrorCount(es, f) = Cardinality(K) /\ ErrorCount(new, f) = Cardinality(L)
  BY <1>1 DEF ErrorCount, K, L
<1> QED BY <1>5, <1>6 DEF new

-----------------------------------------------------------------------------
(* execute_path. *)

Files == UNION Disks

(* What the path of a module says of its file. *)
NameOK(o, m) ==
  /\ o = "fat" => \E j \in DOMAIN Paths : m.file.at = Append(Paths[j] \o m.path, Last(m.file.at))
  /\ o = "os" => \E j \in DOMAIN Paths : Name(Paths[j]) = Head(m.path)
                                          /\ Last(m.path) = Last(m.file.at)

Modules(o) == {m \in [file : Files, path : Seq(Names)] :
                 NameOK(o, m) /\ m.file.content \in {"good", "names", "jit"}}

WantedIn(o, f) == IF o = "fat" THEN f.content # "binary" ELSE f.ext = "yacari"

(* How often f is to be parsed for the first t paths. *)
Owed(o, f, t) == Cardinality({j \in 1..t : IsPrefix(Paths[j], f.at) /\ WantedIn(o, f)})

(* Every file is parsed as often as it has to be, but for once if it is still to be met. *)
Settled(D, o, stk, ms, es, t) ==
  \A f \in D : FileCount(ms, f) + ErrorCount(es, f)
                 + (IF WantedIn(o, f) /\ Covers(stk, f) THEN 1 ELSE 0) = Owed(o, f, t)

(* How many paths have been begun. *)
begun == Len(Paths) - Len(left)

WalkInv ==
  /\ origin \in {"fat", "os"} /\ ready = 0
  /\ left \in Seq(Seq(Names)) /\ Len(left) <= Len(Paths)
  /\ \A i \in 1..Len(left) : left[i] = Paths[begun + i]
  /\ path_buf \in Seq(Names)
  /\ IF begun = 0 THEN stack = <<>> ELSE GoodStack(disk, stack, Paths[begun])
  /\ stack # <<>> /\ origin = "fat" =>
       /\ Len(path_buf) = Len(stack) - 1
       /\ \A k \in 1..Len(stack) : \A i \in 1..(k - 1) :
            stack[k].dir[Len(Paths[begun]) + i] = path_buf[i]
  /\ stack # <<>> /\ origin = "os" => path_buf # <<>> /\ path_buf[1] = Name(Paths[begun])
  /\ Settled(disk, origin, stack, modules, errors, begun)

PathInv ==
  /\ disk \in Disks /\ modules \in Seq(Modules(origin)) /\ errors \in Seq(Files)
  /\ phase \in {"walk", "parse", "err", "compile", "jit", "running", "done", "panic", "overflow"}
  /\ phase = "walk" => WalkInv
  /\ phase \in {"err", "compile", "jit", "running", "done"} /\ origin # "text" =>
       \A f \in disk : FileCount(modules, f) + ErrorCount(errors, f) = Owed(origin, f, Len(Paths))
  /\ phase = "parse" => origin = "text" /\ ready = 0 /\ errors = <<>>
  /\ phase \in {"compile", "jit", "running", "done"} => errors = <<>>
  /\ phase = "compile" => ready = 0
  /\ phase \in {"jit", "running", "done"} =>
       /\ ready \in 0..Len(modules)
       /\ \A i \in 1..Len(modules) : modules[i].file.content # "names"
       /\ \A i \in 1..ready : modules[i].file.content = "good"
  /\ phase \in {"running", "done"} => ready = Len(modules)

(* What one more path owes. *)
LEMMA OwedIs ==
  ASSUME NEW o, NEW f, NEW t \in Nat
  PROVE  /\ Owed(o, f, t) \in Nat /\ Owed(o, f, 0) = 0
         /\ Owed(o, f, t + 1) = Owed(o, f, t)
              + (IF IsPrefix(Paths[t + 1], f.at) /\ WantedIn(o, f) THEN 1 ELSE 0)
<1> DEFINE P(j) == IsPrefix(Paths[j], f.at) /\ WantedIn(o, f)
           K == {j \in 1..t : P(j)}
           L == {j \in 1..(t + 1) : P(j)}
<1>1. Cardinality(K) \in Nat /\ Cardinality(K \cup {t + 1}) = Cardinality(K) + 1
  <2>1. K \subseteq 1..t
    OBVIOUS
  <2> HIDE DEF K
  <2> QED BY <2>1, OneMore, Zenon
<1>2. {j \in 1..0 : P(j)} = {}
  OBVIOUS
<1> HIDE DEF P
<1>3. L = IF P(t + 1) THEN K \cup {t + 1} ELSE K
  OBVIOUS
<1> HIDE DEF K, L
<1>4. Cardinality(L) = Cardinality(K) + (IF P(t + 1) THEN 1 ELSE 0)
  BY <1>1, <1>3
<1>5. Owed(o, f, t) = Cardinality(K) /\ Owed(o, f, t + 1) = Cardinality(L)
  BY DEF Owed, K, L, P
<1>6. Owed(o, f, 0) = 0
  BY <1>2, FS_EmptySet DEF Owed, P
<1> QED BY <1>1, <1>4, <1>5, <1>6 DEF P

(* A path is a directory, or the path of a file, or nothing. *)
LEMMA DirectoryOrFile ==
  ASSUME disk \in Disks, NEW p \in Seq(Names)
  PROVE  /\ \A f \in disk : f.at \in Seq(Names) /\ f.at # <<>> /\ f \in Files
         /\ IsDirectory(p) => \A f \in disk : Starts(p, f.at) => Len(p) < Len(f.at)
         /\ ~IsDirectory(p) => \A f \in disk : Starts(p, f.at) => f.at = p
         /\ \A f \in disk : f.at = p => FileAt(p) = f /\ (IsSource(p) <=> f.ext = "yacari")
         /\ \A f, g \in disk : Starts(f.at, g.at) => f = g
         /\ \A f \in disk : Starts(f.at, f.at)
<1>1. \A f \in disk : f.at \in Seq(Names) /\ f.at # <<>> /\ f \in Files
  BY DiskAssumption DEF Files
<1>2. \A f, g \in disk : Starts(f.at, g.at) => f = g
  BY <1>1, PrefixIs, DiskAssumption
<1>3. \A f \in disk : Starts(f.at, f.at)
  BY <1>1 DEF Starts
<1>4. IsDirectory(p) <=> \E f \in disk : Starts(p, f.at) /\ Len(p) < Len(f.at)
  BY <1>1, PrefixIs DEF IsDirectory
<1>5. \A f \in disk : Starts(p, f.at) => Len(p) <= Len(f.at) /\ Len(p) \in Nat /\ Len(f.at) \in Nat
  BY <1>1 DEF Starts
<1>6. \A f \in disk : Starts(p, f.at) /\ ~(Len(p) < Len(f.at)) => f.at = p
  <2> SUFFICES ASSUME NEW f \in disk, Starts(p, f.at), ~(Len(p) < Len(f.at)) PROVE f.at = p
    OBVIOUS
  <2>1. Len(p) = Len(f.at)
    BY <1>5
  <2> QED BY <2>1, <1>1, StartsIs
<1>7. ASSUME NEW f \in disk, Starts(p, f.at), IsDirectory(p) PROVE Len(p) < Len(f.at)
  <2>1. SUFFICES ASSUME f.at = p PROVE FALSE
    BY <1>6, <1>7
  <2>2. PICK g \in disk : Starts(p, g.at) /\ Len(p) < Len(g.at)
    BY <1>4, <1>7
  <2>3. f = g
    BY <2>1, <2>2, <1>2
  <2> QED BY <2>1, <2>2, <2>3
<1>8. ASSUME NEW f \in disk, f.at = p PROVE FileAt(p) = f /\ (IsSource(p) <=> f.ext = "yacari")
  <2>1. \A g \in disk : g.at = p => g = f
    BY <1>2, <1>3, <1>8
  <2> QED BY <2>1, <1>8 DEF FileAt, IsSource
<1>9. ~IsDirectory(p) => \A f \in disk : Starts(p, f.at) => f.at = p
  BY <1>4, <1>6
<1> QED BY <1>1, <1>2, <1>3, <1>7, <1>8, <1>9

-----------------------------------------------------------------------------
(* What a step does to the counts. *)

Count(ms, es, f) == FileCount(ms, f) + ErrorCount(es, f)

(* The wanted file at p, and no other, has been parsed. *)
Parsed(D, o, p, ms, es, ns, gs) ==
  \A f \in D : Count(ns, gs, f) = Count(ms, es, f) + (IF WantedIn(o, f) /\ f.at = p THEN 1 ELSE 0)

(* The modules of a file are finitely many. *)
LEMMA FileCountNat ==
  ASSUME NEW S, NEW ms \in Seq(S), NEW f
  PROVE  FileCount(ms, f) \in Nat
<1>1. Len(ms) \in Nat /\ {i \in DOMAIN ms : ms[i].file = f} \subseteq 1..Len(ms)
  OBVIOUS
<1> QED BY <1>1, OneMore, Zenon DEF FileCount

(* What was read of a file is a number. *)
LEMMA CountIs ==
  ASSUME NEW S, NEW T, NEW ms \in Seq(S), NEW es \in Seq(T), NEW f
  PROVE  Count(ms, es, f) \in Nat
<1>1. Len(es) \in Nat /\ {i \in DOMAIN es : es[i] = f} \subseteq 1..Len(es)
  OBVIOUS
<1>2. ErrorCount(es, f) \in Nat
  BY <1>1, OneMore, Zenon DEF ErrorCount
<1> QED BY <1>2, FileCountNat DEF Count

(* Settled, file by file. *)
LEMMA SettledIs ==
  ASSUME NEW D, NEW o, NEW stk, NEW ms, NEW es, NEW t
  PROVE  Settled(D, o, stk, ms, es, t) <=>
           \A f \in D : Count(ms, es, f) + (IF WantedIn(o, f) /\ Covers(stk, f) THEN 1 ELSE 0)
                          = Owed(o, f, t)
BY DEF Settled, Count

(* An entry that is a file is taken. *)
LEMMA SettledMet ==
  ASSUME disk \in Disks, NEW o, NEW S, NEW T, NEW ms \in Seq(S), NEW es \in Seq(T), NEW ns, NEW gs,
         NEW t \in Nat, NEW stk, NEW new, NEW e \in Seq(Names), NEW k \in 1..Len(stk), e \in stk[k].todo,
         Settled(disk, o, stk, ms, es, t), Parsed(disk, o, e, ms, es, ns, gs),
         \A f \in disk : Covers(new, f) <=> Covers(stk, f) /\ ~Starts(e, f.at),
         \E f \in disk : f.at = e
  PROVE  Settled(disk, o, new, ns, gs, t)
<1> SUFFICES ASSUME NEW f \in disk
             PROVE  Count(ns, gs, f) + (IF WantedIn(o, f) /\ Covers(new, f) THEN 1 ELSE 0) = Owed(o, f, t)
  BY SettledIs
<1>1. Count(ms, es, f) + (IF WantedIn(o, f) /\ Covers(stk, f) THEN 1 ELSE 0) = Owed(o, f, t)
  BY SettledIs
<1>2. Count(ns, gs, f) = Count(ms, es, f) + (IF WantedIn(o, f) /\ f.at = e THEN 1 ELSE 0)
  BY DEF Parsed
<1>3. Count(ms, es, f) \in Nat
  BY CountIs
<1>4. Starts(e, f.at) <=> f.at = e
  BY DirectoryOrFile
<1>5. Starts(e, f.at) => Covers(stk, f)
  BY DEF Covers
<1>6. Covers(new, f) <=> Covers(stk, f) /\ ~Starts(e, f.at)
  OBVIOUS
<1> QED BY <1>1, <1>2, <1>3, <1>4, <1>5, <1>6

(* A path is begun that is a directory. *)
LEMMA SettledBegun ==
  ASSUME disk \in Disks, NEW o, NEW S, NEW T, NEW ms \in Seq(S), NEW es \in Seq(T),
         NEW t \in Nat, NEW new, NEW p \in Seq(Names), p = Paths[t + 1], IsDirectory(p),
         Settled(disk, o, <<>>, ms, es, t),
         \A f \in disk : Covers(new, f) <=> Starts(p, f.at) /\ Len(p) < Len(f.at)
  PROVE  Settled(disk, o, new, ms, es, t + 1)
<1> SUFFICES ASSUME NEW f \in disk
             PROVE  Count(ms, es, f) + (IF WantedIn(o, f) /\ Covers(new, f) THEN 1 ELSE 0) = Owed(o, f, t + 1)
  BY SettledIs
<1>1. Count(ms, es, f) + (IF WantedIn(o, f) /\ Covers(<<>>, f) THEN 1 ELSE 0) = Owed(o, f, t)
  BY SettledIs
<1>2. Count(ms, es, f) \in Nat
  BY CountIs
<1>3. ~Covers(<<>>, f)
  BY DEF Covers
<1>4. Covers(new, f) <=> IsPrefix(p, f.at)
  <2>1. f.at \in Seq(Names) /\ (Starts(p, f.at) => Len(p) < Len(f.at))
    BY DirectoryOrFile
  <2> QED BY <2>1, PrefixIs
<1>5. Owed(o, f, t + 1) = Owed(o, f, t) + (IF IsPrefix(p, f.at) /\ WantedIn(o, f) THEN 1 ELSE 0)
  BY OwedIs, Zenon
<1> QED BY <1>1, <1>2, <1>3, <1>4, <1>5

(* A path is begun, and over, that is none. *)
LEMMA SettledFile ==
  ASSUME disk \in Disks, NEW o, NEW S, NEW T, NEW ms \in Seq(S), NEW es \in Seq(T), NEW ns, NEW gs,
         NEW t \in Nat, NEW p \in Seq(Names), p = Paths[t + 1], ~IsDirectory(p),
         Settled(disk, o, <<>>, ms, es, t), Parsed(disk, o, p, ms, es, ns, gs)
  PROVE  Settled(disk, o, <<>>, ns, gs, t + 1)
<1> SUFFICES ASSUME NEW f \in disk
             PROVE  Count(ns, gs, f) + (IF WantedIn(o, f) /\ Covers(<<>>, f) THEN 1 ELSE 0) = Owed(o, f, t + 1)
  BY SettledIs
<1>1. Count(ms, es, f) + (IF WantedIn(o, f) /\ Covers(<<>>, f) THEN 1 ELSE 0) = Owed(o, f, t)
  BY SettledIs
<1>2. Count(ms, es, f) \in Nat
  BY CountIs
<1>3. ~Covers(<<>>, f)
  BY DEF Covers
<1>4. f.at = p <=> IsPrefix(p, f.at)
  <2>1. f.at \in Seq(Names) /\ (Starts(p, f.at) <=> f.at = p)
    BY DirectoryOrFile
  <2> QED BY <2>1, PrefixIs
<1>5. Owed(o, f, t + 1) = Owed(o, f, t) + (IF IsPrefix(p, f.at) /\ WantedIn(o, f) THEN 1 ELSE 0)
  BY OwedIs, Zenon
<1>6. Count(ns, gs, f) = Count(ms, es, f) + (IF WantedIn(o, f) /\ f.at = p THEN 1 ELSE 0)
  BY DEF Parsed
<1> QED BY <1>1, <1>2, <1>3, <1>4, <1>5, <1>6

(* The closure, on a file that can be parsed. *)
LEMMA DeliverIs ==
  ASSUME disk \in Disks, modules \in Seq(Modules(origin)), errors \in Seq(Files),
         NEW g \in disk, g.content \notin {"empty", "binary"}, NEW path \in Seq(Names),
         \A m : m.file = g /\ m.path = path => NameOK(origin, m),
         Deliver(g, path)
  PROVE  /\ modules' \in Seq(Modules(origin)) /\ errors' \in Seq(Files)
         /\ WantedIn(origin, g) => Parsed(disk, origin, g.at, modules, errors, modules', errors')
<1>1. /\ g \in Files /\ \A f \in disk : f.at = g.at <=> f = g
  BY DirectoryOrFile, DiskAssumption
<1>2. g.content \in {"good", "syntax", "names", "jit"}
  BY DiskAssumption
<1> DEFINE m == [file |-> g, path |-> path]
<1>3. m \in [file : Files, path : Seq(Names)] /\ m.file = g /\ m.path = path
  BY <1>1
<1> HIDE DEF m
<1>4. CASE g.content = "syntax"
  <2>1. modules' = modules /\ errors' = Append(errors, g)
    BY <1>4 DEF Deliver
  <2>2. errors' \in Seq(Files)
    BY <2>1, <1>1
  <2>3. ASSUME NEW f \in disk, WantedIn(origin, g)
        PROVE  Count(modules', errors', f)
                 = Count(modules, errors, f) + (IF WantedIn(origin, f) /\ f.at = g.at THEN 1 ELSE 0)
    <3>1. FileCount(modules, f) \in Nat
      BY FileCountNat
    <3>2. ErrorCount(errors, f) \in Nat
          /\ ErrorCount(errors', f) = ErrorCount(errors, f) + (IF g = f THEN 1 ELSE 0)
      BY <2>1, <1>1, ErrorCounted
    <3> QED BY <2>1, <2>3, <3>1, <3>2, <1>1 DEF Count
  <2> QED BY <2>1, <2>2, <2>3 DEF Parsed
<1>5. CASE g.content # "syntax"
  <2>1. modules' = Append(modules, m) /\ errors' = errors
    BY <1>2, <1>5 DEF Deliver, m
  <2>2. m \in Modules(origin)
    <3>1. NameOK(origin, m)
      BY <1>3
    <3> QED BY <3>1, <1>2, <1>3, <1>5 DEF Modules
  <2>3. modules' \in Seq(Modules(origin))
    BY <2>1, <2>2
  <2>4. ASSUME NEW f \in disk, WantedIn(origin, g)
        PROVE  Count(modules', errors', f)
                 = Count(modules, errors, f) + (IF WantedIn(origin, f) /\ f.at = g.at THEN 1 ELSE 0)
    <3>1. ErrorCount(errors, f) \in Nat
      BY <1>1, ErrorCounted
    <3>2. FileCount(modules, f) \in Nat
          /\ FileCount(modules', f) = FileCount(modules, f) + (IF g = f THEN 1 ELSE 0)
      BY <2>1, <2>2, <1>3, FileCounted
    <3> QED BY <2>1, <2>4, <3>1, <3>2, <1>1 DEF Count
  <2> QED BY <2>1, <2>3, <2>4 DEF Parsed
<1> QED BY <1>4, <1>5

-----------------------------------------------------------------------------
(* The steps of a walk. *)

(* Taking the next path begins it. *)
LEMMA LeftIs ==
  ASSUME WalkInv, left # <<>>, left' = Tail(left)
  PROVE  /\ begun \in Nat /\ begun + 1 \in DOMAIN Paths /\ begun' = begun + 1
         /\ Head(left) = Paths[begun + 1] /\ Head(left) \in Seq(Names) /\ Head(left) # <<>>
         /\ left' \in Seq(Seq(Names)) /\ Len(left') <= Len(Paths)
         /\ \A i \in 1..Len(left') : left'[i] = Paths[begun' + i]
<1>1. left \in Seq(Seq(Names)) /\ Len(left) <= Len(Paths) /\ \A i \in 1..Len(left) : left[i] = Paths[begun + i]
  BY DEF WalkInv
<1>2. Len(left) \in Nat /\ Len(Paths) \in Nat /\ Len(left) > 0 /\ Paths \in Seq(Seq(Names))
  BY <1>1, DiskAssumption
<1>3. /\ left' \in Seq(Seq(Names)) /\ Len(left') = Len(left) - 1
      /\ \A i \in 1..(Len(left) - 1) : left'[i] = left[i + 1]
      /\ Head(left) = left[1]
  BY <1>1, <1>2
<1>4. begun \in Nat /\ begun' = begun + 1
  BY <1>1, <1>2, <1>3 DEF begun
<1>5. begun + 1 \in DOMAIN Paths
  BY <1>1, <1>2 DEF begun
<1>6. Head(left) = Paths[begun + 1]
  BY <1>1, <1>2, <1>3
<1>7. ASSUME NEW i \in 1..Len(left') PROVE left'[i] = Paths[begun' + i]
  <2>1. i \in 1..(Len(left) - 1) /\ i + 1 \in 1..Len(left)
    BY <1>2, <1>3
  <2>2. left'[i] = Paths[begun + (i + 1)]
    BY <2>1, <1>1, <1>3
  <2> QED BY <2>1, <2>2, <1>2, <1>4
<1>8. Head(left) \in Seq(Names) /\ Head(left) # <<>>
  BY <1>5, <1>6, DiskAssumption
<1> QED BY <1>2, <1>1, <1>3, <1>4, <1>5, <1>6, <1>7, <1>8

(* Sub, of the run, is SubOf. *)
LEMMA SubHere == \A d : Sub(d) = SubOf(disk, d)
BY DEF Sub, SubOf

(* The frame that a directory opens. *)
LEMMA FrameIs ==
  ASSUME disk \in Disks, NEW d \in Seq(Names)
  PROVE  \E r \in Frames : r = [dir |-> d, todo |-> Sub(d)] /\ r.dir = d /\ r.todo = SubOf(disk, d)
<1>1. SubOf(disk, d) \in SUBSET Seq(Names)
  BY SubIs
<1> DEFINE r == [dir |-> d, todo |-> Sub(d)]
<1>2. r.dir = d /\ r.todo = Sub(d)
  OBVIOUS
<1>3. Sub(d) = SubOf(disk, d)
  BY SubHere
<1>4. r \in Frames
  BY <1>1, <1>3 DEF Frames
<1> WITNESS r \in Frames
<1> QED BY <1>2, <1>3

(* A path is begun that is a directory. *)
LEMMA DirectoryBegun ==
  ASSUME PathInv, phase = "walk", stack = <<>>, left # <<>>, IsDirectory(Head(left)),
         UNCHANGED <<origin, disk, modules, errors, ready, phase>>, left' = Tail(left),
         stack' = <<[dir |-> Head(left), todo |-> Sub(Head(left))]>>,
         origin = "fat" => path_buf' = <<>>,
         origin = "os" => path_buf' = <<Name(Head(left))>>
  PROVE  WalkInv'
<1> DEFINE p == Head(left)
           t == begun
<1>1. WalkInv /\ disk \in Disks /\ modules \in Seq(Modules(origin)) /\ errors \in Seq(Files)
  BY DEF PathInv
<1>2. /\ t \in Nat /\ t + 1 \in DOMAIN Paths /\ begun' = t + 1
      /\ p = Paths[t + 1] /\ p \in Seq(Names) /\ p # <<>>
      /\ left' \in Seq(Seq(Names)) /\ Len(left') <= Len(Paths)
      /\ \A i \in 1..Len(left') : left'[i] = Paths[begun' + i]
  BY <1>1, LeftIs
<1> HIDE DEF p, t
<1>3. PICK r \in Frames : r = [dir |-> p, todo |-> Sub(p)] /\ r.dir = p /\ r.todo = SubOf(disk, p)
  BY <1>1, <1>2, FrameIs
<1> DEFINE none == <<>>
<1>4. stack' = Append(none, r)
  BY <1>3 DEF p
<1>5. Len(stack') = 1 /\ stack' # <<>>
  BY <1>4
<1>6. GoodStack(disk, none, p)
  BY DEF GoodStack
<1>7. Starts(p, p) /\ Len(p) = Len(p) + Len(none) /\ \A k \in 1..Len(none) : \A d \in none[k].todo : ~Starts(d, p)
  <2>1. Len(none) = 0 /\ Len(p) \in Nat
    BY <1>2
  <2> HIDE DEF none
  <2> QED BY <2>1 DEF Starts
<1>8. /\ GoodStack(disk, stack', p)
      /\ \A f \in disk : Covers(stack', f) <=> Covers(none, f) \/ (Starts(p, f.at) /\ Len(p) < Len(f.at))
  <2> HIDE DEF none
  <2>1. r \in Frames /\ r.dir = p /\ r.todo = SubOf(disk, p)
    BY <1>3
  <2>2. /\ GoodStack(disk, Append(none, r), p)
        /\ \A f \in disk : Covers(Append(none, r), f) <=> Covers(none, f) \/ (Starts(p, f.at) /\ Len(p) < Len(f.at))
    BY <1>1, <1>2, <2>1, <1>6, <1>7, EntryOpened, Zenon
  <2> QED BY <2>2, <1>4, Zenon
<1>9. \A f : ~Covers(<<>>, f)
  BY DEF Covers
<1>10. Settled(disk, origin, <<>>, modules, errors, t)
  BY <1>1 DEF WalkInv, t
<1>11. Settled(disk, origin, stack', modules, errors, t + 1)
  <2>1. \A f \in disk : Covers(stack', f) <=> Starts(p, f.at) /\ Len(p) < Len(f.at)
    BY <1>8, <1>9
  <2>2. IsDirectory(p)
    BY DEF p
  <2> QED BY <2>1, <2>2, <1>1, <1>2, <1>10, SettledBegun, Zenon
<1>12. origin \in {"fat", "os"} /\ ready = 0
  BY <1>1 DEF WalkInv
<1>13. Name(p) \in Names
  <2>1. Len(p) \in 1..Len(p)
    BY <1>2
  <2> QED BY <2>1, <1>2 DEF Name, Last
<1>14. /\ path_buf' \in Seq(Names)
       /\ origin = "fat" => Len(path_buf') = Len(stack') - 1
       /\ origin = "os" => path_buf' # <<>> /\ path_buf'[1] = Name(p)
  <2>1. CASE origin = "fat"
    BY <2>1, <1>5
  <2>2. CASE origin = "os"
    <3> DEFINE name == Name(p)
    <3>1. path_buf' = <<name>> /\ name \in Names
      BY <2>2, <1>13 DEF p
    <3> HIDE DEF name
    <3>2. path_buf' \in Seq(Names) /\ path_buf' # <<>> /\ path_buf'[1] = name
      BY <3>1
    <3> QED BY <2>2, <3>2 DEF name
  <2> QED BY <2>1, <2>2, <1>12
<1>15. \A k \in 1..Len(stack') : \A i \in 1..(k - 1) : FALSE
  BY <1>5
<1>16. begun' # 0 /\ Paths[begun'] = p
  BY <1>2
<1>17. /\ origin' = origin /\ disk' = disk /\ modules' = modules /\ errors' = errors /\ ready' = ready
  OBVIOUS
<1> HIDE DEF begun
<1> QED BY <1>2, <1>5, <1>8, <1>11, <1>12, <1>14, <1>15, <1>16, <1>17 DEF WalkInv

(* A path is begun that is none: the host's walk_file reads it, if it is a source. *)
LEMMA FileBegun ==
  ASSUME PathInv, phase = "walk", stack = <<>>, left # <<>>, ~IsDirectory(Head(left)),
         UNCHANGED <<origin, disk, ready, phase>>, left' = Tail(left), stack' = <<>>,
         path_buf' \in Seq(Names),
         Parsed(disk, origin, Head(left), modules, errors, modules', errors')
  PROVE  WalkInv'
<1> DEFINE p == Head(left)
           t == begun
<1>1. WalkInv /\ disk \in Disks /\ modules \in Seq(Modules(origin)) /\ errors \in Seq(Files)
  BY DEF PathInv
<1>2. /\ t \in Nat /\ t + 1 \in DOMAIN Paths /\ begun' = t + 1
      /\ p = Paths[t + 1] /\ p \in Seq(Names) /\ p # <<>>
      /\ left' \in Seq(Seq(Names)) /\ Len(left') <= Len(Paths)
      /\ \A i \in 1..Len(left') : left'[i] = Paths[begun' + i]
  BY <1>1, LeftIs
<1>3. Settled(disk, origin, <<>>, modules, errors, t)
  BY <1>1 DEF WalkInv
<1> HIDE DEF t
<1>4. Settled(disk, origin, <<>>, modules', errors', t + 1)
  BY <1>1, <1>2, <1>3, SettledFile, Zenon
<1> HIDE DEF p
<1>5. GoodStack(disk, <<>>, p)
  BY DEF GoodStack
<1>6. begun' # 0 /\ Paths[begun'] = p
  BY <1>2
<1>7. origin \in {"fat", "os"} /\ ready = 0
  BY <1>1 DEF WalkInv
<1>8. origin' = origin /\ disk' = disk /\ ready' = ready
  OBVIOUS
<1> HIDE DEF begun
<1> QED BY <1>2, <1>4, <1>5, <1>6, <1>7, <1>8 DEF WalkInv

(* What the invariant says of a call of walk_dir that is under way. *)
LEMMA StackIs ==
  ASSUME PathInv, phase = "walk", stack # <<>>
  PROVE  /\ WalkInv /\ disk \in Disks /\ modules \in Seq(Modules(origin)) /\ errors \in Seq(Files)
         /\ begun \in DOMAIN Paths /\ begun \in Nat /\ begun # 0
         /\ Paths[begun] \in Seq(Names) /\ Paths[begun] # <<>> /\ Len(Paths[begun]) \in Nat
         /\ GoodStack(disk, stack, Paths[begun]) /\ stack \in Seq(Frames)
         /\ Len(stack) \in Nat /\ Len(stack) > 0 /\ Last(stack) = stack[Len(stack)]
<1>1. WalkInv /\ disk \in Disks /\ modules \in Seq(Modules(origin)) /\ errors \in Seq(Files)
  BY DEF PathInv
<1>2. begun \in Nat /\ begun <= Len(Paths) /\ Len(Paths) \in Nat
  <2>1. left \in Seq(Seq(Names)) /\ Len(left) <= Len(Paths) /\ Paths \in Seq(Seq(Names))
    BY <1>1, DiskAssumption DEF WalkInv
  <2> QED BY <2>1 DEF begun
<1>3. begun # 0 /\ GoodStack(disk, stack, Paths[begun])
  BY <1>1 DEF WalkInv
<1>4. begun \in DOMAIN Paths
  BY <1>2, <1>3, DiskAssumption
<1>5. Paths[begun] \in Seq(Names) /\ Paths[begun] # <<>>
  BY <1>4, DiskAssumption
<1>6. stack \in Seq(Frames)
  BY <1>3 DEF GoodStack
<1>7. Len(stack) \in Nat /\ Len(stack) > 0
  BY <1>6
<1>8. Last(stack) = stack[Len(stack)]
  BY DEF Last
<1> QED BY <1>1, <1>2, <1>3, <1>4, <1>5, <1>6, <1>7, <1>8

(* A sequence with one more element. *)
LEMMA AppendIs ==
  ASSUME NEW S, NEW s \in Seq(S), NEW x \in S
  PROVE  /\ Append(s, x) \in Seq(S) /\ Len(Append(s, x)) = Len(s) + 1 /\ Len(s) \in Nat
         /\ Append(s, x)[Len(s) + 1] = x /\ \A i \in 1..Len(s) : Append(s, x)[i] = s[i]
         /\ Append(s, x) # <<>>
OBVIOUS

(* Its head stays the same. *)
LEMMA HeadStays ==
  ASSUME NEW S, NEW s \in Seq(S), s # <<>>, NEW x \in S
  PROVE  Head(Append(s, x)) = s[1]
OBVIOUS

(* The last element of a sequence. *)
LEMMA LastIs ==
  ASSUME NEW S, NEW s \in Seq(S), s # <<>>
  PROVE  Last(s) = s[Len(s)] /\ Last(s) \in S
BY DEF Last

(* The entry e of the innermost call, and what taking it leaves. *)
LEMMA TakenHere ==
  ASSUME PathInv, phase = "walk", stack # <<>>, NEW e \in Last(stack).todo
  PROVE  LET n == Len(stack) root == Paths[begun] new == Taken(e)
         IN  /\ GoodStack(disk, new, root) /\ Len(new) = n
             /\ \A k \in 1..n : new[k].dir = stack[k].dir
             /\ \A f \in disk : Covers(new, f) <=> Covers(stack, f) /\ ~Starts(e, f.at)
             /\ \A k \in 1..n : \A d \in new[k].todo : ~Starts(d, e)
             /\ e \in stack[n].todo /\ n \in 1..n
             /\ e \in Seq(Names) /\ e # <<>> /\ Len(e) = Len(root) + n
             /\ Starts(stack[n].dir, e) /\ Len(stack[n].dir) = Len(root) + n - 1 /\ Starts(root, e)
             /\ Name(e) \in Names /\ Name(e) = e[Len(root) + n]
             /\ \E f \in disk : Starts(e, f.at)
<1> DEFINE n == Len(stack)
           root == Paths[begun]
           new == Taken(e)
<1>1. /\ disk \in Disks /\ root \in Seq(Names) /\ GoodStack(disk, stack, root) /\ stack \in Seq(Frames)
      /\ n \in Nat /\ n > 0 /\ Last(stack) = stack[n] /\ Len(root) \in Nat
  BY StackIs
<1>2. e \in stack[n].todo /\ n \in 1..n
  BY <1>1
<1>3. IsTaken(stack, e, new)
  BY <1>1, TakenIs DEF Taken
<1> HIDE DEF root, new
<1>4. /\ GoodStack(disk, new, root) /\ Len(new) = n
      /\ \A k \in 1..n : new[k].dir = stack[k].dir
      /\ \A f \in disk : Covers(new, f) <=> Covers(stack, f) /\ ~Starts(e, f.at)
      /\ \A k \in 1..n : \A d \in new[k].todo : ~Starts(d, e)
  BY <1>1, <1>2, <1>3, EntryTaken
<1> HIDE DEF n
<1>5. e \in Seq(Names) /\ Len(e) = Len(root) + n /\ Starts(stack[n].dir, e) /\ Starts(root, e)
  BY <1>1, <1>2, FramesAre DEF n
<1>6. Len(stack[n].dir) = Len(root) + n - 1 /\ e \in SubOf(disk, stack[n].dir) /\ stack[n].dir \in Seq(Names)
  <2>1. n \in 1..Len(stack)
    BY <1>2 DEF n
  <2>2. Len(stack[n].dir) = Len(root) + n - 1 /\ stack[n].todo \subseteq SubOf(disk, stack[n].dir)
    BY <1>1, <2>1 DEF GoodStack
  <2>3. stack[n].dir \in Seq(Names)
    BY <1>1, <2>1, FramesAre, Zenon
  <2> QED BY <1>2, <2>2, <2>3
<1>7. \E f \in disk : Starts(e, f.at)
  BY <1>1, <1>6, SubIs
<1>8. e # <<>>
  BY <1>1, <1>5
<1>9. Name(e) \in Names /\ Name(e) = e[Len(root) + n]
  BY <1>5, <1>8, LastIs DEF Name
<1> QED BY <1>2, <1>4, <1>5, <1>6, <1>7, <1>8, <1>9 DEF n, root, new

(* An entry that is a directory. *)
LEMMA DirectoryEntered ==
  ASSUME PathInv, phase = "walk", stack # <<>>, NEW e \in Last(stack).todo, \A f \in disk : f.at # e,
         UNCHANGED <<origin, disk, left, modules, errors, ready, phase>>,
         path_buf' = Append(path_buf, Name(e)),
         stack' = Append(Taken(e), [dir |-> e, todo |-> Sub(e)])
  PROVE  WalkInv'
<1> DEFINE n == Len(stack)
           root == Paths[begun]
           new == Taken(e)
<1>1. /\ WalkInv /\ disk \in Disks /\ begun # 0 /\ root \in Seq(Names)
      /\ n \in Nat /\ n > 0 /\ Len(root) \in Nat
  BY StackIs
<1>2. /\ GoodStack(disk, new, root) /\ Len(new) = n
      /\ \A k \in 1..n : new[k].dir = stack[k].dir
      /\ \A f \in disk : Covers(new, f) <=> Covers(stack, f) /\ ~Starts(e, f.at)
      /\ \A k \in 1..n : \A d \in new[k].todo : ~Starts(d, e)
      /\ e \in stack[n].todo /\ n \in 1..n
      /\ e \in Seq(Names) /\ e # <<>> /\ Len(e) = Len(root) + n
      /\ Starts(stack[n].dir, e) /\ Len(stack[n].dir) = Len(root) + n - 1 /\ Starts(root, e)
      /\ Name(e) \in Names /\ Name(e) = e[Len(root) + n]
  BY TakenHere
<1>3. PICK r \in Frames : r = [dir |-> e, todo |-> Sub(e)] /\ r.dir = e /\ r.todo = SubOf(disk, e)
  BY <1>1, <1>2, FrameIs
<1>4. stack' = Append(new, r)
  BY <1>3
<1>5. path_buf \in Seq(Names) /\ begun' = begun
  BY <1>1 DEF WalkInv, begun
<1>6. new \in Seq(Frames)
  BY <1>2 DEF GoodStack
<1> HIDE DEF new, root, n
<1>7. /\ GoodStack(disk, stack', root)
      /\ \A f \in disk : Covers(stack', f) <=> Covers(new, f) \/ (Starts(e, f.at) /\ Len(e) < Len(f.at))
  <2>1. r \in Frames /\ r.dir = e /\ r.todo = SubOf(disk, e)
    BY <1>3
  <2>2. /\ GoodStack(disk, Append(new, r), root)
        /\ \A f \in disk : Covers(Append(new, r), f) <=> Covers(new, f) \/ (Starts(e, f.at) /\ Len(e) < Len(f.at))
    BY <1>1, <1>2, <2>1, EntryOpened
  <2> QED BY <2>2, <1>4, Zenon
<1>8. \A f \in disk : Covers(stack', f) <=> Covers(stack, f)
  <2>1. \A f \in disk : Starts(e, f.at) => Covers(stack, f) /\ Len(e) < Len(f.at)
    <3> SUFFICES ASSUME NEW f \in disk, Starts(e, f.at) PROVE Covers(stack, f) /\ Len(e) < Len(f.at)
      OBVIOUS
    <3>1. Covers(stack, f)
      BY <1>2 DEF Covers, n
    <3>2. f.at # e
      OBVIOUS
    <3>3. Len(e) < Len(f.at)
      BY <1>1, <1>2, <3>2, DirectoryOrFile, Zenon
    <3> QED BY <3>1, <3>3
  <2> QED BY <2>1, <1>2, <1>7
<1>9. Settled(disk, origin, stack', modules, errors, begun)
  <2>1. Settled(disk, origin, stack, modules, errors, begun)
    BY <1>1 DEF WalkInv
  <2> QED BY <2>1, <1>8 DEF Settled
<1>10. Len(stack') = n + 1 /\ stack' # <<>>
       /\ (\A k \in 1..n : stack'[k].dir = stack[k].dir) /\ stack'[n + 1].dir = e
  <2>1. /\ Len(Append(new, r)) = Len(new) + 1 /\ Append(new, r)[Len(new) + 1] = r
        /\ Append(new, r) # <<>> /\ \A k \in 1..Len(new) : Append(new, r)[k] = new[k]
    <3>1. new \in Seq(Frames) /\ r \in Frames
      BY <1>3, <1>6
    <3> QED BY <3>1, AppendIs
  <2>2. /\ Len(stack') = n + 1 /\ stack'[n + 1] = r /\ stack' # <<>>
        /\ \A k \in 1..n : stack'[k] = new[k]
    BY <1>2, <1>4, <2>1, Zenon
  <2>3. r.dir = e
    BY <1>3
  <2> QED BY <1>2, <2>2, <2>3, Zenon
<1>11. /\ path_buf' \in Seq(Names) /\ Len(path_buf') = Len(path_buf) + 1 /\ path_buf' # <<>>
       /\ path_buf'[Len(path_buf) + 1] = Name(e) /\ \A i \in 1..Len(path_buf) : path_buf'[i] = path_buf[i]
       /\ Len(path_buf) \in Nat
  BY <1>2, <1>5, AppendIs
<1>12. ASSUME origin = "fat"
       PROVE  /\ Len(path_buf') = Len(stack') - 1
              /\ \A k \in 1..Len(stack') : \A i \in 1..(k - 1) : stack'[k].dir[Len(root) + i] = path_buf'[i]
  <2>1. /\ Len(path_buf) = n - 1
        /\ \A k \in 1..n : \A i \in 1..(k - 1) : stack[k].dir[Len(root) + i] = path_buf[i]
    BY <1>1, <1>12 DEF WalkInv, n, root
  <2>2. Len(path_buf') = Len(stack') - 1
    BY <2>1, <1>1, <1>10, <1>11
  <2>3. ASSUME NEW k \in 1..n, NEW i \in 1..(k - 1) PROVE stack'[k].dir[Len(root) + i] = path_buf'[i]
    <3>1. i \in 1..Len(path_buf)
      BY <2>1, <1>1
    <3> QED BY <2>1, <3>1, <1>10, <1>11, Zenon
  <2>4. ASSUME NEW i \in 1..n PROVE e[Len(root) + i] = path_buf'[i]
    <3>1. CASE i = n
      BY <3>1, <2>1, <1>1, <1>2, <1>11
    <3>2. CASE i # n
      <4>1. i \in 1..(n - 1) /\ i \in 1..Len(path_buf) /\ Len(root) + i \in 1..(Len(root) + n - 1)
        BY <3>2, <2>1, <1>1
      <4>2. stack[n].dir[Len(root) + i] = e[Len(root) + i]
        <5>1. Starts(stack[n].dir, e) /\ Len(stack[n].dir) = Len(root) + n - 1
          BY <1>2
        <5> QED BY <4>1, <5>1 DEF Starts
      <4>3. stack[n].dir[Len(root) + i] = path_buf[i]
        <5>1. \A k \in 1..n : \A j \in 1..(k - 1) : stack[k].dir[Len(root) + j] = path_buf[j]
          BY <2>1
        <5>2. n \in 1..n
          BY <1>2
        <5> QED BY <4>1, <5>1, <5>2, Zenon
      <4> QED BY <4>1, <4>2, <4>3, <1>11
    <3> QED BY <3>1, <3>2, Zenon
  <2>5. ASSUME NEW k \in 1..Len(stack'), NEW i \in 1..(k - 1)
        PROVE  stack'[k].dir[Len(root) + i] = path_buf'[i]
    <3>1. CASE k = n + 1
      <4>1. i \in 1..n
        BY <3>1, <1>1
      <4> QED BY <4>1, <3>1, <2>4, <1>10, Zenon
    <3>2. CASE k # n + 1
      <4>1. k \in 1..n
        BY <3>2, <1>1, <1>10
      <4> QED BY <4>1, <2>3, Zenon
    <3> QED BY <3>1, <3>2, Zenon
  <2> QED BY <2>2, <2>5
<1>13. origin = "os" => path_buf'[1] = Name(root)
  <2>1. origin = "os" => path_buf # <<>> /\ path_buf[1] = Name(root)
    BY <1>1 DEF WalkInv, root
  <2>2. path_buf # <<>> => 1 \in 1..Len(path_buf)
    BY <1>5
  <2> QED BY <2>1, <2>2, <1>11
<1>14. /\ origin \in {"fat", "os"} /\ ready = 0
       /\ left \in Seq(Seq(Names)) /\ Len(left) <= Len(Paths)
       /\ \A i \in 1..Len(left) : left[i] = Paths[begun + i]
  BY <1>1 DEF WalkInv
<1>15. origin' = origin /\ disk' = disk /\ left' = left /\ modules' = modules /\ errors' = errors /\ ready' = ready
  OBVIOUS
<1>16. root = Paths[begun']
  BY <1>5 DEF root
<1> HIDE DEF begun
<1> QED BY <1>1, <1>5, <1>7, <1>9, <1>10, <1>11, <1>12, <1>13, <1>14, <1>15, <1>16, Zenon DEF WalkInv

(* An entry that is a file. *)
LEMMA FileEntered ==
  ASSUME PathInv, phase = "walk", stack # <<>>, NEW e \in Last(stack).todo, \E f \in disk : f.at = e,
         UNCHANGED <<origin, disk, left, ready, phase>>, stack' = Taken(e), path_buf' \in Seq(Names),
         origin = "fat" => path_buf' = path_buf,
         origin = "os" => path_buf' = Append(path_buf, Name(e)),
         Parsed(disk, origin, e, modules, errors, modules', errors')
  PROVE  WalkInv'
<1> DEFINE n == Len(stack)
           root == Paths[begun]
           new == Taken(e)
<1>1. /\ WalkInv /\ disk \in Disks /\ begun # 0 /\ root \in Seq(Names)
      /\ n \in Nat /\ n > 0 /\ Len(root) \in Nat /\ begun \in Nat
      /\ modules \in Seq(Modules(origin)) /\ errors \in Seq(Files)
  BY StackIs
<1>2. /\ GoodStack(disk, new, root) /\ Len(new) = n
      /\ \A k \in 1..n : new[k].dir = stack[k].dir
      /\ \A f \in disk : Covers(new, f) <=> Covers(stack, f) /\ ~Starts(e, f.at)
      /\ e \in stack[n].todo /\ n \in 1..n /\ e \in Seq(Names) /\ Name(e) \in Names
  BY TakenHere
<1>3. path_buf \in Seq(Names) /\ begun' = begun
  BY <1>1 DEF WalkInv, begun
<1>4. Settled(disk, origin, stack, modules, errors, begun)
  BY <1>1 DEF WalkInv
<1> HIDE DEF new, root, n, begun
<1>5. Settled(disk, origin, new, modules', errors', begun)
  <2>1. n \in 1..Len(stack)
    BY <1>2 DEF n
  <2>2. /\ disk \in Disks /\ begun \in Nat /\ modules \in Seq(Modules(origin)) /\ errors \in Seq(Files)
        /\ e \in Seq(Names) /\ e \in stack[n].todo
        /\ \A f \in disk : Covers(new, f) <=> Covers(stack, f) /\ ~Starts(e, f.at)
    BY <1>1, <1>2
  <2>3. Parsed(disk, origin, e, modules, errors, modules', errors') /\ \E f \in disk : f.at = e
    OBVIOUS
  <2> QED BY <2>1, <2>2, <2>3, <1>4, SettledMet, SMTT(40)
<1>6. ASSUME origin = "fat"
      PROVE  /\ Len(path_buf') = Len(new) - 1
             /\ \A k \in 1..Len(new) : \A i \in 1..(k - 1) : new[k].dir[Len(root) + i] = path_buf'[i]
  <2>1. /\ Len(path_buf) = n - 1
        /\ \A k \in 1..n : \A i \in 1..(k - 1) : stack[k].dir[Len(root) + i] = path_buf[i]
    BY <1>1, <1>6 DEF WalkInv, n, root
  <2> QED BY <2>1, <1>2, <1>6
<1>7. origin = "os" => path_buf' # <<>> /\ path_buf'[1] = Name(root)
  <2>1. origin = "os" => path_buf # <<>> /\ path_buf[1] = Name(root)
    BY <1>1 DEF WalkInv, root
  <2>2. path_buf # <<>> => 1 \in 1..Len(path_buf)
    BY <1>3
  <2>3. \A s : s = Append(path_buf, Name(e)) => s # <<>> /\ \A i \in 1..Len(path_buf) : s[i] = path_buf[i]
    BY <1>2, <1>3, AppendIs
  <2> QED BY <2>1, <2>2, <2>3
<1>8. /\ origin \in {"fat", "os"} /\ ready = 0
      /\ left \in Seq(Seq(Names)) /\ Len(left) <= Len(Paths)
      /\ \A i \in 1..Len(left) : left[i] = Paths[begun + i]
  BY <1>1, Zenon DEF WalkInv
<1>9. /\ origin' = origin /\ disk' = disk /\ left' = left /\ ready' = ready /\ stack' = new
      /\ root = Paths[begun']
  BY <1>3 DEF root, new
<1> QED BY <1>1, <1>2, <1>3, <1>5, <1>6, <1>7, <1>8, <1>9 DEF WalkInv

(* A call returns: in the kernel its caller takes the name back. *)
LEMMA CallReturns ==
  ASSUME PathInv, phase = "walk", stack # <<>>, Last(stack).todo = {}, stack' = Front(stack),
         UNCHANGED <<origin, disk, left, modules, errors, ready, phase>>,
         origin = "fat" => path_buf' = IF Len(stack) > 1 THEN Front(path_buf) ELSE path_buf,
         origin = "os" => path_buf' = path_buf
  PROVE  WalkInv'
<1> DEFINE n == Len(stack)
           root == Paths[begun]
           new == Front(stack)
<1>1. /\ WalkInv /\ disk \in Disks /\ begun # 0 /\ root \in Seq(Names)
      /\ n \in Nat /\ n > 0 /\ Len(root) \in Nat /\ begun \in Nat
      /\ GoodStack(disk, stack, root) /\ stack[n].todo = {}
  BY StackIs
<1>2. /\ GoodStack(disk, new, root) /\ Len(new) = n - 1
      /\ \A k \in 1..(n - 1) : new[k] = stack[k]
      /\ \A f : Covers(new, f) <=> Covers(stack, f)
  BY <1>1, CallEnds
<1>3. path_buf \in Seq(Names) /\ begun' = begun /\ Len(path_buf) \in Nat
  BY <1>1 DEF WalkInv, begun
<1>4. Settled(disk, origin, stack, modules, errors, begun)
  BY <1>1 DEF WalkInv
<1>5. new # <<>> => n > 1
  BY <1>1, <1>2 DEF GoodStack
<1> HIDE DEF new, root, n, begun
<1>6. Settled(disk, origin, new, modules, errors, begun)
  BY <1>2, <1>4 DEF Settled
<1>7. ASSUME origin = "fat"
      PROVE  /\ path_buf' \in Seq(Names)
             /\ new # <<>> => /\ Len(path_buf') = Len(new) - 1
                              /\ \A k \in 1..Len(new) : \A i \in 1..(k - 1) : new[k].dir[Len(root) + i] = path_buf'[i]
  <2>1. /\ Len(path_buf) = n - 1
        /\ \A k \in 1..n : \A i \in 1..(k - 1) : stack[k].dir[Len(root) + i] = path_buf[i]
    BY <1>1, <1>7 DEF WalkInv, n, root
  <2>2. n > 1 => /\ path_buf' \in Seq(Names) /\ Len(path_buf') = n - 2
                 /\ \A i \in 1..(n - 2) : path_buf'[i] = path_buf[i]
    <3> SUFFICES ASSUME n > 1
                 PROVE  /\ path_buf' \in Seq(Names) /\ Len(path_buf') = n - 2
                        /\ \A i \in 1..(n - 2) : path_buf'[i] = path_buf[i]
      OBVIOUS
    <3>1. path_buf' = Front(path_buf) /\ Len(path_buf) > 0
      BY <1>1, <1>7, <2>1 DEF n
    <3>2. /\ Front(path_buf) \in Seq(Names) /\ Len(Front(path_buf)) = Len(path_buf) - 1
          /\ \A i \in 1..(Len(path_buf) - 1) : Front(path_buf)[i] = path_buf[i]
      BY <3>1, <1>3, FrontIs
    <3> QED BY <3>1, <3>2, <2>1, <1>1
  <2>3. n <= 1 => path_buf' = path_buf
    BY <1>1, <1>7 DEF n
  <2>4. ASSUME n > 1, NEW k \in 1..(n - 1), NEW i \in 1..(k - 1) PROVE new[k].dir[Len(root) + i] = path_buf'[i]
    <3>1. i \in 1..(n - 2) /\ k \in 1..n
      BY <2>4, <1>1
    <3> QED BY <2>1, <2>2, <2>4, <3>1, <1>2
  <2>5. path_buf' \in Seq(Names)
    BY <2>2, <2>3, <1>1, <1>3
  <2>6. n > 1 => Len(path_buf') = Len(new) - 1
    BY <2>2, <1>1, <1>2
  <2> QED BY <2>4, <2>5, <2>6, <1>2, <1>5
<1>8. ASSUME origin = "os", new # <<>> PROVE path_buf' # <<>> /\ path_buf'[1] = Name(root)
  BY <1>1, <1>8 DEF WalkInv, root
<1>9. /\ origin \in {"fat", "os"} /\ ready = 0
      /\ left \in Seq(Seq(Names)) /\ Len(left) <= Len(Paths)
      /\ \A i \in 1..Len(left) : left[i] = Paths[begun + i]
  BY <1>1 DEF WalkInv
<1>10. path_buf' \in Seq(Names)
  BY <1>3, <1>7, <1>9
<1>11. /\ origin' = origin /\ disk' = disk /\ left' = left /\ ready' = ready /\ stack' = new
       /\ modules' = modules /\ errors' = errors /\ root = Paths[begun']
  BY <1>3 DEF root, new
<1>12. /\ origin' \in {"fat", "os"} /\ ready' = 0 /\ left' \in Seq(Seq(Names)) /\ Len(left') <= Len(Paths)
       /\ \A i \in 1..Len(left') : left'[i] = Paths[begun' + i]
  BY <1>3, <1>9, <1>11
<1>13. IF begun' = 0 THEN stack' = <<>> ELSE GoodStack(disk', stack', Paths[begun'])
  BY <1>1, <1>2, <1>3, <1>11
<1>14. stack' # <<>> /\ origin' = "fat" =>
         /\ Len(path_buf') = Len(stack') - 1
         /\ \A k \in 1..Len(stack') : \A i \in 1..(k - 1) :
              stack'[k].dir[Len(Paths[begun']) + i] = path_buf'[i]
  BY <1>7, <1>11, Zenon
<1>15. stack' # <<>> /\ origin' = "os" => path_buf' # <<>> /\ path_buf'[1] = Name(Paths[begun'])
  BY <1>8, <1>11, Zenon DEF Name
<1>16. Settled(disk', origin', stack', modules', errors', begun')
  BY <1>3, <1>6, <1>11
<1> QED BY <1>10, <1>12, <1>13, <1>14, <1>15, <1>16, Zenon DEF WalkInv

(* Two sequences, one after the other. *)
LEMMA ConcatIs ==
  ASSUME NEW S, NEW a \in Seq(S), NEW b \in Seq(S)
  PROVE  /\ a \o b \in Seq(S) /\ Len(a \o b) = Len(a) + Len(b)
         /\ \A i \in 1..Len(a) : (a \o b)[i] = a[i]
         /\ \A i \in 1..Len(b) : (a \o b)[Len(a) + i] = b[i]
OBVIOUS

(* The path that walk_dir hands to the closure with the file e. *)
LEMMA FatName ==
  ASSUME PathInv, phase = "walk", stack # <<>>, origin = "fat", NEW e \in Last(stack).todo
  PROVE  begun \in DOMAIN Paths /\ e = Append(Paths[begun] \o path_buf, Last(e))
<1> DEFINE n == Len(stack)
           root == Paths[begun]
           s == root \o path_buf
<1>1. /\ WalkInv /\ begun \in DOMAIN Paths /\ root \in Seq(Names) /\ Len(root) \in Nat
      /\ n \in Nat /\ n > 0
  BY StackIs
<1>2. /\ n \in 1..n /\ e \in Seq(Names) /\ e # <<>> /\ Len(e) = Len(root) + n /\ Starts(stack[n].dir, e)
      /\ Len(stack[n].dir) = Len(root) + n - 1 /\ Starts(root, e)
  BY TakenHere
<1>3. /\ path_buf \in Seq(Names) /\ Len(path_buf) = n - 1
      /\ \A i \in 1..(n - 1) : stack[n].dir[Len(root) + i] = path_buf[i]
  BY <1>1, <1>2, SMTT(30) DEF WalkInv
<1> HIDE DEF n, root
<1>4. /\ s \in Seq(Names) /\ Len(s) = Len(root) + n - 1
      /\ \A i \in 1..Len(root) : s[i] = root[i]
      /\ \A i \in 1..Len(path_buf) : s[Len(root) + i] = path_buf[i]
  <2>1. /\ s \in Seq(Names) /\ Len(s) = Len(root) + Len(path_buf)
        /\ \A i \in 1..Len(root) : s[i] = root[i]
        /\ \A i \in 1..Len(path_buf) : s[Len(root) + i] = path_buf[i]
    <3>1. root \in Seq(Names) /\ path_buf \in Seq(Names)
      BY <1>1, <1>3
    <3> QED BY <3>1, ConcatIs
  <2> HIDE DEF s
  <2> QED BY <2>1, <1>1, <1>3
<1>5. Last(e) \in Names /\ Last(e) = e[Len(root) + n]
  BY <1>2, LastIs
<1> HIDE DEF s
<1>6. /\ Append(s, Last(e)) \in Seq(Names) /\ Len(Append(s, Last(e))) = Len(e)
      /\ Append(s, Last(e))[Len(e)] = e[Len(e)]
      /\ \A i \in 1..Len(s) : Append(s, Last(e))[i] = s[i]
  BY <1>1, <1>2, <1>4, <1>5, AppendIs
<1>7. ASSUME NEW i \in 1..Len(s) PROVE s[i] = e[i]
  <2>1. CASE i \in 1..Len(root)
    BY <2>1, <1>2, <1>4 DEF Starts
  <2>2. CASE i \notin 1..Len(root)
    <3> DEFINE j == i - Len(root)
    <3>1. j \in 1..(n - 1) /\ i = Len(root) + j /\ i \in 1..(Len(root) + n - 1)
      BY <2>2, <1>1, <1>4
    <3> HIDE DEF j
    <3>2. s[i] = path_buf[j] /\ stack[n].dir[i] = path_buf[j]
      BY <3>1, <1>3, <1>4
    <3>3. stack[n].dir[i] = e[i]
      BY <3>1, <1>2 DEF Starts
    <3> QED BY <3>2, <3>3
  <2> QED BY <2>1, <2>2
<1>8. \A i \in 1..Len(e) : Append(s, Last(e))[i] = e[i]
  <2>1. \A i \in 1..Len(e) : i = Len(e) \/ i \in 1..Len(s)
    BY <1>1, <1>2, <1>4
  <2> QED BY <2>1, <1>6, <1>7
<1>9. e = Append(s, Last(e))
  <2> DEFINE a == Append(s, Last(e))
  <2>1. a \in Seq(Names) /\ Len(a) = Len(e) /\ \A i \in 1..Len(e) : a[i] = e[i]
    BY <1>6, <1>8
  <2> HIDE DEF a
  <2>2. e = a
    BY <2>1, <1>2
  <2> QED BY <2>2 DEF a
<1> QED BY <1>1, <1>9 DEF s, root

(* A file that is not wanted changes no count. *)
LEMMA NotParsed ==
  ASSUME NEW D, NEW o, NEW p, NEW S, NEW T, NEW ms \in Seq(S), NEW es \in Seq(T),
         \A f \in D : f.at = p => ~WantedIn(o, f)
  PROVE  Parsed(D, o, p, ms, es, ms, es)
<1>1. \A f \in D : Count(ms, es, f) \in Nat
  BY CountIs
<1> QED BY <1>1 DEF Parsed

(* A step of the walk that keeps WalkInv keeps the invariant. *)
LEMMA WalkGoesOn ==
  ASSUME disk' \in Disks, modules' \in Seq(Modules(origin')), errors' \in Seq(Files),
         phase' = "walk", WalkInv'
  PROVE  PathInv'
BY DEF PathInv

(* A walk that ends in a panic or an overflow keeps it. *)
LEMMA WalkHalts ==
  ASSUME disk' \in Disks, modules' \in Seq(Modules(origin')), errors' \in Seq(Files),
         phase' \in {"panic", "overflow"}
  PROVE  PathInv'
BY DEF PathInv

(* walk_dir, with a file. *)
LEMMA FatFile ==
  ASSUME PathInv, phase = "walk", stack # <<>>, origin = "fat", NEW e \in Last(stack).todo,
         e \in {f.at : f \in disk}, walk_dir_entry(e), UNCHANGED <<origin, disk>>
  PROVE  PathInv'
<1>1. disk \in Disks /\ modules \in Seq(Modules(origin)) /\ errors \in Seq(Files) /\ WalkInv
  BY DEF PathInv
<1>2. PICK g \in disk : g.at = e
  OBVIOUS
<1>3. e \in Seq(Names) /\ g = FileAt(e)
  BY <1>1, <1>2, TakenHere, DirectoryOrFile, Zenon
<1>4. path_buf \in Seq(Names) /\ origin' = origin /\ disk' = disk
  BY <1>1, Zenon DEF WalkInv
<1>5. CASE g.content = "empty"
  <2>1. phase' = "panic" /\ modules' = modules /\ errors' = errors
    BY <1>3, <1>5, Zenon DEF walk_dir_entry, Halt
  <2> QED BY <2>1, <1>1, <1>4, WalkHalts
<1>6. CASE g.content # "empty"
  <2>1. /\ stack' = Taken(e) /\ left' = left /\ path_buf' = path_buf /\ ready' = ready /\ phase' = phase
        /\ g.content = "binary" => Passed
        /\ g.content # "binary" => Deliver(g, path_buf)
    BY <1>3, <1>6 DEF walk_dir_entry
  <2>2. /\ modules' \in Seq(Modules(origin)) /\ errors' \in Seq(Files)
        /\ Parsed(disk, origin, e, modules, errors, modules', errors')
    <3>1. CASE g.content = "binary"
      <4>1. modules' = modules /\ errors' = errors
        BY <2>1, <3>1 DEF Passed
      <4>2. \A f \in disk : f.at = e => ~WantedIn(origin, f)
        <5>1. \A f \in disk : f.at = e => f = g
          BY <1>1, <1>3, DirectoryOrFile
        <5> QED BY <3>1, <5>1 DEF WantedIn
      <4> QED BY <4>1, <4>2, <1>1, NotParsed
    <3>2. CASE g.content # "binary"
      <4>1. \A m : m.file = g /\ m.path = path_buf => NameOK(origin, m)
        <5>1. begun \in DOMAIN Paths /\ e = Append(Paths[begun] \o path_buf, Last(e))
          BY FatName
        <5> QED BY <5>1, <1>2 DEF NameOK
      <4>2. WantedIn(origin, g)
        BY <3>2 DEF WantedIn
      <4> QED BY <4>1, <4>2, <3>2, <2>1, <1>1, <1>2, <1>4, <1>6, DeliverIs, Zenon
    <3> QED BY <3>1, <3>2
  <2>3. WalkInv'
    BY <2>1, <2>2, <1>2, <1>4, FileEntered, Zenon
  <2> QED BY <2>1, <2>2, <2>3, <1>1, <1>4, WalkGoesOn
<1> QED BY <1>5, <1>6

(* walk_file, with a path that is no directory. *)
LEMMA HostFile ==
  ASSUME disk \in Disks, modules \in Seq(Modules(origin)), errors \in Seq(Files), origin = "os",
         NEW p \in Seq(Names), ~IsDirectory(p), NEW frames, NEW buf \in Seq(Names), Name(p) \in Names,
         \E j \in DOMAIN Paths : Name(Paths[j]) = Head(Append(buf, Name(p))),
         walk_file(frames, buf, p)
  PROVE  \/ phase' = "panic" /\ modules' = modules /\ errors' = errors
         \/ /\ stack' = frames /\ path_buf' = Append(buf, Name(p)) /\ path_buf' \in Seq(Names)
            /\ ready' = ready /\ phase' = phase
            /\ modules' \in Seq(Modules(origin)) /\ errors' \in Seq(Files)
            /\ Parsed(disk, origin, p, modules, errors, modules', errors')
<1>1. CASE IsSource(p) /\ FileAt(p).content \in {"binary", "empty"}
  BY <1>1 DEF walk_file
<1>2. CASE ~(IsSource(p) /\ FileAt(p).content \in {"binary", "empty"})
  <2> DEFINE path == Append(buf, Name(p))
  <2>1. /\ stack' = frames /\ path_buf' = path /\ ready' = ready /\ phase' = phase
        /\ IsSource(p) => Deliver(FileAt(p), path_buf')
        /\ ~IsSource(p) => Passed
    BY <1>2 DEF walk_file
  <2>2. path \in Seq(Names) /\ Last(path) = Name(p)
    <3>1. /\ path \in Seq(Names) /\ Len(path) = Len(buf) + 1 /\ path[Len(buf) + 1] = Name(p)
      BY AppendIs
    <3> QED BY <3>1 DEF Last
  <2> HIDE DEF path
  <2>3. CASE IsSource(p)
    <3>1. PICK g \in disk : g.at = p /\ g.ext = "yacari"
      BY <2>3, Zenon DEF IsSource
    <3>2. g = FileAt(p) /\ g.content \notin {"empty", "binary"}
      BY <3>1, <1>2, <2>3, DirectoryOrFile, Zenon
    <3>3. \A m : m.file = g /\ m.path = path => NameOK(origin, m)
      BY <2>2, <3>1 DEF NameOK, Name, path
    <3>4. WantedIn(origin, g)
      BY <3>1 DEF WantedIn
    <3>5. Deliver(g, path)
      BY <2>1, <2>3, <3>2
    <3>6. /\ modules' \in Seq(Modules(origin)) /\ errors' \in Seq(Files)
          /\ Parsed(disk, origin, g.at, modules, errors, modules', errors')
      BY <3>2, <3>3, <3>4, <3>5, <2>2, DeliverIs, Zenon
    <3> QED BY <2>1, <2>2, <3>1, <3>6, Zenon DEF path
  <2>4. CASE ~IsSource(p)
    <3>1. modules' = modules /\ errors' = errors
      BY <2>1, <2>4 DEF Passed
    <3>2. \A f \in disk : f.at = p => ~WantedIn(origin, f)
      BY <2>4 DEF WantedIn, IsSource
    <3>3. Parsed(disk, origin, p, modules, errors, modules', errors')
      BY <3>1, <3>2, NotParsed
    <3> QED BY <2>1, <2>2, <3>1, <3>3 DEF path
  <2> QED BY <2>3, <2>4
<1> QED BY <1>1, <1>2

(* A step of a walk. *)
LEMMA WalkStepKeeps ==
  ASSUME PathInv, WalkPaths
  PROVE  PathInv'
<1>1. /\ phase = "walk" /\ disk \in Disks /\ modules \in Seq(Modules(origin)) /\ errors \in Seq(Files)
      /\ WalkInv /\ path_buf \in Seq(Names) /\ origin' = origin /\ disk' = disk
  BY DEF PathInv, WalkInv, WalkPaths
<1>2. CASE stack = <<>> /\ left # <<>> /\ origin = "fat" /\ walk_directory_fat
  <2>1. CASE ~IsDirectory(Head(left))
    <3>1. phase' = "panic" /\ modules' = modules /\ errors' = errors
      BY <1>2, <2>1 DEF walk_directory_fat, Halt
    <3> QED BY <3>1, <1>1, WalkHalts
  <2>2. CASE IsDirectory(Head(left))
    <3>1. /\ stack' = <<[dir |-> Head(left), todo |-> Sub(Head(left))]>>
          /\ path_buf' = <<>> /\ left' = Tail(left)
          /\ UNCHANGED <<modules, errors, ready, phase>>
      BY <1>2, <2>2 DEF walk_directory_fat, Skipped
    <3>2. WalkInv'
      BY <1>1, <1>2, <2>2, <3>1, DirectoryBegun
    <3> QED BY <3>1, <3>2, <1>1, WalkGoesOn
  <2> QED BY <2>1, <2>2
<1>3. CASE stack = <<>> /\ left # <<>> /\ origin = "os" /\ walk_directory_os
  <2> DEFINE p == Head(left)
  <2>1. left' = Tail(left) /\ walk_file(<<>>, <<>>, p)
    BY <1>3 DEF walk_directory_os
  <2>2. p = Paths[begun + 1] /\ begun + 1 \in DOMAIN Paths /\ p \in Seq(Names) /\ p # <<>>
    BY <1>1, <1>3, <2>1, LeftIs
  <2>3. CASE IsDirectory(p)
    <3> DEFINE r == [dir |-> p, todo |-> Sub(p)]
               name == Name(p)
    <3>1. /\ stack' = Append(<<>>, r) /\ path_buf' = Append(<<>>, name)
          /\ UNCHANGED <<modules, errors, ready, phase>>
      BY <2>1, <2>3 DEF walk_file, Passed
    <3> HIDE DEF r, name, p
    <3>2. stack' = <<r>> /\ path_buf' = <<name>>
      BY <3>1
    <3>3. stack' = <<[dir |-> Head(left), todo |-> Sub(Head(left))]>> /\ path_buf' = <<Name(Head(left))>>
      BY <3>2 DEF r, name, p
    <3>4. IsDirectory(Head(left))
      BY <2>3 DEF p
    <3>5. WalkInv'
      BY <1>1, <1>3, <2>1, <3>1, <3>3, <3>4, DirectoryBegun
    <3> QED BY <3>1, <3>5, <1>1, WalkGoesOn
  <2>4. CASE ~IsDirectory(p)
    <3>1. Name(p) \in Names
      BY <2>2, LastIs DEF Name
    <3> DEFINE none == <<>>
    <3>2. none \in Seq(Names) /\ \E j \in DOMAIN Paths : Name(Paths[j]) = Head(Append(none, Name(p)))
      <4>1. \A x : Head(Append(<<>>, x)) = x
        OBVIOUS
      <4> QED BY <4>1, <2>2
    <3>3. walk_file(none, none, p)
      BY <2>1
    <3> HIDE DEF none, p
    <3>4. \/ phase' = "panic" /\ modules' = modules /\ errors' = errors
          \/ /\ stack' = none /\ path_buf' \in Seq(Names)
             /\ ready' = ready /\ phase' = phase
             /\ modules' \in Seq(Modules(origin)) /\ errors' \in Seq(Files)
             /\ Parsed(disk, origin, p, modules, errors, modules', errors')
      BY <1>1, <1>3, <2>2, <2>4, <3>1, <3>2, <3>3, HostFile
    <3>5. CASE phase' = "panic" /\ modules' = modules /\ errors' = errors
      BY <3>5, <1>1, WalkHalts
    <3>6. CASE /\ stack' = none /\ path_buf' \in Seq(Names)
               /\ ready' = ready /\ phase' = phase
               /\ modules' \in Seq(Modules(origin)) /\ errors' \in Seq(Files)
               /\ Parsed(disk, origin, p, modules, errors, modules', errors')
      <4>1. WalkInv'
        BY <1>1, <1>3, <2>1, <2>4, <3>6, FileBegun DEF p, none
      <4> QED BY <4>1, <3>6, <1>1, WalkGoesOn
    <3> QED BY <3>4, <3>5, <3>6
  <2> QED BY <2>3, <2>4
<1>4. CASE stack # <<>> /\ origin = "fat" /\ \E e \in Last(stack).todo : walk_dir_entry(e)
  <2>1. PICK e \in Last(stack).todo : walk_dir_entry(e)
    BY <1>4
  <2>2. CASE e \in {f.at : f \in disk}
    BY <1>1, <1>4, <2>1, <2>2, FatFile
  <2>3. CASE e \notin {f.at : f \in disk}
    <3>1. CASE Len(stack) = MaxDepth
      <4>1. phase' = "overflow" /\ modules' = modules /\ errors' = errors
        BY <2>1, <2>3, <3>1 DEF walk_dir_entry, Overflow
      <4> QED BY <4>1, <1>1, WalkHalts
    <3>2. CASE Len(stack) # MaxDepth
      <4>1. /\ path_buf' = Append(path_buf, Name(e))
            /\ stack' = Append(Taken(e), [dir |-> e, todo |-> Sub(e)])
            /\ UNCHANGED <<left, modules, errors, ready, phase>>
        BY <2>1, <2>3, <3>2, Zenon DEF walk_dir_entry, Passed, Skipped
      <4>2. \A f \in disk : f.at # e
        BY <2>3
      <4>3. WalkInv'
        BY <1>1, <1>4, <4>1, <4>2, DirectoryEntered, Zenon
      <4> QED BY <4>1, <4>3, <1>1, WalkGoesOn
    <3> QED BY <3>1, <3>2
  <2> QED BY <2>2, <2>3
<1>5. CASE stack # <<>> /\ origin = "fat" /\ Last(stack).todo = {} /\ walk_dir_end
  <2>1. /\ stack' = Front(stack)
        /\ path_buf' = IF Len(stack) > 1 THEN Front(path_buf) ELSE path_buf
        /\ UNCHANGED <<left, modules, errors, ready, phase>>
    BY <1>5 DEF walk_dir_end, Passed
  <2>2. WalkInv'
    BY <1>1, <1>5, <2>1, CallReturns
  <2> QED BY <2>1, <2>2, <1>1, WalkGoesOn
<1>6. CASE stack # <<>> /\ origin = "os" /\ \E e \in Last(stack).todo : walk_file_entry(e)
  <2>1. PICK e \in Last(stack).todo : walk_file_entry(e)
    BY <1>6
  <2>2. walk_file(Taken(e), path_buf, e) /\ left' = left
    BY <2>1 DEF walk_file_entry
  <2>3. e \in Seq(Names) /\ Name(e) \in Names /\ \E f \in disk : Starts(e, f.at)
    BY <1>1, <1>6, TakenHere
  <2>4. CASE IsDirectory(e)
    <3>1. /\ path_buf' = Append(path_buf, Name(e))
          /\ stack' = Append(Taken(e), [dir |-> e, todo |-> Sub(e)])
          /\ UNCHANGED <<modules, errors, ready, phase>>
      BY <2>2, <2>4 DEF walk_file, Passed
    <3>2. \A f \in disk : f.at # e
      <4>1. \A f \in disk : f.at = e => Starts(e, f.at) /\ Len(e) = Len(f.at) /\ Len(e) \in Nat
        <5>1. disk \in Disks /\ e \in Seq(Names)
          BY <1>1, <2>3
        <5>2. \A f \in disk : Starts(f.at, f.at)
          BY <5>1, DirectoryOrFile, Zenon
        <5> QED BY <5>1, <5>2
      <4>2. \A f \in disk : Starts(e, f.at) => Len(e) < Len(f.at)
        <5>1. disk \in Disks /\ e \in Seq(Names)
          BY <1>1, <2>3
        <5> QED BY <2>4, <5>1, DirectoryOrFile, Zenon
      <4> QED BY <4>1, <4>2
    <3>3. WalkInv'
      BY <1>1, <1>6, <2>2, <3>1, <3>2, DirectoryEntered
    <3> QED BY <3>1, <3>3, <1>1, WalkGoesOn
  <2>5. CASE ~IsDirectory(e)
    <3>1. \E f \in disk : f.at = e
      BY <1>1, <2>3, <2>5, DirectoryOrFile
    <3>2. \E j \in DOMAIN Paths : Name(Paths[j]) = Head(Append(path_buf, Name(e)))
      <4>1. begun \in DOMAIN Paths /\ path_buf # <<>> /\ path_buf[1] = Name(Paths[begun])
        BY <1>1, <1>6, StackIs DEF WalkInv
      <4>2. Head(Append(path_buf, Name(e))) = path_buf[1]
        <5>1. path_buf \in Seq(Names) /\ path_buf # <<>> /\ Name(e) \in Names
          BY <1>1, <2>3, <4>1
        <5> QED BY <5>1, HeadStays
      <4> QED BY <4>1, <4>2
    <3>3. \/ phase' = "panic" /\ modules' = modules /\ errors' = errors
          \/ /\ stack' = Taken(e) /\ path_buf' = Append(path_buf, Name(e)) /\ path_buf' \in Seq(Names)
             /\ ready' = ready /\ phase' = phase
             /\ modules' \in Seq(Modules(origin)) /\ errors' \in Seq(Files)
             /\ Parsed(disk, origin, e, modules, errors, modules', errors')
      BY <1>1, <1>6, <2>2, <2>3, <2>5, <3>2, HostFile, Zenon
    <3>4. CASE phase' = "panic" /\ modules' = modules /\ errors' = errors
      BY <3>4, <1>1, WalkHalts
    <3>5. CASE /\ stack' = Taken(e) /\ path_buf' = Append(path_buf, Name(e)) /\ path_buf' \in Seq(Names)
               /\ ready' = ready /\ phase' = phase
               /\ modules' \in Seq(Modules(origin)) /\ errors' \in Seq(Files)
               /\ Parsed(disk, origin, e, modules, errors, modules', errors')
      <4>1. WalkInv'
        BY <1>1, <1>6, <2>2, <3>1, <3>5, FileEntered
      <4> QED BY <4>1, <3>5, <1>1, WalkGoesOn, Zenon
    <3> QED BY <3>3, <3>4, <3>5
  <2> QED BY <2>4, <2>5
<1>7. CASE stack # <<>> /\ origin = "os" /\ Last(stack).todo = {} /\ walk_file_end
  <2>1. stack' = Front(stack) /\ UNCHANGED <<left, path_buf, modules, errors, ready, phase>>
    BY <1>7 DEF walk_file_end
  <2>2. WalkInv'
    BY <1>1, <1>7, <2>1, CallReturns
  <2> QED BY <2>1, <2>2, <1>1, WalkGoesOn
<1> QED BY <1>2, <1>3, <1>4, <1>5, <1>6, <1>7 DEF WalkPaths

(* The walks are over. *)
LEMMA WalkedKeeps ==
  ASSUME PathInv, Walked
  PROVE  PathInv'
<1>1. /\ phase = "walk" /\ disk \in Disks /\ modules \in Seq(Modules(origin)) /\ errors \in Seq(Files)
      /\ WalkInv /\ stack = <<>> /\ left = <<>>
  BY DEF PathInv, Walked
<1>2. begun = Len(Paths)
  <2>1. Len(left) = 0 /\ Len(Paths) \in Nat
    BY <1>1, DiskAssumption
  <2> QED BY <2>1 DEF begun
<1>3. \A f \in disk : FileCount(modules, f) + ErrorCount(errors, f) = Owed(origin, f, Len(Paths))
  <2> SUFFICES ASSUME NEW f \in disk PROVE Count(modules, errors, f) = Owed(origin, f, Len(Paths))
    BY DEF Count
  <2>1. Settled(disk, origin, <<>>, modules, errors, Len(Paths))
    BY <1>1, <1>2 DEF WalkInv
  <2>2. ~Covers(<<>>, f)
    BY DEF Covers
  <2>3. Count(modules, errors, f) + (IF WantedIn(origin, f) /\ Covers(<<>>, f) THEN 1 ELSE 0)
          = Owed(origin, f, Len(Paths))
    BY <2>1, SettledIs
  <2>4. Count(modules, errors, f) \in Nat
    BY <1>1, CountIs
  <2> QED BY <2>2, <2>3, <2>4
<1>4. ready = 0
  BY <1>1 DEF WalkInv
<1>5. /\ phase' \in {"err", "compile"} /\ (phase' = "compile" => errors = <<>>)
      /\ origin' = origin /\ disk' = disk /\ modules' = modules /\ errors' = errors /\ ready' = ready
  BY DEF Walked
<1> QED BY <1>1, <1>3, <1>4, <1>5 DEF PathInv

(* Parsing keeps the invariant. *)
LEMMA ParseKeeps ==
  ASSUME PathInv, Parse
  PROVE  PathInv'
<1>1. /\ phase = "parse" /\ disk \in Disks /\ modules \in Seq(Modules(origin)) /\ errors \in Seq(Files)
      /\ origin = "text" /\ ready = 0 /\ errors = <<>>
      /\ origin' = origin /\ disk' = disk /\ ready' = ready
  BY DEF PathInv, Parse
<1>2. PICK f \in disk :
        /\ f.content # "binary" /\ Deliver(f, <<"script">>)
        /\ phase' = CASE f.content = "empty" -> "panic" [] f.content = "syntax" -> "err"
                      [] OTHER -> "compile"
  BY DEF Parse
<1>3. CASE f.content = "empty"
  <2>1. modules' = modules /\ errors' = errors /\ phase' = "panic"
    BY <1>2, <1>3 DEF Deliver
  <2> QED BY <2>1, <1>1, WalkHalts
<1>4. CASE f.content # "empty"
  <2> DEFINE path == <<"script">>
  <2>1. path \in Seq(Names) /\ Deliver(f, path)
    BY <1>2, DiskAssumption
  <2> HIDE DEF path
  <2>2. \A m : m.file = f /\ m.path = path => NameOK(origin, m)
    BY <1>1 DEF NameOK
  <2>3. modules' \in Seq(Modules(origin)) /\ errors' \in Seq(Files)
    BY <1>1, <1>2, <1>4, <2>1, <2>2, DeliverIs
  <2>4. phase' \in {"err", "compile"} /\ (phase' = "compile" => errors' = <<>>)
    BY <1>1, <1>2, <1>4 DEF Deliver
  <2> QED BY <1>1, <2>3, <2>4 DEF PathInv
<1> QED BY <1>3, <1>4

(* So does compiling. *)
LEMMA CompileKeeps ==
  ASSUME PathInv, Compile
  PROVE  PathInv'
<1>1. /\ phase = "compile" /\ disk \in Disks /\ modules \in Seq(Modules(origin)) /\ errors \in Seq(Files)
      /\ ready = 0 /\ errors = <<>>
      /\ origin' = origin /\ disk' = disk /\ modules' = modules /\ errors' = errors /\ ready' = ready
  BY DEF PathInv, Compile
<1>2. CASE \E i \in DOMAIN modules : modules[i].file.content = "names"
  <2>1. phase' = "panic"
    BY <1>2 DEF Compile
  <2> QED BY <2>1, <1>1, WalkHalts
<1>3. CASE ~\E i \in DOMAIN modules : modules[i].file.content = "names"
  <2>1. phase' = "jit"
    BY <1>3 DEF Compile
  <2>2. /\ ready \in 0..Len(modules)
        /\ \A i \in 1..Len(modules) : modules[i].file.content # "names"
        /\ \A i \in 1..ready : modules[i].file.content = "good"
    BY <1>1, <1>3
  <2>3. origin # "text" =>
          \A f \in disk : FileCount(modules, f) + ErrorCount(errors, f) = Owed(origin, f, Len(Paths))
    BY <1>1 DEF PathInv
  <2> QED BY <2>1, <2>2, <2>3, <1>1 DEF PathInv
<1> QED BY <1>2, <1>3

(* So does running. *)
LEMMA JitKeeps ==
  ASSUME PathInv, jit_module
  PROVE  PathInv'
<1>1. /\ phase = "jit" /\ disk \in Disks /\ modules \in Seq(Modules(origin)) /\ errors \in Seq(Files)
      /\ errors = <<>> /\ ready \in 0..Len(modules) /\ ready < Len(modules)
      /\ \A i \in 1..Len(modules) : modules[i].file.content # "names"
      /\ \A i \in 1..ready : modules[i].file.content = "good"
      /\ origin' = origin /\ disk' = disk /\ modules' = modules /\ errors' = errors
  BY DEF PathInv, jit_module
<1>2. CASE modules[ready + 1].file.content = "jit"
  <2>1. phase' = "panic"
    BY <1>2 DEF jit_module
  <2> QED BY <2>1, <1>1, WalkHalts
<1>3. CASE modules[ready + 1].file.content # "jit"
  <2>1. phase' = "jit" /\ ready' = ready + 1
    BY <1>1, <1>3 DEF jit_module
  <2>2. Len(modules) \in Nat /\ ready + 1 \in 1..Len(modules) /\ ready' \in 0..Len(modules)
    BY <1>1, <2>1
  <2>3. modules[ready + 1].file.content = "good"
    <3>1. modules[ready + 1] \in Modules(origin)
      BY <1>1, <2>2
    <3>2. modules[ready + 1].file.content \in {"good", "names", "jit"}
      BY <3>1 DEF Modules
    <3> QED BY <3>2, <1>1, <1>3, <2>2
  <2>4. \A i \in 1..ready' : modules[i].file.content = "good"
    <3>1. \A i \in 1..ready' : i \in 1..ready \/ i = ready + 1
      BY <1>1, <2>1
    <3> QED BY <3>1, <2>3, <1>1
  <2>5. origin # "text" =>
          \A f \in disk : FileCount(modules, f) + ErrorCount(errors, f) = Owed(origin, f, Len(Paths))
    BY <1>1 DEF PathInv
  <2> QED BY <2>1, <2>2, <2>4, <2>5, <1>1 DEF PathInv
<1> QED BY <1>2, <1>3

(* execute_path starts in the invariant. *)
LEMMA PathInitInv ==
  ASSUME PathInit
  PROVE  PathInv
<1>1. /\ disk \in Disks /\ stack = <<>> /\ path_buf = <<>> /\ modules = <<>> /\ errors = <<>> /\ ready = 0
  BY DEF PathInit
<1>2. modules \in Seq(Modules(origin)) /\ errors \in Seq(Files) /\ path_buf \in Seq(Names)
  BY <1>1
<1>3. CASE origin = "text"
  <2>1. phase = "parse"
    BY <1>3 DEF PathInit
  <2> QED BY <2>1, <1>1, <1>2, <1>3 DEF PathInv
<1>4. CASE origin # "text"
  <2>1. phase = "walk" /\ origin \in {"fat", "os"} /\ left = Paths
    BY <1>4 DEF PathInit
  <2>2. /\ left \in Seq(Seq(Names)) /\ Len(left) <= Len(Paths) /\ begun = 0
        /\ \A i \in 1..Len(left) : left[i] = Paths[begun + i]
    <3>1. Paths \in Seq(Seq(Names)) /\ Len(Paths) \in Nat
      BY DiskAssumption
    <3> QED BY <2>1, <3>1 DEF begun
  <2>3. Settled(disk, origin, stack, modules, errors, 0)
    <3> SUFFICES ASSUME NEW f \in disk
                 PROVE  Count(modules, errors, f) + (IF WantedIn(origin, f) /\ Covers(stack, f) THEN 1 ELSE 0)
                          = Owed(origin, f, 0)
      BY SettledIs
    <3>1. ~Covers(<<>>, f)
      BY DEF Covers
    <3>2. FileCount(<<>>, f) = 0 /\ ErrorCount(<<>>, f) = 0
      <4>1. {i \in DOMAIN <<>> : <<>>[i].file = f} = {} /\ {i \in DOMAIN <<>> : <<>>[i] = f} = {}
        OBVIOUS
      <4> QED BY <4>1, FS_EmptySet DEF FileCount, ErrorCount
    <3>3. Owed(origin, f, 0) = 0
      BY OwedIs
    <3> QED BY <3>1, <3>2, <3>3, <1>1 DEF Count
  <2>4. WalkInv
    <3> HIDE DEF begun
    <3> QED BY <1>1, <1>2, <2>1, <2>2, <2>3 DEF WalkInv
  <2> QED BY <2>1, <2>4, <1>1, <1>2 DEF PathInv
<1> QED BY <1>3, <1>4

(* Every step of it preserves the invariant. *)
LEMMA PathNextInv ==
  ASSUME PathInv, [PathNext]_pathVars
  PROVE  PathInv'
<1>1. CASE WalkPaths
  BY <1>1, WalkStepKeeps
<1>2. CASE Walked
  BY <1>2, WalkedKeeps
<1>3. CASE Parse
  BY <1>3, ParseKeeps
<1>4. CASE Compile
  BY <1>4, CompileKeeps
<1>5. CASE jit_module
  BY <1>5, JitKeeps
<1>6. CASE exec
  <2>1. /\ phase = "jit" /\ ready = Len(modules) /\ phase' \in {"panic", "running"}
        /\ origin' = origin /\ disk' = disk /\ modules' = modules /\ errors' = errors /\ ready' = ready
    BY <1>6 DEF exec
  <2> QED BY <2>1 DEF PathInv
<1>7. CASE Unwrap
  <2>1. /\ \/ phase = "err" /\ phase' = "panic"
           \/ phase = "running" /\ phase' = "done"
        /\ origin' = origin /\ disk' = disk /\ modules' = modules /\ errors' = errors /\ ready' = ready
    BY <1>7 DEF Unwrap
  <2> QED BY <2>1 DEF PathInv
<1>8. CASE UNCHANGED pathVars
  <2>1. /\ origin' = origin /\ disk' = disk /\ left' = left /\ stack' = stack /\ path_buf' = path_buf
        /\ modules' = modules /\ errors' = errors /\ ready' = ready /\ phase' = phase
    BY <1>8 DEF pathVars
  <2>2. WalkInv => WalkInv'
    BY <2>1 DEF WalkInv, begun
  <2> QED BY <2>1, <2>2 DEF PathInv
<1> QED BY <1>1, <1>2, <1>3, <1>4, <1>5, <1>6, <1>7, <1>8 DEF PathNext, Stopped

(* It holds throughout. *)
LEMMA PathAlways == PathSpec => []PathInv
<1> QED BY PathInitInv, PathNextInv, PTL DEF PathSpec

(* execute_path and execute_module run no program of which a file failed: whatever the
   tree, the order of its entries and the paths given. *)
THEOREM ProgramsRunWhole == PathSpec => []RunsWhole
<1>1. ASSUME PathInv PROVE RunsWhole
  <2>1. phase \in {"running", "done"} =>
          /\ errors = <<>> /\ ready = Len(modules)
          /\ \A i \in 1..ready : modules[i].file.content = "good"
    BY <1>1 DEF PathInv
  <2>2. modules \in Seq(Modules(origin)) /\ DOMAIN modules = 1..Len(modules)
    BY <1>1 DEF PathInv
  <2> QED BY <2>1, <2>2 DEF RunsWhole
<1> QED BY <1>1, PathAlways, PTL

(* The path of a module is that of its file, for every tree: the names that walk_dir pushes
   and pops spell the way from the walked directory to the file. *)
THEOREM ModulePathsAreNamed == PathSpec => []PathsNameModules
<1>1. ASSUME PathInv PROVE PathsNameModules
  <2>1. modules \in Seq(Modules(origin))
    BY <1>1 DEF PathInv
  <2>2. \A i \in DOMAIN modules : modules[i] \in Modules(origin)
    BY <2>1
  <2>3. \A i \in DOMAIN modules : NameOK(origin, modules[i])
    BY <2>2 DEF Modules
  <2> QED BY <2>3 DEF PathsNameModules, NameOK
<1> QED BY <1>1, PathAlways, PTL

(* The walk of every tree, in every order of its entries, parses each source file at or below
   the paths exactly once for each of them. *)
THEOREM EverySourceIsReadOnce == PathSpec => []EverySourceOnce
<1>1. ASSUME PathInv PROVE EverySourceOnce
  <2> SUFFICES ASSUME phase \notin {"walk", "panic", "overflow"}, origin # "text", NEW f \in disk
               PROVE  Cardinality({i \in DOMAIN Paths : f \in Below(Paths[i])})
                        = Cardinality({i \in DOMAIN modules : modules[i].file = f})
                          + Cardinality({i \in DOMAIN errors : errors[i] = f})
    BY DEF EverySourceOnce
  <2>1. phase \in {"err", "compile", "jit", "running", "done"}
    BY <1>1 DEF PathInv
  <2>2. FileCount(modules, f) + ErrorCount(errors, f) = Owed(origin, f, Len(Paths))
    BY <1>1, <2>1 DEF PathInv
  <2>3. {i \in DOMAIN Paths : f \in Below(Paths[i])}
          = {i \in 1..Len(Paths) : IsPrefix(Paths[i], f.at) /\ WantedIn(origin, f)}
    <3>1. DOMAIN Paths = 1..Len(Paths)
      BY DiskAssumption
    <3> QED BY <3>1 DEF Below, Wanted, WantedIn
  <2> QED BY <2>2, <2>3, Zenon DEF FileCount, ErrorCount, Owed
<1> QED BY <1>1, PathAlways, PTL

=============================================================================
