------------------------------ MODULE VfsProofs ------------------------------
(***************************************************************************)
(* Proofs about the file systems: the RAM file system of Ramfs, the drives *)
(* and findFile of Drives, and the calls of Vfs over both, for every set   *)
(* of names, every machine, every disc and every sequence of calls.        *)
(*                                                                         *)
(* The functions of ramfs.c and atapi.c walk along lists and paths.  What  *)
(* such a walk computes is found in two steps: the recursive function has  *)
(* a solution (ChainRecursion for a list whose links lead to later         *)
(* entries, PathRecursion for a path), so that its equation may be used;   *)
(* and what the equation implies is shown entry by entry or name by name   *)
(* (ChainInduction, PathInduction).  A list of entries is a parameter of   *)
(* the lemmas, because a call is about two of them, before and after.      *)
(***************************************************************************)
EXTENDS Vfs, Integers, SequenceTheorems, WellFoundedInduction, TLAPS

USE RamfsAssumption, VfsAssumption

-----------------------------------------------------------------------------
(* Every nonempty set of numbers has a least one. *)
LEMMA LeastNumber ==
  ASSUME NEW T, T \subseteq Nat, T # {}
  PROVE  \E m \in T : \A n \in T : m <= n
<1>1. \E m \in T : \A n \in T : ~(<<n, m>> \in OpToRel(<, Nat))
  BY WFMin, NatLessThanWellFounded
<1>2. \A n, m \in T : <<n, m>> \in OpToRel(<, Nat) <=> n < m
  BY DEF OpToRel
<1>3. PICK m \in T : \A n \in T : ~(n < m)
  BY <1>1, <1>2
<1>4. QED
  BY <1>3

(* Along a path: a set that holds 0 and, with every number, the next one.  *)
LEMMA PathInduction ==
  ASSUME NEW N \in Nat, NEW P, 0 \in P, \A n \in 1 .. N : n - 1 \in P => n \in P
  PROVE  \A n \in 0 .. N : n \in P
<1> DEFINE Bad == {n \in 0 .. N : n \notin P}
<1>1. SUFFICES ASSUME Bad # {} PROVE FALSE
  OBVIOUS
<1>2. PICK m \in Bad : \A n \in Bad : m <= n
  <2> HIDE DEF Bad
  <2>1. Bad \subseteq Nat
    BY DEF Bad
  <2>2. QED
    BY <1>1, <2>1, LeastNumber
<1>3. m \in 1 .. N /\ m - 1 \in 0 .. N /\ ~(m <= m - 1)
  BY <1>2
<1>4. m - 1 \in P
  BY <1>2, <1>3
<1>5. QED
  BY <1>2, <1>3, <1>4

(* A step for every place of a path has a walk. *)
Follows(N, S, s0, G, f) ==
    f \in [0 .. N -> S] /\ f[0] = s0 /\ \A n \in 1 .. N : f[n] = G[n][f[n - 1]]

LEMMA PathRecursion ==
  ASSUME NEW S, NEW s0 \in S, NEW N \in Nat, NEW G, G \in [1 .. N -> [S -> S]]
  PROVE  \E f : Follows(N, S, s0, G, f)
<1> DEFINE Walks(m) == {f \in [0 .. N -> S] :
                          f[0] = s0 /\ \A n \in 1 .. m : f[n] = G[n][f[n - 1]]}
           P == {m \in 0 .. N : Walks(m) # {}}
<1>1. 0 \in P
  <2>1. [n \in 0 .. N |-> s0] \in Walks(0)
    OBVIOUS
  <2>2. QED
    BY <2>1
<1>2. ASSUME NEW m \in 1 .. N, m - 1 \in P
      PROVE  m \in P
  <2>1. PICK f \in [0 .. N -> S] : f[0] = s0 /\ \A n \in 1 .. m - 1 : f[n] = G[n][f[n - 1]]
    BY <1>2
  <2> DEFINE g == [f EXCEPT ![m] = G[m][f[m - 1]]]
  <2>2. m - 1 \in 0 .. N /\ m \in 0 .. N /\ G[m][f[m - 1]] \in S
    BY <2>1
  <2>3. g \in [0 .. N -> S] /\ g[m] = G[m][f[m - 1]] /\ \A n \in 0 .. N : n # m => g[n] = f[n]
    BY <2>1, <2>2
  <2> HIDE DEF g
  <2>4. g[0] = s0
    BY <2>1, <2>3
  <2>5. ASSUME NEW n \in 1 .. m PROVE g[n] = G[n][g[n - 1]]
    <3>1. n \in 0 .. N /\ n - 1 \in 0 .. N /\ n - 1 # m
      OBVIOUS
    <3>2. g[n - 1] = f[n - 1]
      BY <2>3, <3>1
    <3>3. CASE n = m
      BY <2>3, <3>2, <3>3
    <3>4. CASE n # m
      <4>1. n \in 1 .. m - 1
        BY <3>4
      <4>2. QED
        BY <2>1, <2>3, <3>1, <3>2, <3>4, <4>1
    <3>5. QED
      BY <3>3, <3>4
  <2>6. g \in Walks(m)
    BY <2>3, <2>4, <2>5
  <2>7. QED
    BY <2>2, <2>6
<1> HIDE DEF P
<1>3. \A m \in 0 .. N : m \in P
  BY <1>1, <1>2, PathInduction
<1>4. N \in P
  BY <1>3
<1>5. PICK f : f \in Walks(N)
  BY <1>4 DEF P
<1>6. Follows(N, S, s0, G, f)
  BY <1>5 DEF Follows
<1>7. QED
  BY <1>6

-----------------------------------------------------------------------------
(* A list of entries whose links lead to later ones. *)
Chains(E) ==
    /\ Len(E) \in Nat
    /\ \A d \in 1 .. Len(E) :
         E[d].nextDir = None \/ (E[d].nextDir \in 1 .. Len(E) /\ E[d].nextDir > d)

(* Along the links: a set that holds an entry if it holds the next one. *)
LEMMA ChainInduction ==
  ASSUME NEW E, Chains(E), NEW P,
         \A d \in 1 .. Len(E) : E[d].nextDir = None \/ E[d].nextDir \in P => d \in P
  PROVE  \A d \in 1 .. Len(E) : d \in P
<1> DEFINE N == Len(E)
           Q == {n \in 0 .. N : \A d \in 1 .. N : d > N - n => d \in P}
<1>1. N \in Nat
  BY DEF Chains
<1>2. 0 \in Q
  BY <1>1
<1>3. ASSUME NEW n \in 1 .. N, n - 1 \in Q
      PROVE  n \in Q
  <2>1. ASSUME NEW d \in 1 .. N, d > N - n
        PROVE  d \in P
    <3>1. E[d].nextDir = None \/ (E[d].nextDir \in 1 .. N /\ E[d].nextDir > N - (n - 1))
      BY <1>1, <2>1 DEF Chains
    <3>2. QED
      BY <1>3, <3>1
  <2>2. QED
    BY <1>1, <2>1
<1> HIDE DEF Q
<1>4. \A n \in 0 .. N : n \in Q
  BY <1>1, <1>2, <1>3, PathInduction
<1>5. N \in Q
  BY <1>1, <1>4
<1>6. QED
  BY <1>1, <1>5 DEF Q

(* A search along the links, which stops at the entries of a set, has a    *)
(* solution.                                                               *)
Search(E, Stop, f) ==
    /\ f \in [0 .. Len(E) -> 0 .. Len(E)]
    /\ \A d \in 0 .. Len(E) :
         f[d] = IF d = None \/ d \in Stop THEN d ELSE f[E[d].nextDir]

LEMMA ChainRecursion ==
  ASSUME NEW E, Chains(E), NEW Stop
  PROVE  \E f : Search(E, Stop, f)
<1> DEFINE N == Len(E)
           Found(f, d) == f[d] = IF d = None \/ d \in Stop THEN d ELSE f[E[d].nextDir]
           Solves(n) == {f \in [0 .. N -> 0 .. N] :
                           f[0] = 0 /\ \A d \in 1 .. N : d > N - n => Found(f, d)}
           P == {n \in 0 .. N : Solves(n) # {}}
<1>1. N \in Nat /\ None = 0
  BY DEF Chains, None
<1>2. 0 \in P
  <2>1. [d \in 0 .. N |-> d] \in Solves(0)
    BY <1>1
  <2>2. QED
    BY <1>1, <2>1
<1>3. ASSUME NEW n \in 1 .. N, n - 1 \in P
      PROVE  n \in P
  <2>1. PICK f \in [0 .. N -> 0 .. N] :
           f[0] = 0 /\ \A d \in 1 .. N : d > N - (n - 1) => Found(f, d)
    BY <1>3
  <2> DEFINE e == N - (n - 1)
             v == IF e \in Stop THEN e ELSE f[E[e].nextDir]
             g == [f EXCEPT ![e] = v]
  <2>2. e \in 1 .. N
    BY <1>1
  <2>3. E[e].nextDir \in 0 .. N /\ E[e].nextDir # e
    BY <1>1, <2>2 DEF Chains
  <2>4. v \in 0 .. N
    BY <2>1, <2>2, <2>3
  <2> HIDE DEF v
  <2>5. g \in [0 .. N -> 0 .. N] /\ g[e] = v /\ \A d \in 0 .. N : d # e => g[d] = f[d]
    BY <2>1, <2>2, <2>4
  <2> HIDE DEF g
  <2>6. g[0] = 0
    BY <1>1, <2>1, <2>2, <2>5
  <2>7. ASSUME NEW d \in 1 .. N, d > N - n
        PROVE  Found(g, d)
    <3>1. CASE d = e
      <4>1. g[E[e].nextDir] = f[E[e].nextDir]
        BY <2>3, <2>5
      <4>2. QED
        BY <1>1, <2>2, <2>5, <3>1, <4>1 DEF v
    <3>2. CASE d # e
      <4>1. d > e
        BY <1>1, <2>2, <2>7, <3>2
      <4>2. E[d].nextDir \in 0 .. N /\ E[d].nextDir # e
        BY <1>1, <2>2, <4>1 DEF Chains
      <4>3. g[d] = f[d] /\ g[E[d].nextDir] = f[E[d].nextDir]
        <5>1. d \in 0 .. N
          BY <1>1
        <5>2. QED
          BY <2>5, <3>2, <4>2, <5>1
      <4>4. Found(f, d)
        BY <2>1, <4>1
      <4>5. QED
        BY <4>3, <4>4
    <3>3. QED
      BY <3>1, <3>2
  <2>8. g \in Solves(n)
    BY <2>5, <2>6, <2>7
  <2>9. QED
    BY <2>8
<1> HIDE DEF P
<1>4. \A n \in 0 .. N : n \in P
  BY <1>1, <1>2, <1>3, PathInduction
<1>5. N \in P
  BY <1>1, <1>4
<1>6. PICK f : f \in Solves(N)
  BY <1>5 DEF P
<1>7. ASSUME NEW d \in 0 .. N PROVE Found(f, d)
  BY <1>1, <1>6
<1>8. Search(E, Stop, f)
  BY <1>6, <1>7 DEF Search
<1>9. QED
  BY <1>8

-----------------------------------------------------------------------------
(* Named, LastOf and findDir for a given list of entries. *)
NamedIn(E, e, name) ==
    LET from[d \in 0 .. Len(E)] ==
          IF d = None \/ E[d].name = name THEN d ELSE from[E[d].nextDir]
    IN  from[e]

LastIn(E, e) ==
    LET last[d \in 1 .. Len(E)] ==
          IF E[d].nextDir = None THEN d ELSE last[E[d].nextDir]
    IN  last[e]

Step(E, w, name) ==
    IF w.done THEN w
    ELSE IF NamedIn(E, w.at, name) = None \/ E[NamedIn(E, w.at, name)].file
      THEN [at |-> NamedIn(E, w.at, name), done |-> TRUE]
    ELSE [at |-> E[NamedIn(E, w.at, name)].extent, done |-> FALSE]

AtRoot == [at |-> rootDir, done |-> FALSE]

Walk(E, path) ==
    CHOOSE walk : walk = [n \in 0 .. Len(path) |->
                            IF n = 0 THEN AtRoot ELSE Step(E, walk[n - 1], path[n])]

LEMMA NamedNow == ASSUME NEW e, NEW name PROVE Named(e, name) = NamedIn(entries, e, name)
  BY DEF Named, NamedIn

LEMMA LastNow == ASSUME NEW e PROVE LastOf(e) = LastIn(entries, e)
  BY DEF LastOf, LastIn

LEMMA FindDirNow ==
  ASSUME NEW path
  PROVE  findDir(path) = Walk(entries, path)[Len(path)].at
  BY DEF findDir, Walk, Named, NamedIn, Step, AtRoot

LEMMA FindDirNext ==
  ASSUME NEW path
  PROVE  findDir(path)' = Walk(entries', path)[Len(path)].at
  BY DEF findDir, Walk, Named, NamedIn, Step, AtRoot

(* The equation of the search for a name. *)
LEMMA NamedStep ==
  ASSUME NEW E, Chains(E), NEW name
  PROVE  \A e \in 0 .. Len(E) :
           /\ NamedIn(E, e, name) \in 0 .. Len(E)
           /\ NamedIn(E, e, name) =
                IF e = None \/ E[e].name = name THEN e ELSE NamedIn(E, E[e].nextDir, name)
<1> DEFINE Body(f) == [d \in 0 .. Len(E) |->
                         IF d = None \/ E[d].name = name THEN d ELSE f[E[d].nextDir]]
           g == CHOOSE f : f = Body(f)
           Stop == {d \in 1 .. Len(E) : E[d].name = name}
<1>1. Len(E) \in Nat /\ None = 0 /\ \A d \in 1 .. Len(E) : E[d].nextDir \in 0 .. Len(E)
  BY DEF Chains, None
<1>2. PICK f : Search(E, Stop, f)
  <2> HIDE DEF Stop
  <2>1. QED
    BY ChainRecursion
<1>3. \A d \in 0 .. Len(E) : (d = None \/ d \in Stop) <=> (d = None \/ E[d].name = name)
  BY <1>1
<1>4. f = Body(f)
  <2>1. \A d \in 0 .. Len(E) :
          f[d] = IF d = None \/ E[d].name = name THEN d ELSE f[E[d].nextDir]
    <3> HIDE DEF Stop
    <3>1. QED
      BY <1>2, <1>3 DEF Search
  <2>2. f = [d \in 0 .. Len(E) |-> f[d]]
    BY <1>2 DEF Search
  <2>3. QED
    BY <2>1, <2>2
<1>5. g = Body(g)
  <2> HIDE DEF Body
  <2>1. QED
    BY <1>4
<1>6. \A e : NamedIn(E, e, name) = g[e]
  BY DEF NamedIn
<1> HIDE DEF g
<1>7. \A d \in 0 .. Len(E) :
        g[d] = IF d = None \/ E[d].name = name THEN d ELSE g[E[d].nextDir]
  BY <1>5
<1> DEFINE P == {d \in 0 .. Len(E) : g[d] \in 0 .. Len(E)}
<1>8. None \in P
  BY <1>1, <1>7
<1>9. \A d \in 1 .. Len(E) : d \in P
  <2>1. ASSUME NEW d \in 1 .. Len(E), E[d].nextDir = None \/ E[d].nextDir \in P
        PROVE  d \in P
    <3>1. E[d].nextDir \in P /\ d \in 0 .. Len(E)
      BY <1>1, <1>8, <2>1
    <3>2. QED
      BY <1>7, <3>1
  <2> HIDE DEF P
  <2>2. QED
    BY <2>1, ChainInduction
<1>10. \A d \in 0 .. Len(E) : g[d] \in 0 .. Len(E)
  BY <1>1, <1>8, <1>9
<1>11. QED
  BY <1>6, <1>7, <1>10

(* The equation of the search for the end. *)
LEMMA LastStep ==
  ASSUME NEW E, Chains(E)
  PROVE  \A e \in 1 .. Len(E) :
           LastIn(E, e) = IF E[e].nextDir = None THEN e ELSE LastIn(E, E[e].nextDir)
<1> DEFINE Body(f) == [d \in 1 .. Len(E) |->
                         IF E[d].nextDir = None THEN d ELSE f[E[d].nextDir]]
           g == CHOOSE f : f = Body(f)
           Stop == {d \in 1 .. Len(E) : E[d].nextDir = None}
<1>1. Len(E) \in Nat /\ None = 0
      /\ \A d \in 1 .. Len(E) : E[d].nextDir = None \/ E[d].nextDir \in 1 .. Len(E)
  BY DEF Chains, None
<1>2. PICK h : Search(E, Stop, h)
  <2> HIDE DEF Stop
  <2>1. QED
    BY ChainRecursion
<1> DEFINE f == [d \in 1 .. Len(E) |-> h[d]]
<1>3. \A d \in 1 .. Len(E) : f[d] = h[d]
  OBVIOUS
<1>4. f = Body(f)
  <2>1. \A d \in 1 .. Len(E) : h[d] = IF E[d].nextDir = None THEN d ELSE h[E[d].nextDir]
    BY <1>1, <1>2 DEF Search
  <2>2. \A d \in 1 .. Len(E) : f[d] = IF E[d].nextDir = None THEN d ELSE f[E[d].nextDir]
    BY <1>1, <1>3, <2>1
  <2>3. QED
    BY <2>2
<1>5. g = Body(g)
  <2> HIDE DEF Body, f
  <2>1. QED
    BY <1>4
<1>6. \A e : LastIn(E, e) = g[e]
  BY DEF LastIn
<1> HIDE DEF g
<1>7. \A d \in 1 .. Len(E) : g[d] = IF E[d].nextDir = None THEN d ELSE g[E[d].nextDir]
  BY <1>5
<1>8. QED
  BY <1>6, <1>7

-----------------------------------------------------------------------------
(* The directories of a list of entries.  Each entry is in one directory,  *)
(* named by that directory's first entry: owner is the same along a list.  *)
(* An entry for a directory points to a first entry, which the second,     *)
(* "..", follows, and the ".." of a directory points to the one that its   *)
(* name is in.                                                             *)
EntryType ==
    [nextDir : Nat, extent : Nat, name : Names \union {".", ".."}, file : BOOLEAN,
     data : Values \union {Zero}]

First(E, owner, h) ==
    /\ h \in 1 .. Len(E) /\ h + 1 \in 1 .. Len(E)
    /\ E[h].name = "." /\ E[h].nextDir = h + 1
    /\ E[h + 1].name = ".." /\ ~E[h + 1].file
    /\ owner[h] = h

Owned(E, owner) ==
    /\ owner \in [1 .. Len(E) -> 1 .. Len(E)]
    /\ \A d \in 1 .. Len(E) : E[d].nextDir # None => owner[E[d].nextDir] = owner[d]
    /\ \A d \in 1 .. Len(E) : ~E[d].file => First(E, owner, E[d].extent)
    /\ \A d \in 1 .. Len(E) :
         ~E[d].file /\ E[d].name \in Names => E[E[d].extent + 1].extent = owner[d]

Tree(E) ==
    /\ E \in Seq(EntryType)
    /\ Chains(E)
    /\ Len(E) >= 2 /\ ~E[1].file /\ E[1].extent = rootDir /\ E[2].extent = rootDir
    /\ \E owner : Owned(E, owner)

(* The entry found has the name and is in the same directory. *)
LEMMA NamedFound ==
  ASSUME NEW E, Chains(E), NEW owner, Owned(E, owner), NEW name
  PROVE  \A e \in 1 .. Len(E) : NamedIn(E, e, name) # None =>
           /\ NamedIn(E, e, name) \in 1 .. Len(E)
           /\ E[NamedIn(E, e, name)].name = name
           /\ owner[NamedIn(E, e, name)] = owner[e]
<1> DEFINE Good(e) == NamedIn(E, e, name) # None =>
                        /\ NamedIn(E, e, name) \in 1 .. Len(E)
                        /\ E[NamedIn(E, e, name)].name = name
                        /\ owner[NamedIn(E, e, name)] = owner[e]
           P == {e \in 1 .. Len(E) : Good(e)}
<1>1. Len(E) \in Nat /\ None = 0
      /\ \A d \in 1 .. Len(E) : E[d].nextDir = None \/ E[d].nextDir \in 1 .. Len(E)
  BY DEF Chains, None
<1>2. ASSUME NEW e \in 1 .. Len(E), E[e].nextDir = None \/ E[e].nextDir \in P
      PROVE  e \in P
  <2>1. e \in 0 .. Len(E) /\ e # None /\ E[e].nextDir \in 0 .. Len(E)
    BY <1>1
  <2>2. CASE E[e].name = name
    <3>1. NamedIn(E, e, name) = e
      BY <2>1, <2>2, NamedStep
    <3>2. QED
      BY <2>2, <3>1
  <2>3. CASE E[e].name # name
    <3>1. NamedIn(E, e, name) = NamedIn(E, E[e].nextDir, name)
      BY <2>1, <2>3, NamedStep
    <3>2. CASE E[e].nextDir = None
      <4>1. NamedIn(E, None, name) = None
        BY <2>1, <3>2, NamedStep
      <4>2. QED
        BY <3>1, <3>2, <4>1
    <3>3. CASE E[e].nextDir # None
      <4>1. owner[E[e].nextDir] = owner[e]
        BY <3>3 DEF Owned
      <4>2. QED
        BY <1>2, <3>1, <3>3, <4>1
    <3>4. QED
      BY <3>2, <3>3
  <2>4. QED
    BY <2>2, <2>3
<1> HIDE DEF P
<1>3. \A d \in 1 .. Len(E) : d \in P
  BY <1>2, ChainInduction
<1>4. QED
  BY <1>3 DEF P

(* The last entry is in the same directory. *)
LEMMA LastFound ==
  ASSUME NEW E, Chains(E), NEW owner, Owned(E, owner)
  PROVE  \A e \in 1 .. Len(E) :
           /\ LastIn(E, e) \in 1 .. Len(E)
           /\ E[LastIn(E, e)].nextDir = None
           /\ owner[LastIn(E, e)] = owner[e]
<1> DEFINE P == {e \in 1 .. Len(E) : /\ LastIn(E, e) \in 1 .. Len(E)
                                     /\ E[LastIn(E, e)].nextDir = None
                                     /\ owner[LastIn(E, e)] = owner[e]}
<1>1. ASSUME NEW e \in 1 .. Len(E), E[e].nextDir = None \/ E[e].nextDir \in P
      PROVE  e \in P
  <2>1. CASE E[e].nextDir = None
    <3>1. LastIn(E, e) = e
      BY <2>1, LastStep
    <3>2. QED
      BY <2>1, <3>1
  <2>2. CASE E[e].nextDir # None
    <3>1. LastIn(E, e) = LastIn(E, E[e].nextDir)
      BY <2>2, LastStep
    <3>2. owner[E[e].nextDir] = owner[e]
      BY <2>2 DEF Owned
    <3>3. QED
      BY <1>1, <2>2, <3>1, <3>2
  <2>3. QED
    BY <2>1, <2>2
<1> HIDE DEF P
<1>2. \A d \in 1 .. Len(E) : d \in P
  BY <1>1, ChainInduction
<1>3. QED
  BY <1>2 DEF P

-----------------------------------------------------------------------------
(* Where a walk can be: in a directory, or at its end, which is a file or  *)
(* a missing name.                                                         *)
Places(E) == [at : 0 .. Len(E), done : BOOLEAN]

Placed(E, owner, w) ==
    IF w.done THEN w.at = None \/ (w.at \in 1 .. Len(E) /\ E[w.at].file)
    ELSE First(E, owner, w.at) /\ w.at # None

LEMMA StepPlaced ==
  ASSUME NEW E, Tree(E), NEW owner, Owned(E, owner), NEW w \in Places(E), Placed(E, owner, w),
         NEW name
  PROVE  Step(E, w, name) \in Places(E) /\ Placed(E, owner, Step(E, w, name))
<1> DEFINE e == NamedIn(E, w.at, name)
<1>1. Chains(E) /\ Len(E) \in Nat /\ None = 0
  BY DEF Tree, Chains, None
<1>2. CASE w.done
  BY <1>2 DEF Step
<1>3. CASE ~w.done
  <2>1. w.at \in 1 .. Len(E)
    BY <1>3 DEF Placed, First
  <2>2. e # None => e \in 1 .. Len(E)
    BY <1>1, <2>1, NamedFound
  <2> HIDE DEF e
  <2>3. CASE e = None \/ E[e].file
    <3>1. Step(E, w, name) = [at |-> e, done |-> TRUE]
      BY <1>3, <2>3 DEF Step, e
    <3>2. QED
      BY <1>1, <2>2, <2>3, <3>1 DEF Places, Placed
  <2>4. CASE ~(e = None \/ E[e].file)
    <3>1. Step(E, w, name) = [at |-> E[e].extent, done |-> FALSE]
      BY <1>3, <2>4 DEF Step, e
    <3>2. First(E, owner, E[e].extent)
      BY <2>2, <2>4 DEF Owned
    <3>3. E[e].extent \in 1 .. Len(E)
      BY <3>2 DEF First
    <3>4. QED
      BY <1>1, <3>1, <3>2, <3>3 DEF Places, Placed
  <2>5. QED
    BY <2>3, <2>4
<1>4. w.done \in BOOLEAN
  BY DEF Places
<1>5. QED
  BY <1>2, <1>3, <1>4

(* The equation of findDir's walk. *)
LEMMA WalkStep ==
  ASSUME NEW E, Tree(E), NEW owner, Owned(E, owner), NEW path, Len(path) \in Nat
  PROVE  /\ Walk(E, path)[0] = AtRoot
         /\ \A n \in 1 .. Len(path) : Walk(E, path)[n] = Step(E, Walk(E, path)[n - 1], path[n])
         /\ \A n \in 0 .. Len(path) :
              Walk(E, path)[n] \in Places(E) /\ Placed(E, owner, Walk(E, path)[n])
<1> DEFINE N == Len(path)
           S == {w \in Places(E) : Placed(E, owner, w)}
           G == [n \in 1 .. N |-> [w \in S |-> Step(E, w, path[n])]]
           Body(f) == [n \in 0 .. N |-> IF n = 0 THEN AtRoot ELSE Step(E, f[n - 1], path[n])]
           g == CHOOSE f : f = Body(f)
<1>1. AtRoot \in S
  <2>1. Len(E) \in Nat /\ Len(E) >= 2 /\ ~E[1].file /\ E[1].extent = rootDir /\ rootDir = 1 /\ None = 0
    BY DEF Tree, Chains, rootDir, None
  <2>2. First(E, owner, rootDir)
    BY <2>1 DEF Owned
  <2>3. QED
    BY <2>1, <2>2 DEF AtRoot, Places, Placed
<1>2. \A w \in S : \A name : Step(E, w, name) \in S
  <2>1. SUFFICES ASSUME NEW w \in Places(E), Placed(E, owner, w), NEW name
                 PROVE  Step(E, w, name) \in S
    OBVIOUS
  <2>2. QED
    BY <2>1, StepPlaced
<1> HIDE DEF S
<1>3. G \in [1 .. N -> [S -> S]]
  BY <1>2
<1>4. \A n \in 1 .. N : \A w \in S : G[n][w] = Step(E, w, path[n])
  OBVIOUS
<1> HIDE DEF G
<1>5. PICK f : Follows(N, S, AtRoot, G, f)
  BY <1>1, <1>3, PathRecursion
<1> USE DEF Follows
<1>6. \A n \in 1 .. N : f[n] = Step(E, f[n - 1], path[n])
  <2>1. ASSUME NEW n \in 1 .. N PROVE f[n] = Step(E, f[n - 1], path[n])
    <3>1. n - 1 \in 0 .. N
      OBVIOUS
    <3>2. f[n - 1] \in S
      BY <1>5, <3>1
    <3>3. QED
      BY <1>4, <1>5, <3>2
  <2>2. QED
    BY <2>1
<1>7. f = Body(f)
  <2>1. \A n \in 0 .. N : f[n] = IF n = 0 THEN AtRoot ELSE Step(E, f[n - 1], path[n])
    BY <1>5, <1>6
  <2>2. f = [n \in 0 .. N |-> f[n]]
    BY <1>5
  <2>3. QED
    BY <2>1, <2>2
<1>8. g = Body(g)
  <2> HIDE DEF Body
  <2>1. QED
    BY <1>7
<1>9. Walk(E, path) = g
  BY DEF Walk
<1> HIDE DEF g
<1>10. g[0] = AtRoot /\ \A n \in 1 .. N : g[n] = Step(E, g[n - 1], path[n])
  <2>1. \A n \in 0 .. N : g[n] = IF n = 0 THEN AtRoot ELSE Step(E, g[n - 1], path[n])
    BY <1>8
  <2>2. QED
    BY <2>1
<1> DEFINE P == {n \in 0 .. N : g[n] \in S}
<1>11. 0 \in P
  BY <1>1, <1>10
<1>12. ASSUME NEW n \in 1 .. N, n - 1 \in P PROVE n \in P
  BY <1>2, <1>10, <1>12
<1> HIDE DEF P
<1>13. \A n \in 0 .. N : n \in P
  BY <1>11, <1>12, PathInduction
<1>14. \A n \in 0 .. N : g[n] \in Places(E) /\ Placed(E, owner, g[n])
  BY <1>13 DEF P, S
<1>15. QED
  BY <1>9, <1>10, <1>14

(* Paths that begin alike lead the same way. *)
LEMMA WalkPrefix ==
  ASSUME NEW E, Tree(E), NEW p, Len(p) \in Nat, NEW q, Len(q) \in Nat,
         NEW N \in Nat, N <= Len(p), N <= Len(q), \A n \in 1 .. N : p[n] = q[n]
  PROVE  Walk(E, p)[N] = Walk(E, q)[N]
<1> DEFINE P == {n \in 0 .. N : Walk(E, p)[n] = Walk(E, q)[n]}
<1>1. PICK owner : Owned(E, owner)
  BY DEF Tree
<1>2. 0 \in P
  BY <1>1, WalkStep
<1>3. ASSUME NEW n \in 1 .. N, n - 1 \in P PROVE n \in P
  <2>1. n \in 1 .. Len(p) /\ n \in 1 .. Len(q)
    OBVIOUS
  <2>2. /\ Walk(E, p)[n] = Step(E, Walk(E, p)[n - 1], p[n])
        /\ Walk(E, q)[n] = Step(E, Walk(E, q)[n - 1], q[n])
    BY <1>1, <2>1, WalkStep
  <2>3. QED
    BY <1>3, <2>2
<1> HIDE DEF P
<1>4. \A n \in 0 .. N : n \in P
  BY <1>2, <1>3, PathInduction
<1>5. QED
  BY <1>4 DEF P

(* After the name of a directory, ".." leads back. *)
LEMMA StepBack ==
  ASSUME NEW E, Tree(E), NEW owner, Owned(E, owner), NEW w \in Places(E), Placed(E, owner, w),
         NEW name \in Names,
         Step(E, w, name).at # None, ~E[Step(E, w, name).at].file
  PROVE  Step(E, Step(E, w, name), "..").at = w.at
<1> DEFINE e == NamedIn(E, w.at, name)
           h == E[e].extent
<1>1. Chains(E) /\ Len(E) \in Nat /\ None = 0 /\ ".." # "."
  BY DEF Tree, Chains, None
<1>2. ~w.done
  BY DEF Step, Placed
<1>3. First(E, owner, w.at)
  BY <1>2 DEF Placed
<1>4. w.at \in 1 .. Len(E) /\ owner[w.at] = w.at
  BY <1>3 DEF First
<1>5. e # None => e \in 1 .. Len(E) /\ E[e].name = name /\ owner[e] = w.at
  BY <1>1, <1>4, NamedFound
<1>6. Step(E, w, name) = IF e = None \/ E[e].file THEN [at |-> e, done |-> TRUE]
                         ELSE [at |-> E[e].extent, done |-> FALSE]
  BY <1>2 DEF Step
<1> HIDE DEF e
<1>7. e # None /\ ~E[e].file
  BY <1>6
<1>8. First(E, owner, h) /\ E[h + 1].extent = w.at
  BY <1>5, <1>7 DEF Owned
<1>9. Step(E, w, name) = [at |-> h, done |-> FALSE]
  BY <1>6, <1>7
<1> HIDE DEF h
<1>10. h \in 0 .. Len(E) /\ h + 1 \in 0 .. Len(E) /\ h # None /\ h + 1 # None
  BY <1>1, <1>8 DEF First
<1>11. NamedIn(E, h, "..") = NamedIn(E, h + 1, "..")
  BY <1>1, <1>8, <1>10, NamedStep DEF First
<1>12. NamedIn(E, h + 1, "..") = h + 1
  BY <1>1, <1>8, <1>10, NamedStep DEF First
<1>13. Step(E, [at |-> h, done |-> FALSE], "..") = [at |-> E[h + 1].extent, done |-> FALSE]
  BY <1>8, <1>10, <1>11, <1>12 DEF Step, First
<1>14. QED
  BY <1>8, <1>9, <1>13

LEMMA PathsType == ASSUME NEW path \in Paths PROVE path \in Seq(Names)
<1>1. PICK n \in 0 .. MaxDepth : path \in [1 .. n -> Names]
  BY DEF Paths
<1>2. n \in Nat
  OBVIOUS
<1>3. QED
  BY <1>1, <1>2

LEMMA TreeParents == Tree(entries) => DotDotIsParent
<1> SUFFICES ASSUME Tree(entries) PROVE DotDotIsParent
  OBVIOUS
<1>1. PICK owner : Owned(entries, owner)
  BY DEF Tree
<1>2. findDir(<<"..">>) = rootDir
  <2>1. Len(entries) \in Nat /\ Len(entries) >= 2 /\ Chains(entries)
        /\ entries[2].extent = rootDir /\ ~entries[1].file /\ entries[1].extent = rootDir
        /\ rootDir = 1 /\ None = 0 /\ ".." # "."
    BY DEF Tree, Chains, rootDir, None
  <2>2. First(entries, owner, 1)
    BY <1>1, <2>1 DEF Owned
  <2>3. entries[1].name = "." /\ entries[1].nextDir = 2 /\ entries[2].name = ".." /\ ~entries[2].file
    BY <2>2 DEF First
  <2>4. 1 \in 0 .. Len(entries) /\ 2 \in 0 .. Len(entries)
    BY <2>1
  <2>5. NamedIn(entries, 2, "..") = 2
    BY <2>1, <2>3, <2>4, NamedStep
  <2>6. NamedIn(entries, 1, "..") = NamedIn(entries, 2, "..")
    BY <2>1, <2>3, <2>4, NamedStep
  <2>7. Step(entries, AtRoot, "..").at = rootDir
    BY <2>1, <2>3, <2>5, <2>6 DEF Step, AtRoot
  <2>8. Len(<<"..">>) = 1 /\ <<"..">>[1] = ".."
    OBVIOUS
  <2> DEFINE p == <<"..">>
  <2> HIDE DEF p
  <2>9. Len(p) = 1 /\ p[1] = ".."
    BY <2>8 DEF p
  <2>10. Walk(entries, p)[0] = AtRoot /\ Walk(entries, p)[1] = Step(entries, Walk(entries, p)[1 - 1], p[1])
    BY <1>1, <2>9, WalkStep
  <2>11. findDir(p) = Walk(entries, p)[1].at
    BY <2>9, FindDirNow
  <2>12. Walk(entries, p)[1] = Step(entries, AtRoot, "..")
    <3>1. 1 - 1 = 0
      OBVIOUS
    <3>2. QED
      BY <2>9, <2>10, <3>1
  <2>13. QED
    BY <2>7, <2>11, <2>12 DEF p
<1>3. ASSUME NEW path \in Paths, path # <<>>, path[Len(path)] \in Names,
             findDir(path) # None, ~IsFile(findDir(path))
      PROVE  findDir(path \o <<"..">>) = findDir(SubSeq(path, 1, Len(path) - 1))
  <2> DEFINE N == Len(path)
             up == path \o <<"..">>
             dir == SubSeq(path, 1, Len(path) - 1)
  <2>1. path \in Seq(Names)
    BY PathsType
  <2>2. N \in Nat /\ N >= 1
    BY <1>3, <2>1
  <2>3. Len(up) = N + 1 /\ up[N + 1] = ".." /\ \A n \in 1 .. N : up[n] = path[n]
    BY <2>1
  <2>4. Len(dir) = N - 1 /\ \A n \in 1 .. N - 1 : dir[n] = path[n]
    <3> DEFINE M == N - 1
    <3>1. M \in Nat /\ \A n \in 1 .. M : path[n] \in Names
      BY <2>1, <2>2
    <3> HIDE DEF M
    <3>2. /\ Len(SubSeq(path, 1, M)) = IF 1 <= M THEN M - 1 + 1 ELSE 0
          /\ \A n \in 1 .. M - 1 + 1 : SubSeq(path, 1, M)[n] = path[1 + n - 1]
      BY <3>1, SubSeqProperties
    <3>3. Len(SubSeq(path, 1, M)) = M /\ \A n \in 1 .. M : SubSeq(path, 1, M)[n] = path[n]
      BY <3>1, <3>2
    <3>4. QED
      BY <3>3 DEF M
  <2> HIDE DEF up, dir
  <2>5. findDir(path) = Walk(entries, path)[N].at /\ findDir(up) = Walk(entries, up)[N + 1].at
        /\ findDir(dir) = Walk(entries, dir)[N - 1].at
    BY <2>3, <2>4, FindDirNow
  <2>6. Walk(entries, up)[N] = Walk(entries, path)[N]
    <3>1. /\ N \in Nat /\ Len(up) \in Nat /\ Len(path) \in Nat /\ N <= Len(up) /\ N <= Len(path)
          /\ \A n \in 1 .. N : up[n] = path[n]
      BY <2>2, <2>3
    <3> HIDE DEF N
    <3>2. QED
      BY <1>1, <3>1, WalkPrefix
  <2>7. Walk(entries, dir)[N - 1] = Walk(entries, path)[N - 1]
    <3> DEFINE M == N - 1
    <3>1. M \in Nat /\ M <= Len(dir) /\ M <= Len(path) /\ Len(dir) \in Nat /\ Len(path) \in Nat
      BY <2>2, <2>4
    <3>2. \A n \in 1 .. M : dir[n] = path[n]
      BY <2>4
    <3> HIDE DEF M
    <3>3. Walk(entries, dir)[M] = Walk(entries, path)[M]
      BY <3>1, <3>2, WalkPrefix
    <3>4. QED
      BY <3>3 DEF M
  <2>8. Walk(entries, path)[N] = Step(entries, Walk(entries, path)[N - 1], path[N])
        /\ Walk(entries, path)[N - 1] \in Places(entries)
        /\ Placed(entries, owner, Walk(entries, path)[N - 1])
    BY <1>1, <2>2, WalkStep
  <2>9. N + 1 \in 1 .. Len(up) /\ Len(up) \in Nat
    BY <2>2, <2>3
  <2>10. Walk(entries, up)[N + 1] = Step(entries, Walk(entries, up)[N + 1 - 1], up[N + 1])
    BY <1>1, <2>9, WalkStep
  <2>11. Walk(entries, up)[N + 1] = Step(entries, Walk(entries, path)[N], "..")
    BY <2>2, <2>3, <2>6, <2>10
  <2> DEFINE w == Walk(entries, path)[N - 1]
             name == path[N]
  <2>12. Step(entries, w, name).at # None /\ ~entries[Step(entries, w, name).at].file
    BY <1>3, <2>5, <2>8 DEF IsFile
  <2>13. w \in Places(entries) /\ Placed(entries, owner, w) /\ name \in Names
    BY <1>3, <2>8
  <2>14. Walk(entries, up)[N + 1] = Step(entries, Step(entries, w, name), "..")
    BY <2>8, <2>11
  <2> HIDE DEF w, name
  <2>15. Step(entries, Step(entries, w, name), "..").at = w.at
    BY <1>1, <2>12, <2>13, StepBack
  <2>16. findDir(up) = findDir(dir)
    BY <2>5, <2>7, <2>14, <2>15 DEF w
  <2>17. QED
    BY <2>16 DEF up, dir
<1>4. QED
  BY <1>2, <1>3 DEF DotDotIsParent

-----------------------------------------------------------------------------
(* Later entries: the old ones keep their name and extent, and their links *)
(* unless they were the last of a list.                                    *)
Later(E, F) ==
    /\ Len(E) <= Len(F)
    /\ \A d \in 1 .. Len(E) :
         /\ F[d].name = E[d].name /\ F[d].file = E[d].file /\ F[d].extent = E[d].extent
         /\ E[d].nextDir # None => F[d].nextDir = E[d].nextDir

LEMMA NamedKept ==
  ASSUME NEW E, Chains(E), NEW F, Chains(F), Later(E, F), NEW name
  PROVE  \A e \in 1 .. Len(E) :
           NamedIn(E, e, name) # None => NamedIn(F, e, name) = NamedIn(E, e, name)
<1> DEFINE P == {e \in 1 .. Len(E) :
                   NamedIn(E, e, name) # None => NamedIn(F, e, name) = NamedIn(E, e, name)}
<1>1. Len(E) \in Nat /\ Len(F) \in Nat /\ None = 0 /\ Len(E) <= Len(F)
      /\ \A d \in 1 .. Len(E) : E[d].nextDir \in 0 .. Len(E)
  BY DEF Chains, None, Later
<1>2. ASSUME NEW e \in 1 .. Len(E), E[e].nextDir = None \/ E[e].nextDir \in P
      PROVE  e \in P
  <2>1. e \in 0 .. Len(E) /\ e \in 0 .. Len(F) /\ e # None /\ F[e].name = E[e].name
    BY <1>1 DEF Later
  <2>2. CASE E[e].name = name
    <3>1. NamedIn(E, e, name) = e /\ NamedIn(F, e, name) = e
      BY <2>1, <2>2, NamedStep
    <3>2. QED
      BY <3>1
  <2>3. CASE E[e].name # name
    <3>1. NamedIn(E, e, name) = NamedIn(E, E[e].nextDir, name)
      BY <2>1, <2>3, NamedStep
    <3>2. NamedIn(F, e, name) = NamedIn(F, F[e].nextDir, name)
      BY <2>1, <2>3, NamedStep
    <3>3. CASE E[e].nextDir = None
      <4>1. NamedIn(E, None, name) = None
        BY <1>1, <3>3, NamedStep
      <4>2. QED
        BY <3>1, <3>3, <4>1
    <3>4. CASE E[e].nextDir # None
      <4>1. F[e].nextDir = E[e].nextDir
        BY <3>4 DEF Later
      <4>2. QED
        BY <1>2, <3>1, <3>2, <3>4, <4>1
    <3>5. QED
      BY <3>3, <3>4
  <2>4. QED
    BY <2>2, <2>3
<1> HIDE DEF P
<1>3. \A d \in 1 .. Len(E) : d \in P
  BY <1>2, ChainInduction
<1>4. QED
  BY <1>3 DEF P

(* A walk that has met no missing name goes the same way among the later   *)
(* entries.                                                                *)
LEMMA WalkKept ==
  ASSUME NEW E, Tree(E), NEW F, Tree(F), Later(E, F), NEW path, Len(path) \in Nat
  PROVE  \A n \in 0 .. Len(path) :
           Walk(E, path)[n].at # None => Walk(F, path)[n] = Walk(E, path)[n]
<1> DEFINE W(n) == Walk(E, path)[n]
           P == {n \in 0 .. Len(path) : W(n).at # None => Walk(F, path)[n] = W(n)}
<1>1. PICK owner : Owned(E, owner)
  BY DEF Tree
<1>2. PICK later : Owned(F, later)
  BY DEF Tree
<1>3. 0 \in P
  BY <1>1, <1>2, WalkStep
<1>4. ASSUME NEW n \in 1 .. Len(path), n - 1 \in P PROVE n \in P
  <2>1. W(n) = Step(E, W(n - 1), path[n]) /\ Walk(F, path)[n] = Step(F, Walk(F, path)[n - 1], path[n])
    BY <1>1, <1>2, WalkStep
  <2>2. n - 1 \in 0 .. Len(path)
    OBVIOUS
  <2>3. W(n - 1) \in Places(E) /\ Placed(E, owner, W(n - 1))
    BY <1>1, <2>2, WalkStep
  <2>4. SUFFICES ASSUME W(n).at # None PROVE Walk(F, path)[n] = W(n)
    OBVIOUS
  <2>5. Chains(E) /\ Chains(F) /\ None = 0
    BY DEF Tree, None
  <2> DEFINE w == W(n - 1)
             e == NamedIn(E, w.at, path[n])
  <2> HIDE DEF W
  <2>6. CASE w.done
    <3>1. W(n) = w
      BY <2>1, <2>6 DEF Step
    <3>2. Walk(F, path)[n - 1] = w
      BY <1>4, <2>4, <3>1
    <3>3. QED
      BY <2>1, <2>6, <3>1, <3>2 DEF Step
  <2>7. CASE ~w.done
    <3>1. w.at # None /\ w.at \in 1 .. Len(E)
      BY <2>3, <2>7 DEF Placed, First
    <3>2. Walk(F, path)[n - 1] = w
      BY <1>4, <3>1
    <3>3. e # None => e \in 1 .. Len(E)
      BY <1>1, <2>5, <3>1, NamedFound
    <3>4. e # None => NamedIn(F, w.at, path[n]) = e
      BY <2>5, <3>1, NamedKept
    <3>5. W(n) = IF e = None \/ E[e].file THEN [at |-> e, done |-> TRUE]
                 ELSE [at |-> E[e].extent, done |-> FALSE]
      BY <2>1, <2>7 DEF Step
    <3>6. e # None
      BY <2>4, <3>5
    <3>7. F[e].file = E[e].file /\ F[e].extent = E[e].extent
      BY <3>3, <3>6 DEF Later
    <3>8. Walk(F, path)[n] = IF e = None \/ F[e].file THEN [at |-> e, done |-> TRUE]
                             ELSE [at |-> F[e].extent, done |-> FALSE]
      BY <2>1, <2>7, <3>2, <3>4, <3>6 DEF Step
    <3>9. QED
      BY <3>5, <3>7, <3>8
  <2>8. QED
    BY <2>3, <2>6, <2>7 DEF Places
<1> HIDE DEF P
<1>5. \A n \in 0 .. Len(path) : n \in P
  BY <1>3, <1>4, PathInduction
<1>6. QED
  BY <1>5 DEF P

-----------------------------------------------------------------------------
(* A tree grows into a tree: the last entries of lists may be linked to    *)
(* new entries of their directory, and the new entries for directories     *)
(* point to first entries.                                                 *)
Grown(E, owner, F, later) ==
    /\ F \in Seq(EntryType) /\ Later(E, F)
    /\ later \in [1 .. Len(F) -> 1 .. Len(F)]
    /\ \A d \in 1 .. Len(E) :
         /\ later[d] = owner[d]
         /\ E[d].nextDir = None =>
              \/ F[d].nextDir = None
              \/ F[d].nextDir \in Len(E) + 1 .. Len(F) /\ later[F[d].nextDir] = owner[d]
    /\ \A d \in Len(E) + 1 .. Len(F) :
         /\ \/ F[d].nextDir = None
            \/ F[d].nextDir \in d + 1 .. Len(F) /\ later[F[d].nextDir] = later[d]
         /\ ~F[d].file =>
              /\ First(F, later, F[d].extent)
              /\ F[d].name \in Names => F[F[d].extent + 1].extent = later[d]

LEMMA FirstKept ==
  ASSUME NEW E, Tree(E), NEW F, Len(F) \in Nat, Later(E, F), NEW owner, NEW later,
         \A d \in 1 .. Len(E) : later[d] = owner[d], NEW h, First(E, owner, h)
  PROVE  First(F, later, h)
<1>1. Len(E) \in Nat /\ None = 0 /\ Len(E) <= Len(F)
  BY DEF Tree, Chains, None, Later
<1>2. h \in 1 .. Len(E) /\ h + 1 \in 1 .. Len(E)
  BY DEF First
<1>3. E[h].nextDir # None
  BY <1>1, <1>2 DEF First
<1>4. F[h].name = E[h].name /\ F[h].nextDir = E[h].nextDir
      /\ F[h + 1].name = E[h + 1].name /\ F[h + 1].file = E[h + 1].file
  BY <1>2, <1>3 DEF Later
<1>5. QED
  BY <1>1, <1>2, <1>4 DEF First

LEMMA TreeGrown ==
  ASSUME NEW E, Tree(E), NEW owner, Owned(E, owner), NEW F, NEW later, Grown(E, owner, F, later)
  PROVE  Tree(F)
<1>1. Len(E) \in Nat /\ Len(F) \in Nat /\ None = 0 /\ Len(E) <= Len(F) /\ Len(E) >= 2 /\ Chains(E)
  <2>1. F \in Seq(EntryType)
    BY DEF Grown
  <2>2. QED
    BY <2>1 DEF Tree, Chains, None, Later, Grown
<1>2. \A d \in 1 .. Len(F) : d \in 1 .. Len(E) \/ d \in Len(E) + 1 .. Len(F)
  BY <1>1
<1>3. ASSUME NEW d \in 1 .. Len(F)
      PROVE  F[d].nextDir = None \/ (F[d].nextDir \in 1 .. Len(F) /\ F[d].nextDir > d)
  <2>1. CASE d \in 1 .. Len(E) /\ E[d].nextDir # None
    <3>1. F[d].nextDir = E[d].nextDir
      BY <2>1 DEF Grown, Later
    <3>2. E[d].nextDir \in 1 .. Len(E) /\ E[d].nextDir > d
      BY <1>1, <2>1 DEF Chains
    <3>3. QED
      BY <1>1, <3>1, <3>2
  <2>2. CASE d \in 1 .. Len(E) /\ E[d].nextDir = None
    <3>1. F[d].nextDir = None \/ F[d].nextDir \in Len(E) + 1 .. Len(F)
      BY <2>2 DEF Grown
    <3>2. QED
      BY <1>1, <2>2, <3>1
  <2>3. CASE d \in Len(E) + 1 .. Len(F)
    <3>1. F[d].nextDir = None \/ F[d].nextDir \in d + 1 .. Len(F)
      BY <2>3 DEF Grown
    <3>2. QED
      BY <1>1, <3>1
  <2>4. QED
    BY <1>2, <2>1, <2>2, <2>3
<1>4. Chains(F)
  BY <1>1, <1>3 DEF Chains
<1>5. ASSUME NEW d \in 1 .. Len(F), F[d].nextDir # None
      PROVE  later[F[d].nextDir] = later[d]
  <2>1. CASE d \in 1 .. Len(E) /\ E[d].nextDir # None
    <3>1. F[d].nextDir = E[d].nextDir /\ later[d] = owner[d]
      BY <2>1 DEF Grown, Later
    <3>2. E[d].nextDir \in 1 .. Len(E)
      BY <1>1, <2>1 DEF Chains
    <3>3. later[E[d].nextDir] = owner[E[d].nextDir]
      BY <3>2 DEF Grown
    <3>4. owner[E[d].nextDir] = owner[d]
      BY <2>1 DEF Owned
    <3>5. QED
      BY <3>1, <3>3, <3>4
  <2>2. CASE d \in 1 .. Len(E) /\ E[d].nextDir = None
    BY <1>5, <2>2 DEF Grown
  <2>3. CASE d \in Len(E) + 1 .. Len(F)
    BY <1>5, <2>3 DEF Grown
  <2>4. QED
    BY <1>2, <2>1, <2>2, <2>3
<1>6. ASSUME NEW d \in 1 .. Len(F), ~F[d].file
      PROVE  /\ First(F, later, F[d].extent)
             /\ F[d].name \in Names => F[F[d].extent + 1].extent = later[d]
  <2>1. CASE d \in 1 .. Len(E)
    <3>1. F[d].file = E[d].file /\ F[d].extent = E[d].extent /\ F[d].name = E[d].name
          /\ later[d] = owner[d]
      BY <2>1 DEF Grown, Later
    <3>2. First(E, owner, E[d].extent)
      BY <1>6, <2>1, <3>1 DEF Owned
    <3>3. \A c \in 1 .. Len(E) : later[c] = owner[c]
      BY DEF Grown
    <3>4. Later(E, F)
      BY DEF Grown
    <3>5. First(F, later, E[d].extent)
      BY <1>1, <3>2, <3>3, <3>4, FirstKept
    <3>6. F[E[d].extent + 1].extent = E[E[d].extent + 1].extent
      BY <3>2, <3>4 DEF First, Later
    <3>7. E[d].name \in Names => E[E[d].extent + 1].extent = owner[d]
      BY <1>6, <2>1, <3>1 DEF Owned
    <3>8. QED
      BY <3>1, <3>5, <3>6, <3>7
  <2>2. CASE d \in Len(E) + 1 .. Len(F)
    BY <1>6, <2>2 DEF Grown
  <2>3. QED
    BY <1>2, <2>1, <2>2
<1>7. later \in [1 .. Len(F) -> 1 .. Len(F)]
  BY DEF Grown
<1>8. Owned(F, later)
  BY <1>5, <1>6, <1>7 DEF Owned
<1>9. ~F[1].file /\ F[1].extent = rootDir /\ F[2].extent = rootDir
  BY <1>1 DEF Tree, Grown, Later
<1>10. F \in Seq(EntryType)
  BY DEF Grown
<1>11. QED
  BY <1>1, <1>4, <1>8, <1>9, <1>10 DEF Tree

(* A new file: one entry, linked to the end of its directory. *)
LEMMA FileMade ==
  ASSUME NEW E, Tree(E), NEW owner, Owned(E, owner), NEW dir, First(E, owner, dir),
         NEW F, F \in Seq(EntryType), Len(F) = Len(E) + 1, Later(E, F),
         \A d \in 1 .. Len(E) : E[d].nextDir = None =>
           F[d].nextDir = IF d = LastIn(E, dir) THEN Len(E) + 1 ELSE None,
         F[Len(E) + 1].nextDir = None, F[Len(E) + 1].file
  PROVE  Tree(F)
<1> DEFINE n == Len(E)
           later == [d \in 1 .. n + 1 |-> IF d = n + 1 THEN dir ELSE owner[d]]
<1>1. n \in Nat /\ Chains(E) /\ dir \in 1 .. n /\ owner[dir] = dir
      /\ owner \in [1 .. n -> 1 .. n]
  BY DEF Tree, Chains, First, Owned
<1>2. owner[LastIn(E, dir)] = dir
  BY <1>1, LastFound
<1>3. /\ later \in [1 .. n + 1 -> 1 .. n + 1]
      /\ \A d \in 1 .. n : later[d] = owner[d]
      /\ later[n + 1] = dir
  <2>1. \A d \in 1 .. n + 1 : (d = n + 1 \/ d \in 1 .. n) /\ n + 1 \in 1 .. n + 1
    BY <1>1
  <2>2. \A d \in 1 .. n : d # n + 1 /\ d \in 1 .. n + 1 /\ owner[d] \in 1 .. n + 1
    BY <1>1
  <2>3. dir \in 1 .. n + 1
    BY <1>1
  <2>4. QED
    BY <1>1, <2>1, <2>2, <2>3
<1> HIDE DEF later
<1>4. ASSUME NEW d \in 1 .. n, E[d].nextDir = None
      PROVE  F[d].nextDir = None \/ (F[d].nextDir \in n + 1 .. Len(F) /\ later[F[d].nextDir] = owner[d])
  BY <1>1, <1>2, <1>3, <1>4
<1>5. ASSUME NEW d \in n + 1 .. Len(F)
      PROVE  F[d].nextDir = None /\ F[d].file
  <2>1. d = n + 1
    BY <1>1
  <2>2. QED
    BY <2>1
<1>6. Grown(E, owner, F, later)
  BY <1>3, <1>4, <1>5 DEF Grown
<1>7. QED
  BY <1>6, TreeGrown

(* A new directory: its first two entries, and its name in the parent. *)
DirAdded(E, parent, name, F) ==
    /\ F \in Seq(EntryType) /\ Len(F) = Len(E) + 3 /\ Later(E, F)
    /\ \A d \in 1 .. Len(E) : E[d].nextDir = None =>
         F[d].nextDir = IF d = LastIn(E, parent) THEN Len(E) + 3 ELSE None
    /\ F[Len(E) + 1] = Entry(Len(E) + 2, Len(E) + 1, ".", FALSE)
    /\ F[Len(E) + 2] = Entry(None, parent, "..", FALSE)
    /\ F[Len(E) + 3] = Entry(None, Len(E) + 1, name, FALSE)

LEMMA DirMade ==
  ASSUME NEW E, Tree(E), NEW owner, Owned(E, owner), NEW parent, First(E, owner, parent),
         NEW F, NEW name \in Names, DirAdded(E, parent, name, F)
  PROVE  Tree(F)
<1> USE DEF DirAdded
<1> DEFINE n == Len(E)
           later == [d \in 1 .. n + 3 |-> IF d = n + 3 THEN parent ELSE IF d > n THEN n + 1 ELSE owner[d]]
<1>1. n \in Nat /\ Chains(E) /\ parent \in 1 .. n /\ owner[parent] = parent
      /\ owner \in [1 .. n -> 1 .. n] /\ None = 0
  BY DEF Tree, Chains, First, Owned, None
<1>2. owner[LastIn(E, parent)] = parent
  BY <1>1, LastFound
<1>3. /\ later \in [1 .. n + 3 -> 1 .. n + 3]
      /\ \A d \in 1 .. n : later[d] = owner[d]
      /\ later[n + 1] = n + 1 /\ later[n + 2] = n + 1 /\ later[n + 3] = parent
  BY <1>1
<1> HIDE DEF later
<1>4. ASSUME NEW d \in 1 .. n, E[d].nextDir = None
      PROVE  F[d].nextDir = None \/ (F[d].nextDir \in n + 1 .. Len(F) /\ later[F[d].nextDir] = owner[d])
  BY <1>1, <1>2, <1>3, <1>4
<1>5. /\ F[n + 1].nextDir = n + 2 /\ F[n + 1].extent = n + 1 /\ F[n + 1].name = "."
      /\ F[n + 2].nextDir = None /\ F[n + 2].extent = parent /\ F[n + 2].name = ".." /\ ~F[n + 2].file
      /\ F[n + 3].nextDir = None /\ F[n + 3].extent = n + 1
  BY DEF Entry
<1>6. First(F, later, n + 1)
  <2>1. n + 1 + 1 = n + 2 /\ n + 1 \in 1 .. Len(F) /\ n + 2 \in 1 .. Len(F)
    BY <1>1
  <2>2. QED
    BY <1>3, <1>5, <2>1 DEF First
<1>7. First(F, later, parent)
  <2>1. Len(F) \in Nat
    BY <1>1
  <2>2. QED
    BY <1>3, <2>1, FirstKept
<1>8. ASSUME NEW d \in n + 1 .. Len(F)
      PROVE  /\ F[d].nextDir = None \/ (F[d].nextDir \in d + 1 .. Len(F) /\ later[F[d].nextDir] = later[d])
             /\ First(F, later, F[d].extent)
             /\ F[d].name \in Names => F[F[d].extent + 1].extent = later[d]
  <2>1. CASE d = n + 1
    <3>1. F[n + 1].name \notin Names
      BY <1>5
    <3>2. n + 2 \in n + 1 + 1 .. Len(F) /\ later[n + 2] = later[n + 1]
      BY <1>1, <1>3
    <3>3. QED
      BY <1>5, <1>6, <2>1, <3>1, <3>2
  <2>2. CASE d = n + 2
    BY <1>1, <1>5, <1>7, <2>2
  <2>3. CASE d = n + 3
    <3>1. n + 1 + 1 = n + 2
      BY <1>1
    <3>2. QED
      BY <1>3, <1>5, <1>6, <2>3, <3>1
  <2>4. d = n + 1 \/ d = n + 2 \/ d = n + 3
    <3>1. d \in n + 1 .. n + 3 /\ n \in Nat
      BY <1>1
    <3> HIDE DEF n
    <3>2. QED
      BY <3>1
  <2>5. QED
    BY <2>1, <2>2, <2>3, <2>4
<1>9. Grown(E, owner, F, later)
  BY <1>3, <1>4, <1>8 DEF Grown
<1>10. QED
  BY <1>9, TreeGrown

(* A file written to: the directories stay. *)
LEMMA FileWritten ==
  ASSUME NEW E, Tree(E), NEW F, F \in Seq(EntryType), Len(F) = Len(E), Later(E, F),
         \A d \in 1 .. Len(E) : F[d].nextDir = E[d].nextDir
  PROVE  Tree(F)
<1>1. PICK owner : Owned(E, owner)
  BY DEF Tree
<1>2. Len(E) \in Nat /\ owner \in [1 .. Len(E) -> 1 .. Len(E)]
  BY <1>1 DEF Tree, Chains, Owned
<1>3. \A d \in Len(E) + 1 .. Len(F) : FALSE
  BY <1>2
<1>4. Grown(E, owner, F, owner)
  BY <1>2, <1>3 DEF Grown
<1>5. QED
  BY <1>1, <1>4, TreeGrown

-----------------------------------------------------------------------------
(* One sequence after another. *)
Join(S, a, b, c) ==
    /\ c \in Seq(S) /\ Len(c) = Len(a) + Len(b)
    /\ \A n \in 1 .. Len(a) : c[n] = a[n]
    /\ \A n \in 1 .. Len(b) : c[Len(a) + n] = b[n]

LEMMA Joined ==
  ASSUME NEW S, NEW a \in Seq(S), NEW b \in Seq(S), NEW c, c = a \o b
  PROVE  Join(S, a, b, c)
<1>1. Len(a) \in Nat /\ Len(b) \in Nat
  OBVIOUS
<1>2. c \in Seq(S) /\ Len(c) = Len(a) + Len(b)
  OBVIOUS
<1>3. \A n \in 1 .. Len(a) : c[n] = a[n]
  OBVIOUS
<1>4. ASSUME NEW n \in 1 .. Len(b) PROVE c[Len(a) + n] = b[n]
  BY <1>1
<1>5. QED
  BY <1>2, <1>3, <1>4 DEF Join

(* The new list of entries of the calls. *)
ListWith(E, l, new, T) == [E EXCEPT ![l].nextDir = new] \o T

Listed(E, l, new, T, F) ==
    /\ F \in Seq(EntryType) /\ Len(F) = Len(E) + Len(T) /\ Later(E, F)
    /\ \A d \in 1 .. Len(E) : E[d].nextDir = None =>
         F[d].nextDir = IF d = l THEN new ELSE None
    /\ \A t \in 1 .. Len(T) : F[Len(E) + t] = T[t]

LEMMA LinkedList ==
  ASSUME NEW E \in Seq(EntryType), NEW l \in 1 .. Len(E), NEW new \in Nat, E[l].nextDir = None,
         NEW T \in Seq(EntryType),
         NEW F, F = ListWith(E, l, new, T)
  PROVE  Listed(E, l, new, T, F)
<1> DEFINE L == [E EXCEPT ![l].nextDir = new]
           x == [E[l] EXCEPT !.nextDir = new]
<1>1. E[l] \in EntryType
  OBVIOUS
<1>2. x \in EntryType /\ x.nextDir = new /\ x.name = E[l].name /\ x.file = E[l].file
      /\ x.extent = E[l].extent
  BY <1>1 DEF EntryType
<1>3. L = [E EXCEPT ![l] = x]
  OBVIOUS
<1> HIDE DEF x, L
<1>4. L \in Seq(EntryType) /\ Len(L) = Len(E)
      /\ L[l] = x /\ \A d \in 1 .. Len(E) : d # l => L[d] = E[d]
  BY <1>2, <1>3
<1>5. F \in Seq(EntryType) /\ Len(F) = Len(E) + Len(T)
      /\ (\A d \in 1 .. Len(E) : F[d] = L[d]) /\ \A t \in 1 .. Len(T) : F[Len(E) + t] = T[t]
  <2>1. F = L \o T
    BY DEF L, ListWith
  <2>2. Len(E) \in Nat /\ Len(T) \in Nat
    OBVIOUS
  <2> HIDE DEF L
  <2>3. Join(EntryType, L, T, F)
    BY <1>4, <2>1, Joined
  <2>4. QED
    BY <1>4, <2>3 DEF Join
<1>6. \A d \in 1 .. Len(E) :
        /\ F[d].name = E[d].name /\ F[d].file = E[d].file /\ F[d].extent = E[d].extent
        /\ F[d].nextDir = IF d = l THEN new ELSE E[d].nextDir
  BY <1>2, <1>4, <1>5
<1>7. Len(E) <= Len(F)
  <2>1. Len(E) \in Nat /\ Len(T) \in Nat
    OBVIOUS
  <2>2. QED
    BY <1>5, <2>1
<1>8. Later(E, F)
  BY <1>6, <1>7 DEF Later
<1>9. QED
  BY <1>5, <1>6, <1>8 DEF Listed

(* What findDir returns is missing, a file or the first entry of a         *)
(* directory.                                                              *)
LEMMA DirFound ==
  ASSUME Tree(entries), NEW owner, Owned(entries, owner), NEW path, Len(path) \in Nat
  PROVE  /\ findDir(path) \in 0 .. Len(entries)
         /\ findDir(path) # None /\ ~IsFile(findDir(path)) => First(entries, owner, findDir(path))
<1> DEFINE w == Walk(entries, path)[Len(path)]
<1>1. w \in Places(entries) /\ Placed(entries, owner, w)
  BY WalkStep
<1>2. findDir(path) = w.at
  BY FindDirNow
<1> HIDE DEF w
<1>3. QED
  BY <1>1, <1>2 DEF Places, Placed, IsFile

LEMMA EntryTyped ==
  ASSUME NEW next \in Nat, NEW extent \in Nat, NEW name \in Names \union {".", ".."},
         NEW file \in BOOLEAN
  PROVE  Entry(next, extent, name, file) \in EntryType
  BY DEF Entry, EntryType

LEMMA MkFileTree ==
  ASSUME Tree(entries), NEW path \in Paths, NEW name \in FileNames, mkFile(path, name)
  PROVE  Tree(entries') /\ Later(entries, entries')
<1> DEFINE E == entries
           dir == findDir(path)
           n == Len(entries)
           x == Entry(None, None, name, TRUE)
<1>1. path \in Seq(Names)
  BY PathsType
<1>2. PICK owner : Owned(E, owner)
  BY DEF Tree
<1>3. E \in Seq(EntryType) /\ Chains(E) /\ n \in Nat /\ None = 0
  BY DEF Tree, Chains, None
<1>4. CASE dir = None
  <2>1. entries' = entries
    BY <1>4 DEF mkFile
  <2>2. Later(entries, entries')
    BY <1>3, <2>1 DEF Later
  <2>3. QED
    BY <2>1, <2>2
<1>5. CASE dir # None
  <2>1. First(E, owner, dir)
    <3>1. ~IsFile(dir)
      BY DEF mkFile
    <3>2. Len(path) \in Nat
      BY <1>1
    <3>3. QED
      BY <1>2, <1>5, <3>1, <3>2, DirFound
  <2> DEFINE l == LastIn(E, dir)
  <2>2. l \in 1 .. n /\ E[l].nextDir = None
    <3>1. dir \in 1 .. n
      BY <2>1 DEF First
    <3>2. QED
      BY <1>2, <1>3, <3>1, LastFound
  <2>3. x \in EntryType /\ x.nextDir = None /\ x.file
    <3>1. name \in Names \union {".", ".."}
      BY DEF Names
    <3>2. x \in EntryType
      BY <1>3, <3>1, EntryTyped
    <3>3. QED
      BY <3>2 DEF Entry
  <2>4. entries' = [E EXCEPT ![l].nextDir = n + 1] \o <<x>>
    BY <1>5, LastNow DEF mkFile, Linked
  <2> DEFINE T == <<x>>
             F == entries'
  <2> HIDE DEF x
  <2>5. T \in Seq(EntryType) /\ Len(T) = 1 /\ T[1] = x
    BY <2>3
  <2> DEFINE new == n + 1
  <2>6. new \in Nat /\ F = ListWith(E, l, new, T)
    BY <1>3, <2>4 DEF ListWith
  <2> HIDE DEF new, T, F, l, E, dir
  <2>7. Listed(E, l, new, T, F)
    <3>1. Len(E) = n
      BY DEF E
    <3>2. QED
      BY <1>3, <2>2, <2>5, <2>6, <3>1, LinkedList
  <2>8. Tree(E) /\ Len(E) = n
    BY DEF E
  <2>9. F[Len(E) + 1] = x /\ Len(F) = Len(E) + 1
    BY <2>5, <2>7 DEF Listed
  <2>10. Tree(F)
    BY <1>2, <2>1, <2>3, <2>7, <2>8, <2>9, FileMade DEF l, new, Listed
  <2>11. QED
    BY <2>7, <2>10 DEF E, F, Listed
<1>6. QED
  BY <1>4, <1>5

LEMMA MkDirTree ==
  ASSUME Tree(entries), NEW path \in Paths, NEW name \in DirNames, mkDir(path, name)
  PROVE  Tree(entries') /\ Later(entries, entries')
<1> DEFINE E == entries
           parent == findDir(path)
           n == Len(entries)
           x == Entry(n + 2, n + 1, ".", FALSE)
           y == Entry(None, parent, "..", FALSE)
           z == Entry(None, n + 1, name, FALSE)
<1>1. path \in Seq(Names)
  BY PathsType
<1>2. PICK owner : Owned(E, owner)
  BY DEF Tree
<1>3. E \in Seq(EntryType) /\ Chains(E) /\ n \in Nat /\ None = 0
  BY DEF Tree, Chains, None
<1>4. CASE parent = None
  <2>1. entries' = entries
    BY <1>4 DEF mkDir
  <2>2. Later(entries, entries')
    BY <1>3, <2>1 DEF Later
  <2>3. QED
    BY <2>1, <2>2
<1>5. CASE parent # None
  <2>1. First(E, owner, parent)
    <3>1. ~IsFile(parent)
      BY DEF mkDir
    <3>2. Len(path) \in Nat
      BY <1>1
    <3>3. QED
      BY <1>2, <1>5, <3>1, <3>2, DirFound
  <2> DEFINE l == LastIn(E, parent)
  <2>2. parent \in 1 .. n
    BY <2>1 DEF First
  <2>3. l \in 1 .. n /\ E[l].nextDir = None
    BY <1>2, <1>3, <2>2, LastFound
  <2>4. name \in Names
    BY DEF Names
  <2>5. x \in EntryType /\ y \in EntryType /\ z \in EntryType
    <3>1. n + 1 \in Nat /\ n + 2 \in Nat /\ None \in Nat /\ parent \in Nat
      BY <1>3, <2>2
    <3>2. QED
      BY <2>4, <3>1, EntryTyped
  <2>6. entries' = [E EXCEPT ![l].nextDir = n + 3] \o <<x, y, z>>
    BY <1>5, LastNow DEF mkDir, Linked
  <2> DEFINE T == <<x, y, z>>
             F == entries'
  <2> HIDE DEF x, y, z
  <2>7. T \in Seq(EntryType) /\ Len(T) = 3 /\ T[1] = x /\ T[2] = y /\ T[3] = z
    BY <2>5
  <2> DEFINE new == n + 3
  <2>8. new \in Nat /\ F = ListWith(E, l, new, T)
    BY <1>3, <2>6 DEF ListWith
  <2> HIDE DEF new, T, F, l, E, parent
  <2>9. Listed(E, l, new, T, F)
    <3>1. Len(E) = n
      BY DEF E
    <3>2. QED
      BY <1>3, <2>3, <2>7, <2>8, <3>1, LinkedList
  <2>10. Tree(E) /\ Len(E) = n
    BY DEF E
  <2>11. Len(F) = Len(E) + 3 /\ F[Len(E) + 1] = x /\ F[Len(E) + 2] = y /\ F[Len(E) + 3] = z
    BY <2>7, <2>9 DEF Listed
  <2>12. /\ F[Len(E) + 1] = Entry(Len(E) + 2, Len(E) + 1, ".", FALSE)
         /\ F[Len(E) + 2] = Entry(None, parent, "..", FALSE)
         /\ F[Len(E) + 3] = Entry(None, Len(E) + 1, name, FALSE)
    BY <2>10, <2>11 DEF x, y, z
  <2>13. \A d \in 1 .. Len(E) : E[d].nextDir = None =>
           F[d].nextDir = IF d = LastIn(E, parent) THEN Len(E) + 3 ELSE None
    BY <2>9, <2>10 DEF l, new, Listed
  <2>14. F \in Seq(EntryType) /\ Len(F) = Len(E) + 3 /\ Later(E, F)
    BY <2>9, <2>11 DEF Listed
  <2>15. DirAdded(E, parent, name, F)
    BY <2>12, <2>13, <2>14 DEF DirAdded
  <2>16. Tree(F)
    BY <1>2, <2>1, <2>4, <2>10, <2>15, DirMade
  <2>17. QED
    BY <2>14, <2>16 DEF E, F
<1>6. QED
  BY <1>4, <1>5

LEMMA WriteTree ==
  ASSUME Tree(entries), NEW path \in Paths, NEW value \in Values, writeFS(path, value)
  PROVE  Tree(entries') /\ Later(entries, entries')
<1> DEFINE E == entries
           f == findDir(path)
           x == [E[f] EXCEPT !.data = value]
           F == [E EXCEPT ![f] = x]
<1>1. Len(path) \in Nat
  BY PathsType
<1>2. PICK owner : Owned(E, owner)
  BY DEF Tree
<1>3. E \in Seq(EntryType) /\ Len(E) \in Nat /\ None = 0
  BY DEF Tree, Chains, None
<1>4. f # None
  BY DEF writeFS, IsFile
<1>5. f \in 1 .. Len(E)
  BY <1>1, <1>2, <1>3, <1>4, DirFound
<1>6. entries' = F
  BY DEF writeFS
<1> HIDE DEF f
<1>7. E[f] \in EntryType
  BY <1>3, <1>5
<1>8. x \in EntryType /\ x.nextDir = E[f].nextDir /\ x.name = E[f].name /\ x.file = E[f].file
      /\ x.extent = E[f].extent
  BY <1>7 DEF EntryType
<1> HIDE DEF x
<1>9. F \in Seq(EntryType) /\ Len(F) = Len(E) /\ F[f] = x /\ \A d \in 1 .. Len(E) : d # f => F[d] = E[d]
  BY <1>3, <1>5, <1>8
<1> HIDE DEF F
<1>10. \A d \in 1 .. Len(E) :
         /\ F[d].name = E[d].name /\ F[d].file = E[d].file /\ F[d].extent = E[d].extent
         /\ F[d].nextDir = E[d].nextDir
  BY <1>8, <1>9
<1>11. Later(E, F)
  BY <1>3, <1>9, <1>10 DEF Later
<1>12. Tree(F)
  BY <1>9, <1>10, <1>11, FileWritten
<1>13. QED
  BY <1>6, <1>11, <1>12

LEMMA RamfsNextTree ==
  ASSUME Tree(entries), RamfsNext
  PROVE  Tree(entries') /\ Later(entries, entries')
  BY MkDirTree, MkFileTree, WriteTree DEF RamfsNext

-----------------------------------------------------------------------------
(* The file system that open comes to: the first one mounted, for a name   *)
(* whose first part is compared and is "BOOT".                             *)
MountType == [mountpoint : {Boot}, drive : Position]

LEMMA MountFound ==
  ASSUME mounts \in Seq(MountType), NEW path \in Seq(STRING), NEW longest \in 0 .. Len(path)
  PROVE  mountOf(path, longest) = IF longest >= 1 /\ mounts # <<>> /\ path[1] = "BOOT" THEN 1 ELSE 0
<1> DEFINE InMounts(n) == {m \in DOMAIN mounts : mounts[m].mountpoint = SubSeq(path, 1, n)}
           First1(n) == CHOOSE m \in InMounts(n) : \A o \in InMounts(n) : m <= o
           Body(f) == [n \in 0 .. Len(path) |->
                         IF n = 0 THEN 0 ELSE IF InMounts(n) = {} THEN f[n - 1] ELSE First1(n)]
           g == CHOOSE f : f = Body(f)
           B == mounts # <<>> /\ path[1] = "BOOT"
           Val(n) == IF n >= 1 /\ B THEN 1 ELSE 0
           v == [n \in 0 .. Len(path) |-> Val(n)]
<1>1. Len(path) \in Nat /\ Len(mounts) \in Nat /\ DOMAIN mounts = 1 .. Len(mounts)
      /\ (mounts # <<>> <=> Len(mounts) >= 1)
  OBVIOUS
<1>2. \A m \in 1 .. Len(mounts) : mounts[m].mountpoint = <<"BOOT">>
  <2>1. ASSUME NEW m \in 1 .. Len(mounts) PROVE mounts[m].mountpoint = <<"BOOT">>
    <3>1. mounts[m] \in MountType
      BY <1>1
    <3>2. mounts[m].mountpoint \in {Boot}
      BY <3>1 DEF MountType
    <3>3. QED
      BY <3>2 DEF Boot
  <2>2. QED
    BY <2>1
<1>3. ASSUME NEW n \in 1 .. Len(path)
      PROVE  SubSeq(path, 1, n) = <<"BOOT">> <=> (n = 1 /\ path[1] = "BOOT")
  <2>1. SubSeq(path, 1, n) = [j \in 1 .. n |-> path[j]]
    BY <1>1
  <2>2. <<"BOOT">> = [j \in 1 .. 1 |-> "BOOT"]
    OBVIOUS
  <2>3. ASSUME SubSeq(path, 1, n) = <<"BOOT">>
        PROVE  n = 1 /\ path[1] = "BOOT"
    <3>1. Len(SubSeq(path, 1, n)) = n /\ SubSeq(path, 1, n)[1] = path[1]
      <4> DEFINE s == [j \in 1 .. n |-> path[j]]
      <4>1. Len(s) = n /\ s[1] = path[1]
        BY <1>1
      <4>2. QED
        BY <2>1, <4>1
    <3>2. Len(<<"BOOT">>) = 1 /\ <<"BOOT">>[1] = "BOOT"
      OBVIOUS
    <3>3. QED
      BY <2>3, <3>1, <3>2
  <2>4. ASSUME n = 1, path[1] = "BOOT"
        PROVE  SubSeq(path, 1, n) = <<"BOOT">>
    <3>1. \A j \in 1 .. n : path[j] = "BOOT"
      BY <2>4
    <3>2. [j \in 1 .. n |-> path[j]] = [j \in 1 .. n |-> "BOOT"]
      BY <3>1
    <3>3. QED
      BY <2>1, <2>2, <2>4, <3>2
  <2>5. QED
    BY <2>3, <2>4
<1>4. ASSUME NEW n \in 1 .. Len(path)
      PROVE  InMounts(n) = IF n = 1 /\ path[1] = "BOOT" THEN 1 .. Len(mounts) ELSE {}
  BY <1>1, <1>2, <1>3
<1>5. ASSUME NEW n \in 1 .. Len(path)
      PROVE  IF n = 1 /\ B THEN InMounts(n) # {} /\ First1(n) = 1 ELSE InMounts(n) = {}
  <2>1. CASE n = 1 /\ B
    <3>1. InMounts(n) = 1 .. Len(mounts) /\ Len(mounts) >= 1
      BY <1>1, <1>4, <2>1
    <3> HIDE DEF InMounts
    <3>2. 1 \in InMounts(n) /\ \A o \in InMounts(n) : 1 <= o
      BY <1>1, <3>1
    <3>3. First1(n) \in InMounts(n) /\ \A o \in InMounts(n) : First1(n) <= o
      BY <3>2
    <3> HIDE DEF First1
    <3>4. First1(n) \in 1 .. Len(mounts) /\ First1(n) <= 1
      BY <3>1, <3>2, <3>3
    <3>5. QED
      BY <1>1, <2>1, <3>2, <3>4
  <2>2. CASE ~(n = 1 /\ B)
    <3>1. InMounts(n) = {}
      <4> HIDE DEF InMounts
      <4>1. CASE n = 1 /\ path[1] = "BOOT"
        <5>1. 1 .. Len(mounts) = {}
          BY <1>1, <2>2, <4>1
        <5>2. QED
          BY <1>4, <4>1, <5>1
      <4>2. CASE ~(n = 1 /\ path[1] = "BOOT")
        BY <1>4, <4>2
      <4>3. QED
        BY <4>1, <4>2
    <3>2. QED
      BY <2>2, <3>1
  <2>3. QED
    BY <2>1, <2>2
<1> HIDE DEF InMounts, First1, B
<1>6. v = Body(v)
  <2>1. ASSUME NEW n \in 0 .. Len(path)
        PROVE  v[n] = IF n = 0 THEN 0 ELSE IF InMounts(n) = {} THEN v[n - 1] ELSE First1(n)
    <3>1. CASE n = 0
      BY <3>1
    <3>2. CASE n = 1
      BY <1>1, <1>5, <3>2
    <3>3. CASE n > 1
      BY <1>1, <1>5, <3>3
    <3>4. QED
      BY <1>1, <3>1, <3>2, <3>3
  <2>2. QED
    BY <2>1
<1>7. g = Body(g)
  <2> HIDE DEF Body, v
  <2>1. QED
    BY <1>6
<1>8. mountOf(path, longest) = g[longest]
  BY DEF mountOf, InMounts, First1
<1> HIDE DEF g
<1>9. \A n \in 0 .. Len(path) :
        g[n] = IF n = 0 THEN 0 ELSE IF InMounts(n) = {} THEN g[n - 1] ELSE First1(n)
  BY <1>7
<1> DEFINE P == {n \in 0 .. Len(path) : g[n] = Val(n)}
<1>10. 0 \in P
  BY <1>1, <1>9
<1>11. ASSUME NEW n \in 1 .. Len(path), n - 1 \in P
       PROVE  n \in P
  <2>1. CASE n = 1
    BY <1>5, <1>9, <1>11, <2>1
  <2>2. CASE n > 1
    BY <1>1, <1>5, <1>9, <1>11, <2>2
  <2>3. QED
    BY <1>1, <2>1, <2>2
<1> HIDE DEF P
<1>12. \A n \in 0 .. Len(path) : n \in P
  BY <1>1, <1>10, <1>11, PathInduction
<1>13. g[longest] = Val(longest)
  BY <1>12 DEF P
<1>14. QED
  BY <1>8, <1>13 DEF B

-----------------------------------------------------------------------------
(* The walk of findFile. *)
Wanted(w, name) == w.file \/ name \in Dotted
Hits(disc, w, name) == Matches(disc, w.dir, name, Wanted(w, name))
Look(disc, w, name) ==
    IF w.lba # NotFound \/ Hits(disc, w, name) = {} THEN [w EXCEPT !.file = Wanted(w, name)]
    ELSE IF Wanted(w, name) THEN [w EXCEPT !.lba = (CHOOSE e \in Hits(disc, w, name) : TRUE).lba]
    ELSE [w EXCEPT !.dir = (CHOOSE e \in Hits(disc, w, name) : TRUE).lba]

Start(disc, file) == [dir |-> rootOf(disc), file |-> file, lba |-> NotFound]

Trail(disc, path, file) ==
    CHOOSE walk : walk = [n \in 0 .. Len(path) |->
                            IF n = 0 THEN Start(disc, file) ELSE Look(disc, walk[n - 1], path[n])]

Lookups == [dir : Nat, file : BOOLEAN, lba : Nat]

LEMMA FindFileNow ==
  ASSUME NEW disc, NEW path, NEW file
  PROVE  findFile(disc, path, file) = Trail(disc, path, file)[Len(path)].lba
  BY DEF findFile, Trail, Look, Hits, Wanted, Start

(* The root directory's sector, as findFile decodes it, is a number; below *)
(* 256 it is the right one.                                                *)
LEMMA RootType ==
  ASSUME NEW p \in Position
  PROVE  /\ rootOf(Discs[p]) \in Nat
         /\ Discs[p].root < 256 => rootOf(Discs[p]) = Discs[p].root
<1> DEFINE r == Discs[p].root
<1>1. r \in Nat
  <2>1. r \in 0 .. Discs[p].size - 1 /\ Discs[p].size \in Nat
    BY DrivesAssumption
  <2>2. QED
    BY <2>1
<1>2. rootOf(Discs[p]) = Byte(r, 1) + 256 * Byte(r, 65536) + 65536 * Byte(r, 16777216) + 16777216 * Byte(r, 256)
  BY DEF rootOf
<1> HIDE DEF r
<1>3. /\ Byte(r, 1) \in Nat /\ Byte(r, 256) \in Nat
      /\ Byte(r, 65536) \in Nat /\ Byte(r, 16777216) \in Nat
  BY <1>1 DEF Byte
<1>4. ASSUME r < 256
      PROVE  /\ Byte(r, 1) = r /\ Byte(r, 256) = 0
             /\ Byte(r, 65536) = 0 /\ Byte(r, 16777216) = 0
  BY <1>1, <1>4 DEF Byte
<1>5. QED
  BY <1>1, <1>2, <1>3, <1>4 DEF r

(* What a hit is. *)
LEMMA HitFound ==
  ASSUME NEW p \in Position, NEW w \in Lookups, NEW name, NEW e \in Hits(Discs[p], w, name)
  PROVE  /\ e \in Discs[p].entries /\ e.dir = w.dir /\ e.name = name /\ e.file = Wanted(w, name)
         /\ e.lba \in Nat /\ e.lba # NotFound
         /\ (CHOOSE d \in Hits(Discs[p], w, name) : TRUE) = e
<1>1. \A d \in Hits(Discs[p], w, name) :
        d \in Discs[p].entries /\ d.dir = w.dir /\ d.name = name /\ d.file = Wanted(w, name)
  BY DEF Hits, Matches
<1>2. e.lba \in Nat /\ e.lba # NotFound
  <2>1. e.lba \in 1 .. Discs[p].size - 1 /\ Discs[p].size \in Nat
    BY <1>1, DrivesAssumption
  <2>2. QED
    BY <2>1 DEF NotFound
<1>3. \A d \in Hits(Discs[p], w, name) : d = e
  BY <1>1, DrivesAssumption
<1>4. (CHOOSE d \in Hits(Discs[p], w, name) : TRUE) \in Hits(Discs[p], w, name)
  OBVIOUS
<1>5. QED
  BY <1>1, <1>2, <1>3, <1>4

(* One name: nothing but the wish for a file changes, or the entry of that *)
(* name is taken.                                                          *)
LEMMA Looked ==
  ASSUME NEW p \in Position, NEW w \in Lookups, NEW name
  PROVE  /\ Look(Discs[p], w, name) \in Lookups
         /\ \/ Look(Discs[p], w, name).lba = w.lba
            \/ \E e \in Discs[p].entries : e.file /\ e.lba = Look(Discs[p], w, name).lba /\ e.name = name
<1> DEFINE hits == Hits(Discs[p], w, name)
           hit == CHOOSE e \in hits : TRUE
<1>1. Wanted(w, name) \in BOOLEAN
  BY DEF Wanted, Lookups
<1>2. w.dir \in Nat /\ w.file \in BOOLEAN /\ w.lba \in Nat
      /\ w = [dir |-> w.dir, file |-> w.file, lba |-> w.lba]
  BY DEF Lookups
<1>3. CASE w.lba # NotFound \/ hits = {}
  <2>1. Look(Discs[p], w, name) = [w EXCEPT !.file = Wanted(w, name)]
    BY <1>3 DEF Look
  <2>2. QED
    BY <1>1, <1>2, <2>1 DEF Lookups
<1>4. CASE ~(w.lba # NotFound \/ hits = {})
  <2>1. hit \in hits
    BY <1>4
  <2>2. hit \in Discs[p].entries /\ hit.name = name /\ hit.file = Wanted(w, name) /\ hit.lba \in Nat
    <3> HIDE DEF hit
    <3>1. QED
      BY <2>1, HitFound
  <2>3. CASE Wanted(w, name)
    <3>1. Look(Discs[p], w, name) = [w EXCEPT !.lba = hit.lba]
      BY <1>4, <2>3 DEF Look
    <3> HIDE DEF hit
    <3>2. Look(Discs[p], w, name) \in Lookups /\ Look(Discs[p], w, name).lba = hit.lba
      BY <1>2, <2>2, <3>1 DEF Lookups
    <3>3. QED
      BY <2>2, <2>3, <3>2
  <2>4. CASE ~Wanted(w, name)
    <3>1. Look(Discs[p], w, name) = [w EXCEPT !.dir = hit.lba]
      BY <1>4, <2>4 DEF Look
    <3> HIDE DEF hit
    <3>2. QED
      BY <1>2, <2>2, <3>1 DEF Lookups
  <2>5. QED
    BY <2>3, <2>4
<1>5. QED
  BY <1>3, <1>4

(* The equation of the walk. *)
LEMMA TrailStep ==
  ASSUME NEW p \in Position, NEW path, Len(path) \in Nat, NEW file \in BOOLEAN,
         NEW t, t = Trail(Discs[p], path, file)
  PROVE  /\ t[0] = Start(Discs[p], file)
         /\ \A n \in 1 .. Len(path) : t[n] = Look(Discs[p], t[n - 1], path[n])
         /\ \A n \in 0 .. Len(path) : t[n] \in Lookups
<1> DEFINE N == Len(path)
           S == Lookups
           G == [n \in 1 .. N |-> [w \in S |-> Look(Discs[p], w, path[n])]]
           Body(f) == [n \in 0 .. N |-> IF n = 0 THEN Start(Discs[p], file) ELSE Look(Discs[p], f[n - 1], path[n])]
           g == CHOOSE f : f = Body(f)
<1>1. Start(Discs[p], file) \in S
  BY RootType DEF Start, Lookups, NotFound
<1>2. \A w \in S : \A name : Look(Discs[p], w, name) \in S
  BY Looked
<1> HIDE DEF S
<1>3. G \in [1 .. N -> [S -> S]]
  BY <1>2
<1>4. \A n \in 1 .. N : \A w \in S : G[n][w] = Look(Discs[p], w, path[n])
  OBVIOUS
<1> HIDE DEF G
<1>5. PICK f : Follows(N, S, Start(Discs[p], file), G, f)
  BY <1>1, <1>3, PathRecursion
<1>6. \A n \in 1 .. N : f[n] = Look(Discs[p], f[n - 1], path[n])
  <2>1. ASSUME NEW n \in 1 .. N PROVE f[n] = Look(Discs[p], f[n - 1], path[n])
    <3>1. n - 1 \in 0 .. N
      OBVIOUS
    <3>2. f[n - 1] \in S
      BY <1>5, <3>1 DEF Follows
    <3>3. QED
      BY <1>4, <1>5, <3>2 DEF Follows
  <2>2. QED
    BY <2>1
<1>7. f = Body(f)
  <2>1. \A n \in 0 .. N : f[n] = IF n = 0 THEN Start(Discs[p], file) ELSE Look(Discs[p], f[n - 1], path[n])
    BY <1>5, <1>6 DEF Follows
  <2>2. f = [n \in 0 .. N |-> f[n]]
    BY <1>5 DEF Follows
  <2>3. QED
    BY <2>1, <2>2
<1>8. g = Body(g)
  <2> HIDE DEF Body
  <2>1. QED
    BY <1>7
<1>9. t = g
  BY DEF Trail
<1> HIDE DEF g
<1>10. g[0] = Start(Discs[p], file) /\ \A n \in 1 .. N : g[n] = Look(Discs[p], g[n - 1], path[n])
  <2>1. \A n \in 0 .. N : g[n] = IF n = 0 THEN Start(Discs[p], file) ELSE Look(Discs[p], g[n - 1], path[n])
    BY <1>8
  <2>2. QED
    BY <2>1
<1> DEFINE P == {n \in 0 .. N : g[n] \in S}
<1>11. 0 \in P
  BY <1>1, <1>10
<1>12. ASSUME NEW n \in 1 .. N, n - 1 \in P PROVE n \in P
  BY <1>2, <1>10, <1>12
<1> HIDE DEF P
<1>13. \A n \in 0 .. N : n \in P
  BY <1>11, <1>12, PathInduction
<1>14. \A n \in 0 .. N : g[n] \in Lookups
  BY <1>13 DEF P, S
<1>15. QED
  BY <1>9, <1>10, <1>14

(* The file found has a name of the path. *)
LEMMA FileNamed ==
  ASSUME NEW p \in Position, NEW path, Len(path) \in Nat, NEW file \in BOOLEAN,
         findFile(Discs[p], path, file) # NotFound
  PROVE  \E e \in Discs[p].entries, n \in 1 .. Len(path) :
           e.file /\ e.lba = findFile(Discs[p], path, file) /\ e.name = path[n]
<1> DEFINE t == Trail(Discs[p], path, file)
           Named2(l) == \E e \in Discs[p].entries, n \in 1 .. Len(path) :
                          e.file /\ e.lba = l /\ e.name = path[n]
           P == {n \in 0 .. Len(path) : t[n].lba # NotFound => Named2(t[n].lba)}
<1>1. findFile(Discs[p], path, file) = t[Len(path)].lba
  BY FindFileNow
<1> HIDE DEF t
<1>2. /\ t[0] = Start(Discs[p], file)
      /\ \A n \in 1 .. Len(path) : t[n] = Look(Discs[p], t[n - 1], path[n])
      /\ \A n \in 0 .. Len(path) : t[n] \in Lookups
  BY TrailStep DEF t
<1>3. 0 \in P
  BY <1>2 DEF Start
<1>4. ASSUME NEW n \in 1 .. Len(path), n - 1 \in P
      PROVE  n \in P
  <2>1. n - 1 \in 0 .. Len(path)
    OBVIOUS
  <2>2. t[n - 1] \in Lookups /\ t[n] = Look(Discs[p], t[n - 1], path[n])
    BY <1>2, <2>1
  <2> DEFINE w == t[n - 1]
  <2> HIDE DEF w
  <2>3. w \in Lookups
    BY <2>2 DEF w
  <2>4. Look(Discs[p], w, path[n]).lba = w.lba
        \/ \E e \in Discs[p].entries : e.file /\ e.lba = Look(Discs[p], w, path[n]).lba /\ e.name = path[n]
    BY <2>3, Looked
  <2>5. t[n].lba = t[n - 1].lba \/ Named2(t[n].lba)
    BY <2>2, <2>4 DEF w
  <2> HIDE DEF Named2
  <2>6. QED
    BY <1>4, <2>1, <2>5
<1> HIDE DEF P
<1>5. \A n \in 0 .. Len(path) : n \in P
  BY <1>3, <1>4, PathInduction
<1>6. Named2(t[Len(path)].lba)
  BY <1>1, <1>5 DEF P
<1>7. QED
  BY <1>1, <1>6

(* Where records lead to a file, and no file is looked for from the start, *)
(* every name before the last takes its directory and the last the file.   *)
LEMMA FileLed ==
  ASSUME NEW p \in Position, NEW path, Len(path) \in Nat, DOMAIN path = 1 .. Len(path),
         NEW at \in [DOMAIN path -> Discs[p].entries],
         Leads(Discs[p], path, at), Simple(Discs[p], path, at)
  PROVE  findFile(Discs[p], path, FALSE) = at[Len(path)].lba
<1> DEFINE t == Trail(Discs[p], path, FALSE)
           N == Len(path)
           e == at[N]
<1>1. findFile(Discs[p], path, FALSE) = t[N].lba
  BY FindFileNow
<1> HIDE DEF t
<1>2. /\ t[0] = Start(Discs[p], FALSE)
      /\ \A n \in 1 .. N : t[n] = Look(Discs[p], t[n - 1], path[n])
      /\ \A n \in 0 .. N : t[n] \in Lookups
  BY TrailStep DEF t
<1>3. /\ at \in [1 .. N -> Discs[p].entries]
      /\ path # <<>> /\ at[1].dir = rootOf(Discs[p]) /\ at[N] = e /\ e.file
      /\ \A n \in 1 .. N : at[n].name = path[n]
      /\ \A n \in 1 .. N - 1 : ~at[n].file /\ at[n + 1].dir = at[n].lba
  <2>1. at[1].dir = rootOf(Discs[p])
    BY RootType DEF Simple
  <2>2. QED
    BY <2>1 DEF Leads, Simple
<1> HIDE DEF e
<1>4. N >= 1
  <2>1. SUFFICES ASSUME N = 0 PROVE FALSE
    OBVIOUS
  <2>2. path \in [1 .. N -> {}] /\ path = <<>>
    BY <1>3, <2>1
  <2>3. QED
    BY <1>3, <2>2
<1> DEFINE Here(n) == [dir |-> IF n = 0 THEN rootOf(Discs[p]) ELSE at[n].lba, file |-> FALSE, lba |-> NotFound]
           P == {n \in 0 .. N - 1 : t[n] = Here(n)}
<1>5. 0 \in P
  BY <1>2, <1>4 DEF Start
<1>6. ASSUME NEW n \in 1 .. N, t[n - 1] = Here(n - 1)
      PROVE  /\ t[n - 1] \in Lookups
             /\ Wanted(t[n - 1], path[n]) = at[n].file
             /\ at[n] \in Hits(Discs[p], t[n - 1], path[n])
             /\ t[n] = Look(Discs[p], t[n - 1], path[n])
             /\ t[n - 1].lba = NotFound
  <2>1. n - 1 \in 0 .. N
    BY <1>4
  <2>2. t[n - 1] \in Lookups
    BY <1>2, <2>1
  <2>3. t[n - 1].file = FALSE /\ t[n - 1].lba = NotFound
        /\ t[n - 1].dir = IF n - 1 = 0 THEN rootOf(Discs[p]) ELSE at[n - 1].lba
    BY <1>6
  <2>4. at[n] \in Discs[p].entries /\ at[n].name = path[n] /\ at[n].file = (path[n] \in Dotted)
    BY <1>3, DrivesAssumption
  <2>5. at[n].dir = t[n - 1].dir
    <3>1. CASE n = 1
      BY <1>3, <2>3, <3>1
    <3>2. CASE n # 1
      <4>1. n - 1 \in 1 .. N - 1 /\ n - 1 + 1 = n /\ n - 1 # 0
        BY <3>2
      <4>2. at[n - 1 + 1].dir = at[n - 1].lba
        BY <1>3, <4>1
      <4>3. QED
        BY <2>3, <4>1, <4>2
    <3>3. QED
      BY <3>1, <3>2
  <2>6. Wanted(t[n - 1], path[n]) = at[n].file
    <3>1. CASE path[n] \in Dotted
      <4>1. at[n].file = TRUE
        BY <2>4, <3>1, Zenon
      <4>2. Wanted(t[n - 1], path[n]) = TRUE
        BY <3>1, Zenon DEF Wanted
      <4>3. QED
        BY <4>1, <4>2, Zenon
    <3>2. CASE path[n] \notin Dotted
      <4>1. at[n].file = FALSE
        <5>1. (path[n] \in Dotted) = FALSE
          BY <3>2
        <5>2. QED
          BY <2>4, <5>1
      <4>2. Wanted(t[n - 1], path[n]) = FALSE
        BY <2>3, <3>2, Zenon DEF Wanted
      <4>3. QED
        BY <4>1, <4>2, Zenon
    <3>3. QED
      BY <3>1, <3>2
  <2>7. at[n] \in Hits(Discs[p], t[n - 1], path[n])
    BY <2>4, <2>5, <2>6 DEF Hits, Matches
  <2>8. QED
    BY <1>2, <2>2, <2>3, <2>6, <2>7
<1>7. ASSUME NEW n \in 1 .. N - 1, n - 1 \in P
      PROVE  n \in P
  <2>1. n \in 1 .. N /\ t[n - 1] = Here(n - 1) /\ ~at[n].file /\ n # 0
    BY <1>3, <1>7
  <2> DEFINE w == t[n - 1]
             hits == Hits(Discs[p], w, path[n])
             a == at[n]
  <2>2. w \in Lookups /\ ~Wanted(w, path[n]) /\ a \in hits /\ t[n] = Look(Discs[p], w, path[n])
        /\ w.lba = NotFound
    BY <1>6, <2>1
  <2>3. w.file = FALSE
    BY <2>1
  <2> HIDE DEF w, a
  <2>4. (CHOOSE d \in hits : TRUE) = a
    BY <2>2, HitFound
  <2>5. t[n] = [w EXCEPT !.dir = a.lba]
    BY <2>2, <2>4 DEF Look
  <2>6. PICK x : w = [dir |-> x, file |-> FALSE, lba |-> NotFound]
    <3>1. w = [dir |-> w.dir, file |-> w.file, lba |-> w.lba]
      BY <2>2 DEF Lookups
    <3>2. QED
      BY <2>2, <2>3, <3>1
  <2>7. t[n] = [dir |-> a.lba, file |-> FALSE, lba |-> NotFound]
    BY <2>5, <2>6
  <2>8. QED
    BY <2>1, <2>7 DEF a
<1> HIDE DEF P
<1>8. N - 1 \in P
  <2> DEFINE M == N - 1
  <2>1. M \in Nat /\ \A n \in 1 .. M : n - 1 \in P => n \in P
    BY <1>4, <1>7
  <2> HIDE DEF M
  <2>2. \A n \in 0 .. M : n \in P
    BY <1>5, <2>1, PathInduction
  <2>3. M \in P
    BY <2>1, <2>2
  <2>4. QED
    BY <2>3 DEF M
<1>9. t[N - 1] = Here(N - 1)
  BY <1>8 DEF P
<1> DEFINE w == t[N - 1]
           hits == Hits(Discs[p], w, path[N])
<1>10. w \in Lookups /\ Wanted(w, path[N]) /\ e \in hits /\ t[N] = Look(Discs[p], w, path[N])
       /\ w.lba = NotFound
  <2>1. N \in 1 .. N
    BY <1>4
  <2>2. QED
    BY <1>3, <1>6, <1>9, <2>1
<1> HIDE DEF w
<1>11. (CHOOSE d \in hits : TRUE) = e
  BY <1>10, HitFound
<1>12. t[N] = [w EXCEPT !.lba = e.lba]
  BY <1>10, <1>11 DEF Look
<1>13. t[N].lba = e.lba
  BY <1>10, <1>12 DEF Lookups
<1>14. QED
  BY <1>1, <1>3, <1>13

-----------------------------------------------------------------------------
(* The inductive invariant.  DriveInv: the elements of drives probed so    *)
(* far hold what is at their position, the others nothing.                 *)
DriveInv ==
    /\ devices \in [Position -> Kinds] /\ drives \in [Position -> Kinds]
    /\ step \in 0 .. 8 /\ k = IF step < 4 THEN step ELSE 4
    /\ \A p \in Position : IF p < step THEN drives[p] = "atapi" <=> devices[p] = "atapi"
                           ELSE drives[p] = "none"

(* MountInv: what is mounted is the drives passed by the second loop. *)
MountInv ==
    /\ mounts \in Seq(MountType)
    /\ \A m \in 1 .. Len(mounts) : mounts[m].drive + 4 < step /\ drives[mounts[m].drive] = "atapi"
    /\ \A p \in Position : p + 4 < step /\ drives[p] = "atapi" =>
         \E m \in 1 .. Len(mounts) : mounts[m].drive = p
    /\ \A m, o \in 1 .. Len(mounts) : m < o => mounts[m].drive < mounts[o].drive

(* FileInv: a file of a drive has the number findFile returned; one of the *)
(* root file system the entry its path still leads to, or none.            *)
FileType == [fs : {0, 1}, fileNum : Nat, pos : Positions, path : Filenames, stray : BOOLEAN]

FileOk(E, M, disc, f, pos) ==
    /\ f.pos = pos
    /\ f.fs = 1 => /\ M # <<>> /\ f.path # <<>> /\ f.path[1] = "BOOT"
                   /\ f.fileNum = findFile(disc, f.path, f.stray)
    /\ f.fs = 0 => /\ Len(f.path) > 1 /\ M # <<>> => f.path[1] # "BOOT"
                   /\ f.fileNum = None \/ f.fileNum = Walk(E, f.path)[Len(f.path)].at

FileInv ==
    /\ files \in Seq(FileType) /\ sought \in Seq(Positions) /\ Len(sought) = Len(files)
    /\ files # <<>> => step = 8
    /\ \A fd \in 1 .. Len(files) :
         FileOk(entries, mounts, Discs[ReadDrive], files[fd], sought[fd])

VfsInv == Tree(entries) /\ DriveInv /\ MountInv /\ FileInv

LEMMA InitTree == RamfsInit => Tree(entries)
<1> SUFFICES ASSUME RamfsInit PROVE Tree(entries)
  OBVIOUS
<1> DEFINE x == Entry(2, rootDir, ".", FALSE)
           y == Entry(None, rootDir, "..", FALSE)
           owner == [d \in 1 .. 2 |-> 1]
<1>1. rootDir = 1 /\ None = 0 /\ "." \notin Names /\ ".." \notin Names
  BY DEF rootDir, None
<1>2. x \in EntryType /\ y \in EntryType
  BY <1>1, EntryTyped
<1>3. /\ x.nextDir = 2 /\ x.extent = 1 /\ x.name = "." /\ ~x.file
      /\ y.nextDir = 0 /\ y.extent = 1 /\ y.name = ".." /\ ~y.file
  BY <1>1 DEF Entry
<1>4. entries = <<x, y>>
  BY DEF RamfsInit
<1> HIDE DEF x, y
<1>5. entries \in Seq(EntryType) /\ Len(entries) = 2 /\ entries[1] = x /\ entries[2] = y
  BY <1>2, <1>4
<1>6. \A d \in 1 .. 2 : d = 1 \/ d = 2
  OBVIOUS
<1>7. Chains(entries)
  BY <1>1, <1>3, <1>5, <1>6 DEF Chains
<1>8. owner \in [1 .. 2 -> 1 .. 2] /\ owner[1] = 1 /\ owner[2] = 1
  OBVIOUS
<1> HIDE DEF owner
<1>9. First(entries, owner, 1)
  BY <1>3, <1>5, <1>8 DEF First
<1>10. Owned(entries, owner)
  BY <1>1, <1>3, <1>5, <1>6, <1>8, <1>9 DEF Owned
<1>11. QED
  BY <1>1, <1>3, <1>5, <1>7, <1>10 DEF Tree

LEMMA InitInv == Init => VfsInv
<1> SUFFICES ASSUME Init PROVE VfsInv
  OBVIOUS
<1>1. Tree(entries)
  BY InitTree DEF Init
<1>2. DriveInv
  <2>1. devices \in [Position -> Kinds]
    BY DrivesAssumption DEF Init, DrivesInit
  <2>2. "none" \in Kinds
    BY DEF Kinds
  <2>3. drives = [p \in Position |-> "none"] /\ step = 0 /\ k = 0
    BY DEF Init, DrivesInit
  <2>4. QED
    BY <2>1, <2>2, <2>3 DEF DriveInv, Position
<1>3. mounts = <<>> /\ files = <<>> /\ sought = <<>> /\ step = 0
  BY DEF Init, DrivesInit
<1>4. MountInv
  BY <1>3 DEF MountInv, Position
<1>5. FileInv
  BY <1>3 DEF FileInv
<1>6. QED
  BY <1>1, <1>2, <1>4, <1>5 DEF VfsInv

-----------------------------------------------------------------------------
(* The steps of atapiInit. *)
LEMMA NoFilesYet ==
  ASSUME FileInv, step # 8, entries' = entries, files' = files, sought' = sought
  PROVE  FileInv'
<1>1. files = <<>>
  BY DEF FileInv
<1>2. files' = <<>> /\ Len(files') = 0 /\ Len(sought') = 0 /\ sought' \in Seq(Positions)
      /\ files' \in Seq(FileType)
  BY <1>1 DEF FileInv
<1>3. QED
  BY <1>2 DEF FileInv

LEMMA IdentifyInv ==
  ASSUME DriveInv, MountInv, identify, mounts' = mounts
  PROVE  DriveInv' /\ MountInv' /\ step # 8
<1>1. step \in 0 .. 3 /\ k = step /\ step \in Position
  BY DEF DriveInv, identify, Position
<1>2. devices' = devices /\ k' = k + 1 /\ step' = step + 1
      /\ drives' = IF devices[step] = "other" THEN drives ELSE [drives EXCEPT ![step] = devices[step]]
  BY <1>1 DEF identify
<1>3. devices \in [Position -> Kinds] /\ drives \in [Position -> Kinds]
      /\ drives[step] = "none"
  BY <1>1 DEF DriveInv
<1>4. drives' \in [Position -> Kinds] /\ (drives'[step] = "atapi" <=> devices[step] = "atapi")
      /\ \A p \in Position : p # step => drives'[p] = drives[p]
  BY <1>1, <1>2, <1>3
<1>5. ASSUME NEW p \in Position
      PROVE  IF p < step' THEN drives'[p] = "atapi" <=> devices'[p] = "atapi" ELSE drives'[p] = "none"
  <2>1. CASE p = step
    BY <1>1, <1>2, <1>4, <2>1
  <2>2. CASE p # step
    <3>1. p < step' <=> p < step
      BY <1>1, <1>2, <2>2 DEF Position
    <3>2. QED
      BY <1>2, <1>4, <2>2, <3>1 DEF DriveInv
  <2>3. QED
    BY <2>1, <2>2
<1>6. DriveInv'
  BY <1>1, <1>2, <1>3, <1>4, <1>5 DEF DriveInv
<1>7. Len(mounts) = 0 /\ mounts \in Seq(MountType)
  <2>1. mounts \in Seq(MountType) /\ Len(mounts) \in Nat
    BY DEF MountInv
  <2>2. \A m \in 1 .. Len(mounts) : FALSE
    <3>1. ASSUME NEW m \in 1 .. Len(mounts) PROVE FALSE
      <4>1. mounts[m] \in MountType
        BY <2>1
      <4>2. mounts[m].drive \in 0 .. 3
        BY <4>1 DEF MountType, Position
      <4>3. QED
        BY <1>1, <4>2 DEF MountInv
    <3>2. QED
      BY <3>1
  <2>3. QED
    BY <2>1, <2>2
<1>8. MountInv'
  BY <1>1, <1>2, <1>7 DEF MountInv, Position
<1>9. QED
  BY <1>1, <1>6, <1>8

LEMMA IdentifyPacketInv ==
  ASSUME DriveInv, MountInv, identifyPacket,
         mounts' = IF Registers THEN registerFS([mountpoint |-> Boot, drive |-> step - 4]) ELSE mounts
  PROVE  DriveInv' /\ MountInv' /\ step # 8
<1> DEFINE d == step - 4
           x == [mountpoint |-> Boot, drive |-> d]
<1>1. step \in 4 .. 7 /\ step' = step + 1 /\ devices' = devices /\ drives' = drives /\ k' = k
      /\ d \in Position
  BY DEF identifyPacket, Position
<1>2. DriveInv'
  BY <1>1 DEF DriveInv, Position
<1>3. mounts \in Seq(MountType) /\ Len(mounts) \in Nat
  BY DEF MountInv
<1>4. \A m \in 1 .. Len(mounts) : mounts[m].drive \in 0 .. 3 /\ mounts[m].drive < d
      /\ drives[mounts[m].drive] = "atapi"
  <2>1. ASSUME NEW m \in 1 .. Len(mounts)
        PROVE  mounts[m].drive \in 0 .. 3 /\ mounts[m].drive < d /\ drives[mounts[m].drive] = "atapi"
    <3>1. mounts[m] \in MountType
      BY <1>3
    <3>2. mounts[m].drive \in 0 .. 3
      BY <3>1 DEF MountType, Position
    <3>3. QED
      BY <1>1, <3>2 DEF MountInv
  <2>2. QED
    BY <2>1
<1>5. CASE ~Registers
  <2>1. mounts' = mounts /\ drives[d] # "atapi"
    BY <1>5 DEF Registers
  <2>2. \A p \in Position : p + 4 < step' /\ drives[p] = "atapi" => p + 4 < step
    BY <1>1, <2>1 DEF Position
  <2> HIDE DEF d
  <2>3. \A m \in 1 .. Len(mounts) : mounts[m].drive + 4 < step'
    BY <1>1, <1>4 DEF d
  <2>4. MountInv'
    BY <1>1, <1>4, <2>1, <2>2, <2>3 DEF MountInv
  <2>5. QED
    BY <1>1, <1>2, <2>4
<1>6. CASE Registers
  <2>1. x \in MountType /\ x.drive = d /\ drives[d] = "atapi"
    BY <1>1, <1>6 DEF Registers, MountType
  <2>2. mounts' = Append(mounts, x)
    BY <1>6 DEF registerFS
  <2> HIDE DEF x
  <2>3. mounts' \in Seq(MountType) /\ Len(mounts') = Len(mounts) + 1
        /\ mounts'[Len(mounts) + 1] = x /\ \A m \in 1 .. Len(mounts) : mounts'[m] = mounts[m]
    BY <1>3, <2>1, <2>2
  <2>4. \A m \in 1 .. Len(mounts') : m \in 1 .. Len(mounts) \/ m = Len(mounts) + 1
    BY <1>3, <2>3
  <2> HIDE DEF d
  <2>5. d \in 0 .. 3 /\ d + 4 = step
    BY <1>1 DEF d
  <2>6. ASSUME NEW m \in 1 .. Len(mounts')
        PROVE  mounts'[m].drive + 4 < step' /\ drives'[mounts'[m].drive] = "atapi"
    <3>1. step \in 4 .. 7 /\ step' = step + 1 /\ drives' = drives
      BY <1>1
    <3>2. CASE m \in 1 .. Len(mounts)
      <4>1. mounts'[m] = mounts[m]
        BY <2>3, <3>2
      <4>2. mounts[m].drive \in 0 .. 3 /\ mounts[m].drive < d
            /\ drives[mounts[m].drive] = "atapi"
        BY <1>4, <3>2
      <4>3. QED
        BY <2>5, <3>1, <4>1, <4>2
    <3>3. CASE m = Len(mounts) + 1
      <4>1. mounts'[m].drive = d
        BY <2>1, <2>3, <3>3
      <4>2. QED
        BY <2>1, <2>5, <3>1, <4>1
    <3>4. QED
      BY <2>4, <3>2, <3>3
  <2>7. ASSUME NEW p \in Position, p + 4 < step', drives'[p] = "atapi"
        PROVE  \E m \in 1 .. Len(mounts') : mounts'[m].drive = p
    <3>1. CASE p = d
      <4>1. Len(mounts) + 1 \in 1 .. Len(mounts')
        BY <1>3, <2>3
      <4>2. QED
        BY <2>1, <2>3, <3>1, <4>1
    <3>2. CASE p # d
      <4>1. p + 4 < step /\ drives[p] = "atapi"
        BY <1>1, <2>5, <2>7, <3>2 DEF Position
      <4>2. PICK m \in 1 .. Len(mounts) : mounts[m].drive = p
        BY <4>1 DEF MountInv
      <4>3. m \in 1 .. Len(mounts') /\ mounts'[m].drive = p
        BY <1>3, <2>3, <4>2
      <4>4. QED
        BY <4>3
    <3>3. QED
      BY <3>1, <3>2
  <2>8. ASSUME NEW m \in 1 .. Len(mounts'), NEW o \in 1 .. Len(mounts'), m < o
        PROVE  mounts'[m].drive < mounts'[o].drive
    <3>1. m \in 1 .. Len(mounts)
      BY <1>3, <2>3, <2>8
    <3>2. CASE o \in 1 .. Len(mounts)
      BY <2>3, <2>8, <3>1, <3>2 DEF MountInv
    <3>3. CASE o = Len(mounts) + 1
      BY <1>4, <2>1, <2>3, <3>1, <3>3
    <3>4. QED
      BY <2>4, <3>2, <3>3
  <2>9. MountInv'
    BY <2>3, <2>6, <2>7, <2>8 DEF MountInv
  <2>10. QED
    BY <1>1, <1>2, <2>9
<1>7. QED
  BY <1>5, <1>6

-----------------------------------------------------------------------------
(* The drive that is read, if a drive is mounted. *)
LEMMA ReadDriveIsDrive ==
  ASSUME DriveInv, MountInv, mounts # <<>>
  PROVE  ReadDrive \in Position
<1>1. mounts \in Seq(MountType) /\ 1 \in 1 .. Len(mounts)
  BY DEF MountInv
<1>2. mounts[1] \in MountType
  BY <1>1
<1>3. mounts[1].drive \in Position /\ drives[mounts[1].drive] = "atapi"
  BY <1>1, <1>2 DEF MountInv, MountType
<1>4. \E p \in 0 .. 3 : drives[p] = "atapi" /\ \A q \in 0 .. 3 : drives[q] = "atapi" => q <= p
  <2>1. CASE drives[3] = "atapi"
    BY <2>1
  <2>2. CASE drives[3] # "atapi" /\ drives[2] = "atapi"
    BY <2>2
  <2>3. CASE drives[3] # "atapi" /\ drives[2] # "atapi" /\ drives[1] = "atapi"
    BY <2>3
  <2>4. CASE drives[3] # "atapi" /\ drives[2] # "atapi" /\ drives[1] # "atapi" /\ drives[0] = "atapi"
    BY <2>4
  <2>5. drives[0] = "atapi" \/ drives[1] = "atapi" \/ drives[2] = "atapi" \/ drives[3] = "atapi"
    BY <1>3 DEF Position
  <2>6. QED
    BY <2>1, <2>2, <2>3, <2>4, <2>5
<1>5. QED
  BY <1>4 DEF ReadDrive, Position

LEMMA FindFileType ==
  ASSUME NEW p \in Position, NEW path, Len(path) \in Nat, NEW file \in BOOLEAN
  PROVE  findFile(Discs[p], path, file) \in Nat
<1> DEFINE t == Trail(Discs[p], path, file)
<1>1. t[Len(path)] \in Lookups
  BY TrailStep
<1>2. QED
  BY <1>1, FindFileNow DEF Lookups

LEMMA FilenameType ==
  ASSUME NEW path \in Filenames
  PROVE  path \in Seq(STRING) /\ Len(path) \in Nat
  OBVIOUS

(* The calls of the RAM file system leave the files as they were. *)
LEMMA FileKept ==
  ASSUME NEW E, Tree(E), NEW F, Tree(F), Later(E, F), NEW M, NEW disc, NEW f \in FileType, NEW pos,
         FileOk(E, M, disc, f, pos)
  PROVE  FileOk(F, M, disc, f, pos)
<1>1. f.path \in Filenames
  BY DEF FileType
<1>2. Len(f.path) \in Nat
  BY <1>1, FilenameType
<1>3. Len(f.path) \in 0 .. Len(f.path)
  BY <1>2
<1>4. Walk(E, f.path)[Len(f.path)].at # None => Walk(F, f.path)[Len(f.path)] = Walk(E, f.path)[Len(f.path)]
  BY <1>2, <1>3, WalkKept
<1>5. QED
  BY <1>4 DEF FileOk

LEMMA RamfsFiles ==
  ASSUME Tree(entries), Tree(entries'), Later(entries, entries'), FileInv,
         UNCHANGED <<driveVars, mounts, files, sought>>
  PROVE  FileInv'
<1>1. drives' = drives /\ step' = step /\ mounts' = mounts /\ files' = files /\ sought' = sought
  BY DEF driveVars
<1>2. ReadDrive' = ReadDrive
  BY <1>1 DEF ReadDrive
<1>3. ASSUME NEW fd \in 1 .. Len(files)
      PROVE  FileOk(entries', mounts, Discs[ReadDrive], files[fd], sought[fd])
  <2>1. files[fd] \in FileType
    BY DEF FileInv
  <2>2. FileOk(entries, mounts, Discs[ReadDrive], files[fd], sought[fd])
    BY DEF FileInv
  <2>3. QED
    BY <2>1, <2>2, FileKept
<1>4. QED
  BY <1>1, <1>2, <1>3 DEF FileInv

(* A file added to the list. *)
LEMMA OpenedFiles ==
  ASSUME FileInv, step = 8, entries' = entries, UNCHANGED <<driveVars, mounts>>,
         NEW path, NEW fs, NEW num, NEW stray, Opened(path, fs, num, stray),
         NEW f, f = [fs |-> fs, fileNum |-> num, pos |-> 0, path |-> path, stray |-> stray],
         f \in FileType, FileOk(entries, mounts, Discs[ReadDrive], f, 0)
  PROVE  FileInv'
<1>1. drives' = drives /\ step' = step /\ mounts' = mounts
  BY DEF driveVars
<1>2. ReadDrive' = ReadDrive
  BY <1>1 DEF ReadDrive
<1>3. files' = Append(files, f) /\ sought' = Append(sought, 0)
  BY DEF Opened
<1>4. files \in Seq(FileType) /\ sought \in Seq(Positions) /\ Len(sought) = Len(files) /\ 0 \in Positions
  BY DEF FileInv
<1>5. files' \in Seq(FileType) /\ Len(files') = Len(files) + 1 /\ files'[Len(files) + 1] = f
      /\ \A fd \in 1 .. Len(files) : files'[fd] = files[fd]
  BY <1>3, <1>4
<1>6. sought' \in Seq(Positions) /\ Len(sought') = Len(files) + 1 /\ sought'[Len(files) + 1] = 0
      /\ \A fd \in 1 .. Len(files) : sought'[fd] = sought[fd]
  BY <1>3, <1>4
<1>7. ASSUME NEW fd \in 1 .. Len(files')
      PROVE  FileOk(entries', mounts', Discs[ReadDrive'], files'[fd], sought'[fd])
  <2>1. CASE fd \in 1 .. Len(files)
    <3>1. FileOk(entries, mounts, Discs[ReadDrive], files[fd], sought[fd])
      BY <2>1 DEF FileInv
    <3>2. QED
      BY <1>1, <1>2, <1>5, <1>6, <2>1, <3>1
  <2>2. CASE fd = Len(files) + 1
    BY <1>1, <1>2, <1>5, <1>6, <2>2
  <2>3. Len(files) \in Nat
    BY <1>4
  <2>4. QED
    BY <1>5, <2>1, <2>2, <2>3
<1>8. QED
  BY <1>1, <1>5, <1>6, <1>7 DEF FileInv

LEMMA SameFiles ==
  ASSUME FileInv, entries' = entries, UNCHANGED <<driveVars, mounts, files, sought>>
  PROVE  FileInv'
<1>1. drives' = drives /\ step' = step /\ mounts' = mounts /\ files' = files /\ sought' = sought
  BY DEF driveVars
<1>2. ReadDrive' = ReadDrive
  BY <1>1 DEF ReadDrive
<1>3. QED
  BY <1>1, <1>2 DEF FileInv

LEMMA OpenFiles ==
  ASSUME Tree(entries), DriveInv, MountInv, FileInv, NEW path \in Filenames, open(path)
  PROVE  FileInv'
<1>1. path \in Seq(STRING) /\ Len(path) \in Nat
  BY FilenameType
<1>2. step = 8 /\ entries' = entries /\ UNCHANGED <<driveVars, mounts>>
  BY DEF open, atapiInitDone
<1>3. mounts \in Seq(MountType)
  BY DEF MountInv
<1>4. PICK longest \in {Len(path) - 1, Len(path)} \cap Nat :
        \/ UNCHANGED <<files, sought>>
        \/ mountOf(path, longest) # 0 /\ \E file \in BOOLEAN :
             Opened(path, mountOf(path, longest), findFile(Discs[ReadDrive], path, file), file)
        \/ mountOf(path, longest) = 0 /\ Opened(path, 0, findDir(path), FALSE)
  BY DEF open
<1>5. longest \in 0 .. Len(path) /\ (Len(path) > 1 => longest >= 1) /\ (longest >= 1 => Len(path) >= 1)
  BY <1>1, <1>4
<1>6. mountOf(path, longest) = IF longest >= 1 /\ mounts # <<>> /\ path[1] = "BOOT" THEN 1 ELSE 0
  BY <1>1, <1>3, <1>5, MountFound
<1>7. CASE UNCHANGED <<files, sought>>
  BY <1>2, <1>7, SameFiles
<1>8. ASSUME mountOf(path, longest) # 0, NEW file \in BOOLEAN,
             Opened(path, mountOf(path, longest), findFile(Discs[ReadDrive], path, file), file)
      PROVE  FileInv'
  <2> DEFINE num == findFile(Discs[ReadDrive], path, file)
             f == [fs |-> 1, fileNum |-> num, pos |-> 0, path |-> path, stray |-> file]
  <2>1. longest >= 1 /\ mounts # <<>> /\ path[1] = "BOOT" /\ mountOf(path, longest) = 1
    BY <1>6, <1>8
  <2>2. path # <<>>
    BY <1>1, <1>5, <2>1
  <2>3. num \in Nat
    BY <1>1, <2>1, ReadDriveIsDrive, FindFileType
  <2>4. Opened(path, 1, num, file)
    BY <1>8, <2>1
  <2>5. FileOk(entries, mounts, Discs[ReadDrive], f, 0)
    BY <2>1, <2>2 DEF FileOk
  <2> HIDE DEF num
  <2>6. f \in FileType
    BY <2>3 DEF FileType
  <2>7. QED
    BY <1>2, <2>4, <2>5, <2>6, OpenedFiles
<1>9. ASSUME mountOf(path, longest) = 0, Opened(path, 0, findDir(path), FALSE)
      PROVE  FileInv'
  <2> DEFINE num == findDir(path)
             f == [fs |-> 0, fileNum |-> num, pos |-> 0, path |-> path, stray |-> FALSE]
  <2>1. Len(path) > 1 /\ mounts # <<>> => path[1] # "BOOT"
    BY <1>5, <1>6, <1>9
  <2>2. num \in Nat
    <3>1. PICK owner : Owned(entries, owner)
      BY DEF Tree
    <3>2. num \in 0 .. Len(entries) /\ Len(entries) \in Nat
      BY <1>1, <3>1, DirFound DEF Tree, Chains
    <3>3. QED
      BY <3>2
  <2>3. num = Walk(entries, path)[Len(path)].at
    BY FindDirNow
  <2>4. Opened(path, 0, num, FALSE)
    BY <1>9
  <2> HIDE DEF num
  <2>5. FileOk(entries, mounts, Discs[ReadDrive], f, 0)
    BY <2>1, <2>3 DEF FileOk
  <2>6. f \in FileType
    BY <2>2 DEF FileType
  <2>7. QED
    BY <1>2, <2>4, <2>5, <2>6, OpenedFiles
<1>10. QED
  BY <1>4, <1>7, <1>8, <1>9

LEMMA SeekFiles ==
  ASSUME FileInv, NEW fd \in 0 .. MaxFiles, NEW pos \in Positions, seek(fd, pos)
  PROVE  FileInv'
<1>1. entries' = entries /\ UNCHANGED <<driveVars, mounts>>
  BY DEF seek
<1>2. CASE UNCHANGED <<files, sought>>
  BY <1>1, <1>2, SameFiles
<1>3. CASE /\ fd \in DOMAIN files
           /\ files' = [files EXCEPT ![fd].pos = pos] /\ sought' = [sought EXCEPT ![fd] = pos]
  <2> DEFINE x == [files[fd] EXCEPT !.pos = pos]
  <2>1. drives' = drives /\ step' = step /\ mounts' = mounts
    BY <1>1 DEF driveVars
  <2>2. ReadDrive' = ReadDrive
    BY <2>1 DEF ReadDrive
  <2>3. files \in Seq(FileType) /\ sought \in Seq(Positions) /\ Len(sought) = Len(files)
        /\ fd \in 1 .. Len(files)
    BY <1>3 DEF FileInv
  <2>4. files[fd] \in FileType
    BY <2>3
  <2>5. x \in FileType /\ x.pos = pos /\ x.fs = files[fd].fs /\ x.fileNum = files[fd].fileNum
        /\ x.path = files[fd].path /\ x.stray = files[fd].stray
    BY <2>4 DEF FileType
  <2>6. files' = [files EXCEPT ![fd] = x]
    BY <1>3
  <2> HIDE DEF x
  <2>7. files' \in Seq(FileType) /\ Len(files') = Len(files) /\ files'[fd] = x
        /\ \A g \in 1 .. Len(files) : g # fd => files'[g] = files[g]
    BY <2>3, <2>5, <2>6
  <2>8. sought' \in Seq(Positions) /\ Len(sought') = Len(files) /\ sought'[fd] = pos
        /\ \A g \in 1 .. Len(files) : g # fd => sought'[g] = sought[g]
    BY <1>3, <2>3
  <2>9. ASSUME NEW g \in 1 .. Len(files)
        PROVE  FileOk(entries', mounts', Discs[ReadDrive'], files'[g], sought'[g])
    <3>1. FileOk(entries, mounts, Discs[ReadDrive], files[g], sought[g])
      BY DEF FileInv
    <3>2. CASE g = fd
      <4>1. FileOk(entries, mounts, Discs[ReadDrive], x, pos)
        BY <2>5, <3>1, <3>2 DEF FileOk
      <4>2. QED
        BY <1>1, <2>1, <2>2, <2>7, <2>8, <3>2, <4>1
    <3>3. CASE g # fd
      BY <1>1, <2>1, <2>2, <2>7, <2>8, <3>1, <3>3
    <3>4. QED
      BY <3>2, <3>3
  <2>10. step' = 8
    <3>1. files # <<>>
      BY <2>3
    <3>2. QED
      BY <2>1, <3>1 DEF FileInv
  <2>11. QED
    BY <2>7, <2>8, <2>9, <2>10 DEF FileInv
<1>4. QED
  BY <1>2, <1>3 DEF seek

-----------------------------------------------------------------------------
LEMMA SameTree == ASSUME Tree(entries), entries' = entries PROVE Tree(entries') /\ Later(entries, entries')
<1>1. Len(entries) \in Nat
  BY DEF Tree, Chains
<1>2. Later(entries, entries')
  BY <1>1 DEF Later
<1>3. QED
  BY <1>2

LEMMA SameDrives ==
  ASSUME DriveInv, MountInv, UNCHANGED <<driveVars, mounts>>
  PROVE  DriveInv' /\ MountInv'
<1>1. devices' = devices /\ drives' = drives /\ step' = step /\ k' = k /\ mounts' = mounts
  BY DEF driveVars
<1>2. QED
  BY <1>1 DEF DriveInv, MountInv

LEMMA NextInv ==
  ASSUME VfsInv, [Next]_vars
  PROVE  VfsInv' /\ Later(entries, entries')
<1> USE DEF VfsInv
<1>1. CASE atapiInit
  <2>1. entries' = entries /\ files' = files /\ sought' = sought
    BY <1>1 DEF atapiInit, ramfsVars
  <2>2. DriveInv' /\ MountInv' /\ step # 8
    <3>1. CASE identify /\ UNCHANGED mounts
      BY <3>1, IdentifyInv
    <3>2. CASE /\ identifyPacket
               /\ mounts' = IF Registers THEN registerFS([mountpoint |-> Boot, drive |-> step - 4])
                            ELSE mounts
      BY <3>2, IdentifyPacketInv
    <3>3. QED
      BY <1>1, <3>1, <3>2 DEF atapiInit
  <2>3. FileInv'
    BY <2>1, <2>2, NoFilesYet
  <2>4. QED
    BY <2>1, <2>2, <2>3, SameTree
<1>2. CASE RamfsNext /\ UNCHANGED <<driveVars, mounts, files, sought>>
  <2>1. Tree(entries') /\ Later(entries, entries')
    BY <1>2, RamfsNextTree
  <2>2. DriveInv' /\ MountInv'
    BY <1>2, SameDrives
  <2>3. FileInv'
    BY <1>2, <2>1, RamfsFiles
  <2>4. QED
    BY <2>1, <2>2, <2>3
<1>3. ASSUME NEW path \in Filenames, open(path)
      PROVE  VfsInv' /\ Later(entries, entries')
  <2>1. entries' = entries /\ UNCHANGED <<driveVars, mounts>>
    BY <1>3 DEF open
  <2>2. FileInv'
    BY <1>3, OpenFiles
  <2>3. QED
    BY <2>1, <2>2, SameTree, SameDrives
<1>4. ASSUME NEW fd \in 0 .. MaxFiles, read(fd)
      PROVE  VfsInv' /\ Later(entries, entries')
  <2>1. entries' = entries /\ UNCHANGED <<driveVars, mounts, files, sought>>
    BY <1>4 DEF read
  <2>2. QED
    BY <2>1, SameTree, SameDrives, SameFiles
<1>5. ASSUME NEW fd \in 0 .. MaxFiles, NEW pos \in Positions, seek(fd, pos)
      PROVE  VfsInv' /\ Later(entries, entries')
  <2>1. entries' = entries /\ UNCHANGED <<driveVars, mounts>>
    BY <1>5 DEF seek
  <2>2. FileInv'
    BY <1>5, SeekFiles
  <2>3. QED
    BY <2>1, <2>2, SameTree, SameDrives
<1>6. CASE UNCHANGED vars
  <2>1. entries' = entries /\ UNCHANGED <<driveVars, mounts, files, sought>>
    BY <1>6 DEF vars, ramfsVars
  <2>2. QED
    BY <2>1, SameTree, SameDrives, SameFiles
<1>7. QED
  BY <1>1, <1>2, <1>3, <1>4, <1>5, <1>6 DEF Next

(* The invariant holds in every state of every machine with these file     *)
(* systems: directories form a tree, the drives probed and mounted are     *)
(* those of the machine, and every open file keeps what open found.        *)
THEOREM VfsInvariant == Spec => []VfsInv
<1>1. Init => VfsInv
  BY InitInv
<1>2. VfsInv /\ [Next]_vars => VfsInv'
  BY NextInv
<1>3. QED
  BY <1>1, <1>2, PTL DEF Spec

(* ".." of every directory that mkDir made leads to the directory it was   *)
(* made in, whatever was created since, and the root's leads to the root   *)
(* (findDir and mkDir in ramfs.c).                                         *)
THEOREM DotDotIsAlwaysParent == Spec => []DotDotIsParent
<1>1. VfsInv => DotDotIsParent
  BY TreeParents DEF VfsInv
<1>2. QED
  BY <1>1, VfsInvariant, PTL

(* No call of mkDir, mkFile or writeFS, and no open file, changes what     *)
(* findDir returns for a path that leads somewhere.                        *)
THEOREM PathsAlwaysKeepTheirMeaning == Spec => PathsKeepTheirMeaning
<1>1. ASSUME VfsInv, [Next]_vars
      PROVE  \A path \in Paths : findDir(path) # None => findDir(path)' = findDir(path)
  <2>1. VfsInv' /\ Later(entries, entries')
    BY <1>1, NextInv
  <2>2. Tree(entries) /\ Tree(entries')
    BY <1>1, <2>1 DEF VfsInv
  <2>3. ASSUME NEW path \in Paths, findDir(path) # None
        PROVE  findDir(path)' = findDir(path)
    <3>1. Len(path) \in Nat /\ Len(path) \in 0 .. Len(path)
      <4>1. path \in Seq(Names)
        BY PathsType
      <4>2. QED
        BY <4>1
    <3>2. Walk(entries, path)[Len(path)].at # None
      BY <2>3, FindDirNow
    <3>3. Walk(entries', path)[Len(path)] = Walk(entries, path)[Len(path)]
      BY <2>1, <2>2, <3>1, <3>2, WalkKept
    <3>4. QED
      BY <3>3, FindDirNow, FindDirNext
  <2>4. QED
    BY <2>3
<1>2. VfsInv /\ [Next]_vars =>
        [\A path \in Paths : findDir(path) # None => findDir(path)' = findDir(path)]_ramfsVars
  BY <1>1
<1>3. QED
  BY <1>2, VfsInvariant, PTL DEF Spec, PathsKeepTheirMeaning

(* atapiInit registers exactly the machine's ATAPI devices, each once and  *)
(* in the order of their positions, for every machine it gets through      *)
(* with (atapi.c's two loops and their shared index k).                    *)
THEOREM DrivesAlwaysMounted == Spec => []DrivesMounted
<1>1. VfsInv => DrivesMounted
  <2> SUFFICES ASSUME VfsInv, step = 8
               PROVE  /\ {mounts[m].drive : m \in DOMAIN mounts} = {p \in Position : devices[p] = "atapi"}
                      /\ \A m, o \in DOMAIN mounts : m < o => mounts[m].drive < mounts[o].drive
    BY DEF DrivesMounted, atapiInitDone
  <2>1. DriveInv /\ MountInv
    BY DEF VfsInv
  <2>2. mounts \in Seq(MountType) /\ DOMAIN mounts = 1 .. Len(mounts)
    BY <2>1 DEF MountInv
  <2>3. \A p \in Position : p + 4 < step /\ p < step
    BY DEF Position
  <2>4. \A p \in Position : drives[p] = "atapi" <=> devices[p] = "atapi"
    BY <2>1, <2>3 DEF DriveInv
  <2>5. ASSUME NEW m \in DOMAIN mounts
        PROVE  mounts[m].drive \in Position /\ devices[mounts[m].drive] = "atapi"
    <3>1. mounts[m] \in MountType
      BY <2>2
    <3>2. mounts[m].drive \in Position
      BY <3>1 DEF MountType
    <3>3. QED
      BY <2>1, <2>2, <2>4, <3>2 DEF MountInv
  <2>6. ASSUME NEW p \in Position, devices[p] = "atapi"
        PROVE  \E m \in DOMAIN mounts : mounts[m].drive = p
    BY <2>1, <2>2, <2>3, <2>4, <2>6 DEF MountInv
  <2>7. \A m, o \in DOMAIN mounts : m < o => mounts[m].drive < mounts[o].drive
    BY <2>1, <2>2 DEF MountInv
  <2>8. QED
    BY <2>5, <2>6, <2>7
<1>2. QED
  BY <1>1, VfsInvariant, PTL

(* open takes a name below "/BOOT" to the first drive of the machine and   *)
(* any other to the root file system, once a drive is mounted (the search  *)
(* of open over the list that registerFS built).                           *)
THEOREM BootIsAlwaysFirstDrive == Spec => []BootIsFirstDrive
<1>1. VfsInv => BootIsFirstDrive
  <2> SUFFICES ASSUME VfsInv, NEW fd \in DOMAIN files
               PROVE  /\ files[fd].fs # 0 =>
                           files[fd].path[1] = "BOOT" /\ \A p \in Position : devices[p] = "atapi" =>
                                                          mounts[files[fd].fs].drive <= p
                      /\ files[fd].fs = 0 /\ Len(files[fd].path) > 1 /\ mounts # <<>> =>
                           files[fd].path[1] # "BOOT"
    BY DEF BootIsFirstDrive
  <2>1. DriveInv /\ MountInv /\ FileInv
    BY DEF VfsInv
  <2>2. files \in Seq(FileType) /\ fd \in 1 .. Len(files) /\ files # <<>>
    BY <2>1 DEF FileInv
  <2>3. files[fd] \in FileType
    BY <2>2
  <2>4. files[fd].fs \in {0, 1}
    BY <2>3 DEF FileType
  <2>5. step = 8 /\ FileOk(entries, mounts, Discs[ReadDrive], files[fd], sought[fd])
    BY <2>1, <2>2 DEF FileInv
  <2>6. ASSUME files[fd].fs = 1, NEW p \in Position, devices[p] = "atapi"
        PROVE  mounts[1].drive <= p
    <3>1. mounts \in Seq(MountType) /\ mounts # <<>>
      BY <2>1, <2>5, <2>6 DEF FileOk, MountInv
    <3>2. p + 4 < step /\ p < step
      BY <2>5 DEF Position
    <3>3. drives[p] = "atapi"
      BY <2>1, <2>6, <3>2 DEF DriveInv
    <3>4. PICK m \in 1 .. Len(mounts) : mounts[m].drive = p
      BY <2>1, <3>2, <3>3 DEF MountInv
    <3>5. 1 \in 1 .. Len(mounts) /\ (m = 1 \/ 1 < m)
      BY <3>1, <3>4
    <3>6. CASE m = 1
      BY <3>4, <3>6 DEF Position
    <3>7. CASE 1 < m
      <4>1. mounts[1].drive < p
        BY <2>1, <3>4, <3>5, <3>7 DEF MountInv
      <4>2. mounts[1] \in MountType
        BY <3>1, <3>5
      <4>3. mounts[1].drive \in 0 .. 3
        BY <4>2 DEF MountType, Position
      <4>4. QED
        BY <4>1, <4>3 DEF Position
    <3>8. QED
      BY <3>5, <3>6, <3>7
  <2>7. QED
    BY <2>4, <2>5, <2>6 DEF FileOk
<1>2. QED
  BY <1>1, VfsInvariant, PTL

(* A file opened on a drive is the one its path leads to on the disc that  *)
(* is read, if the local of findFile did not start as 1, the root is below *)
(* sector 256 and the records are in the first sectors of their            *)
(* directories; and in any case one whose name the path holds (findFile of *)
(* atapi.c).                                                               *)
THEOREM AlwaysFindsNamedFile == Spec => []FindsNamedFile
<1>1. VfsInv => FindsNamedFile
  <2> SUFFICES ASSUME VfsInv, NEW fd \in DOMAIN files, files[fd].fs # 0
               PROVE  LET f == files[fd]
                          disc == Discs[ReadDrive]
                      IN  /\ \A at \in [DOMAIN f.path -> disc.entries] :
                               Leads(disc, f.path, at) /\ Simple(disc, f.path, at) /\ ~f.stray =>
                                 f.fileNum = at[Len(f.path)].lba
                          /\ f.fileNum # NotFound =>
                               \E e \in disc.entries, n \in DOMAIN f.path :
                                 e.file /\ e.lba = f.fileNum /\ e.name = f.path[n]
    BY DEF FindsNamedFile
  <2> DEFINE f == files[fd]
             p == ReadDrive
  <2>1. DriveInv /\ MountInv /\ FileInv
    BY DEF VfsInv
  <2>2. files \in Seq(FileType) /\ fd \in 1 .. Len(files)
    BY <2>1 DEF FileInv
  <2>3. f \in FileType
    BY <2>2
  <2>4. f.fs \in {0, 1} /\ f.path \in Filenames /\ f.stray \in BOOLEAN
    BY <2>3 DEF FileType
  <2>5. FileOk(entries, mounts, Discs[p], f, sought[fd])
    BY <2>1, <2>2 DEF FileInv
  <2>6. mounts # <<>> /\ f.fileNum = findFile(Discs[p], f.path, f.stray)
    BY <2>4, <2>5 DEF FileOk
  <2>7. p \in Position
    BY <2>1, <2>6, ReadDriveIsDrive
  <2>8. f.path \in Seq(STRING) /\ Len(f.path) \in Nat /\ DOMAIN f.path = 1 .. Len(f.path)
    <3>1. f.path \in Seq(STRING)
      BY <2>4, FilenameType
    <3>2. QED
      BY <3>1
  <2> HIDE DEF p, f
  <2>9. ASSUME NEW at \in [DOMAIN f.path -> Discs[p].entries],
               Leads(Discs[p], f.path, at), Simple(Discs[p], f.path, at), ~f.stray
        PROVE  f.fileNum = at[Len(f.path)].lba
    <3>1. f.stray = FALSE
      BY <2>4, <2>9
    <3>2. findFile(Discs[p], f.path, FALSE) = at[Len(f.path)].lba
      BY <2>7, <2>8, <2>9, FileLed
    <3>3. QED
      BY <2>6, <3>1, <3>2
  <2>10. ASSUME f.fileNum # NotFound
         PROVE  \E e \in Discs[p].entries, n \in DOMAIN f.path :
                  e.file /\ e.lba = f.fileNum /\ e.name = f.path[n]
    <3> DEFINE q == f.path
               l == findFile(Discs[p], q, f.stray)
    <3>1. l # NotFound /\ Len(q) \in Nat /\ f.fileNum = l /\ DOMAIN f.path = 1 .. Len(q)
      BY <2>6, <2>8, <2>10
    <3> HIDE DEF q
    <3>2. \E e \in Discs[p].entries, n \in 1 .. Len(q) : e.file /\ e.lba = l /\ e.name = q[n]
      BY <2>4, <2>7, <3>1, FileNamed
    <3> HIDE DEF l
    <3>3. QED
      BY <3>1, <3>2 DEF q
  <2>11. QED
    BY <2>9, <2>10 DEF p, f
<1>2. QED
  BY <1>1, VfsInvariant, PTL

(* A read through a descriptor returns the contents of the file its path   *)
(* names now, from the position of the latest seek through it (read, seek  *)
(* and readFS, with any calls of the other descriptors and of the RAM file *)
(* system between).                                                        *)
THEOREM AlwaysReadsOwnFile == Spec => []ReadsOwnFile
<1>1. VfsInv => ReadsOwnFile
  <2> SUFFICES ASSUME VfsInv, NEW fd \in DOMAIN files
               PROVE  /\ fileOf(fd) \in DOMAIN files
                      /\ readResult(fd).pos = sought[fd]
                      /\ files[fd].fs = 0 /\ IsFile(files[fd].fileNum) =>
                           readResult(fd).data = entries[findDir(files[fd].path)].data
    BY DEF ReadsOwnFile
  <2>1. FileInv
    BY DEF VfsInv
  <2>2. files \in Seq(FileType) /\ fd \in 1 .. Len(files)
    BY <2>1 DEF FileInv
  <2>3. fileOf(fd) = fd
    BY <2>2 DEF fileOf
  <2>4. readResult(fd) = [data |-> fsRead(files[fd]), pos |-> files[fd].pos]
    BY <2>3 DEF readResult
  <2>5. FileOk(entries, mounts, Discs[ReadDrive], files[fd], sought[fd])
    BY <2>1, <2>2 DEF FileInv
  <2>6. ASSUME files[fd].fs = 0, IsFile(files[fd].fileNum)
        PROVE  fsRead(files[fd]) = entries[findDir(files[fd].path)].data
    <3>1. files[fd].fileNum = findDir(files[fd].path)
      BY <2>5, <2>6, FindDirNow DEF FileOk, IsFile
    <3>2. fsRead(files[fd]) = entries[files[fd].fileNum].data
      BY <2>6 DEF fsRead
    <3>3. QED
      BY <3>1, <3>2
  <2>7. files[fd].pos = sought[fd]
    BY <2>5 DEF FileOk
  <2>8. QED
    BY <2>3, <2>4, <2>6, <2>7
<1>2. QED
  BY <1>1, VfsInvariant, PTL

=============================================================================
