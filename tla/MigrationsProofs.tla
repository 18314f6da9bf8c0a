--------------------------- MODULE MigrationsProofs ---------------------------
(***************************************************************************)
(* What becomes of a migration history, for every number of branches and   *)
(* tables, every edit a human makes, every moment a migrate starts and any *)
(* number that overlap: main only grows, the ledger is a prefix of it, a   *)
(* row is there twice only if two migrates overlapped, and a database that *)
(* a boot accepts has on each table the boundary its classification        *)
(* declares.                                                               *)
(*                                                                         *)
(* The last needs what a fold of the community modules computes, and what  *)
(* it computes over files that are read one after the other: that part is  *)
(* stated for any operation, as a function on pairs.                       *)
(***************************************************************************)
EXTENDS Migrations, SequenceTheorems, FiniteSetTheorems, WellFoundedInduction, TLAPS

-----------------------------------------------------------------------------
(* Induction, and sequences of operations. *)

LEMMA LeastOf ==
  ASSUME NEW T, T \subseteq Nat, T # {}
  PROVE  \E x \in T : \A y \in T : x <= y
<1>1. PICK x \in T : \A y \in T : <<y, x>> \notin OpToRel(<, Nat)
  BY NatLessThanWellFounded, WFMin
<1>2. ASSUME NEW y \in T
      PROVE  x <= y
  <2>1. x \in Nat /\ y \in Nat /\ ~(y < x)
    BY <1>1 DEF OpToRel
  <2> QED
    BY <2>1
<1> QED
  BY <1>2

(* Induction over the naturals, for a set of them.                          *)
LEMMA Induction ==
  ASSUME NEW S, 0 \in S, \A n \in Nat : n \in S => n + 1 \in S
  PROVE  Nat \subseteq S
<1> SUFFICES ASSUME Nat \ S # {} PROVE FALSE
  OBVIOUS
<1>1. PICK x \in Nat \ S : \A y \in Nat \ S : x <= y
  BY LeastOf
<1>2. x - 1 \in Nat /\ ~(x - 1 \in Nat \ S)
  BY <1>1
<1>3. (x - 1) + 1 \in S
  BY <1>2
<1> QED
  BY <1>1, <1>2, <1>3

LEMMA MaxOf ==
  ASSUME NEW n \in Nat, NEW u \in SUBSET (1 .. n), u # {}
  PROVE  Max(u) \in u /\ \A y \in u : y <= Max(u)
<1> DEFINE T == {b \in Nat : \A y \in u : y <= b}
<1>1. n \in T
  OBVIOUS
<1>2. PICK b \in T : \A c \in T : b <= c
  BY <1>1, LeastOf
<1>3. b \in u
  <2> SUFFICES ASSUME b \notin u PROVE FALSE
    OBVIOUS
  <2>1. PICK y \in u : TRUE
    OBVIOUS
  <2>2. b - 1 \in Nat
    BY <1>2, <2>1
  <2>3. \A z \in u : z <= b - 1
    BY <1>2
  <2>4. b - 1 \in T
    BY <2>2, <2>3
  <2> QED
    BY <1>2, <2>4
<1>4. \A z \in u : (\A y \in u : z >= y) => z = b
  BY <1>2, <1>3
<1>5. \A y \in u : b >= y
  BY <1>2
<1>6. Max(u) = b
  BY <1>3, <1>4, <1>5 DEF Max
<1> QED
  BY <1>3, <1>5, <1>6

-----------------------------------------------------------------------------
(* The trace of an operation over a sequence. *)

IsOperation(op, D, E) == op \in [D \X E -> D]

LEMMA OperationTypes ==
  ASSUME NEW D, NEW E, NEW op, IsOperation(op, D, E), NEW d \in D, NEW e \in E
  PROVE  op[<<d, e>>] \in D
BY DEF IsOperation

IsTrace(f, op, D, base, s) ==
  /\ f \in [0 .. Len(s) -> D]
  /\ f[0] = base
  /\ \A i \in 1 .. Len(s) : f[i] = op[<<f[i - 1], s[i]>>]

LEMMA TraceExists ==
  ASSUME NEW D, NEW E, NEW op, IsOperation(op, D, E), NEW base \in D, NEW s \in Seq(E)
  PROVE  \E f : IsTrace(f, op, D, base, s)
<1> DEFINE Upto(n, f) == /\ f \in [0 .. n -> D]
                         /\ f[0] = base
                         /\ \A i \in 1 .. n : f[i] = op[<<f[i - 1], s[i]>>]
           S == {n \in Nat : n <= Len(s) => \E f : Upto(n, f)}
<1>1. Len(s) \in Nat /\ \A i \in 1 .. Len(s) : s[i] \in E
  BY LenProperties, ElementOfSeq
<1>2. 0 \in S
  <2>1. Upto(0, [i \in 0 .. 0 |-> base])
    OBVIOUS
  <2> QED
    BY <2>1
<1>3. ASSUME NEW n \in Nat, n \in S
      PROVE  n + 1 \in S
  <2> HIDE DEF Upto
  <2> SUFFICES ASSUME n + 1 <= Len(s)
               PROVE  \E f : Upto(n + 1, f)
    OBVIOUS
  <2> USE DEF Upto
  <2>1. PICK f : Upto(n, f)
    BY <1>3, <1>1
  <2> DEFINE g == [i \in 0 .. n + 1 |->
                     IF i = n + 1 THEN op[<<f[n], s[n + 1]>>] ELSE f[i]]
  <2>2. op[<<f[n], s[n + 1]>>] \in D
    <3>1. f[n] \in D /\ s[n + 1] \in E
      BY <2>1, <1>1
    <3> QED
      BY <3>1, OperationTypes
  <2>3. g \in [0 .. n + 1 -> D] /\ g[0] = base
    BY <2>1, <2>2
  <2>4. ASSUME NEW i \in 1 .. n + 1
        PROVE  g[i] = op[<<g[i - 1], s[i]>>]
    <3>1. CASE i = n + 1
      <4>1. n \in 0 .. n + 1 /\ n # n + 1 /\ i - 1 = n
        BY <3>1
      <4>2. g[i] = op[<<f[n], s[n + 1]>>] /\ g[i - 1] = f[n]
        BY <3>1, <4>1
      <4> QED
        BY <3>1, <4>2
    <3>2. CASE i # n + 1
      <4>1. i \in 1 .. n /\ i - 1 \in 0 .. n /\ i \in 0 .. n + 1 /\ i - 1 \in 0 .. n + 1
        BY <3>2
      <4>2. g[i] = f[i] /\ g[i - 1] = f[i - 1]
        BY <3>2, <4>1
      <4> QED
        BY <2>1, <4>1, <4>2
    <3> QED
      BY <3>1, <3>2
  <2>5. Upto(n + 1, g)
    BY <2>3, <2>4
  <2> QED
    BY <2>5
<1> HIDE DEF S
<1>4. Nat \subseteq S
  BY <1>2, <1>3, Induction
<1>5. Len(s) \in S
  BY <1>1, <1>4
<1>6. \E f : Upto(Len(s), f)
  BY <1>1, <1>5 DEF S
<1> QED
  BY <1>6 DEF IsTrace

LEMMA TraceUnique ==
  ASSUME NEW D, NEW op, NEW base, NEW s, Len(s) \in Nat,
         NEW f, IsTrace(f, op, D, base, s), NEW g, IsTrace(g, op, D, base, s)
  PROVE  f = g
<1> DEFINE S == {n \in Nat : n <= Len(s) => f[n] = g[n]}
<1>1. 0 \in S
  BY DEF IsTrace
<1>2. ASSUME NEW n \in Nat, n \in S
      PROVE  n + 1 \in S
  <2> SUFFICES ASSUME n + 1 <= Len(s) PROVE f[n + 1] = g[n + 1]
    OBVIOUS
  <2>1. n + 1 \in 1 .. Len(s) /\ (n + 1) - 1 = n
    OBVIOUS
  <2>2. f[n] = g[n]
    BY <1>2
  <2> QED
    BY <2>1, <2>2 DEF IsTrace
<1> HIDE DEF S
<1>3. Nat \subseteq S
  BY <1>1, <1>2, Induction
<1>4. \A n \in 0 .. Len(s) : f[n] = g[n]
  BY <1>3 DEF S
<1> QED
  BY <1>4 DEF IsTrace

-----------------------------------------------------------------------------
(* What the community folds compute: they pick the last place of the domain, *)
(* and fold what is before it.                                              *)

IsIteration(it, op, D, base, s) ==
  /\ it \in [SUBSET (1 .. Len(s)) -> D]
  /\ \A u \in SUBSET (1 .. Len(s)) :
       it[u] = IF u = {} THEN base ELSE op[<<it[u \ {Max(u)}], s[Max(u)]>>]

LEMMA IterationExists ==
  ASSUME NEW D, NEW E, NEW op, IsOperation(op, D, E), NEW base \in D, NEW s \in Seq(E)
  PROVE  \E it : IsIteration(it, op, D, base, s)
<1> DEFINE Upto(n, it) ==
             /\ it \in [SUBSET (1 .. n) -> D]
             /\ \A u \in SUBSET (1 .. n) :
                  it[u] = IF u = {} THEN base ELSE op[<<it[u \ {Max(u)}], s[Max(u)]>>]
           S == {n \in Nat : n <= Len(s) => \E it : Upto(n, it)}
<1>1. Len(s) \in Nat /\ \A i \in 1 .. Len(s) : s[i] \in E
  BY LenProperties, ElementOfSeq
<1>0. \A n \in Nat : n \in S <=> (n <= Len(s) => \E it : Upto(n, it))
  OBVIOUS
<1> HIDE DEF S, Upto
<1>2. 0 \in S
  <2>1. 1 .. 0 = {}
    OBVIOUS
  <2>2. SUBSET (1 .. 0) = {{}}
    BY <2>1
  <2>3. Upto(0, [u \in {{}} |-> base])
    BY <2>2 DEF Upto
  <2> QED
    BY <2>3, <1>0
<1>3. ASSUME NEW n \in Nat, n \in S
      PROVE  n + 1 \in S
  <2> SUFFICES ASSUME n + 1 <= Len(s)
               PROVE  \E it : Upto(n + 1, it)
    BY <1>0
  <2>0. PICK it : Upto(n, it)
    BY <1>0, <1>1, <1>3
  <2>1. /\ it \in [SUBSET (1 .. n) -> D]
        /\ \A u \in SUBSET (1 .. n) :
             it[u] = IF u = {} THEN base ELSE op[<<it[u \ {Max(u)}], s[Max(u)]>>]
    BY <2>0 DEF Upto
  <2> DEFINE g == [u \in SUBSET (1 .. n + 1) |->
                     IF n + 1 \in u THEN op[<<it[u \ {n + 1}], s[n + 1]>>] ELSE it[u]]
  <2>2. \A u \in SUBSET (1 .. n + 1) : n + 1 \notin u => u \in SUBSET (1 .. n)
    OBVIOUS
  <2>3. \A u \in SUBSET (1 .. n + 1) : u \ {n + 1} \in SUBSET (1 .. n)
    OBVIOUS
  <2>4. ASSUME NEW u \in SUBSET (1 .. n + 1)
        PROVE  g[u] \in D
    <3>1. CASE n + 1 \in u
      <4>1. it[u \ {n + 1}] \in D /\ s[n + 1] \in E
        BY <2>1, <2>3, <1>1
      <4> QED
        BY <3>1, <4>1, OperationTypes
    <3>2. CASE n + 1 \notin u
      BY <3>2, <2>1, <2>2
    <3> QED
      BY <3>1, <3>2
  <2>5. g \in [SUBSET (1 .. n + 1) -> D]
    BY <2>4
  <2>6. ASSUME NEW u \in SUBSET (1 .. n + 1)
        PROVE  g[u] = IF u = {} THEN base ELSE op[<<g[u \ {Max(u)}], s[Max(u)]>>]
    <3>1. CASE u = {}
      <4>1. {} \in SUBSET (1 .. n) /\ {} \in SUBSET (1 .. n + 1) /\ n + 1 \notin {}
        OBVIOUS
      <4>2. g[{}] = it[{}] /\ it[{}] = base
        BY <4>1, <2>1
      <4> QED
        BY <3>1, <4>2
    <3>2. CASE u # {} /\ n + 1 \in u
      <4>1. Max(u) = n + 1
        <5>1. n + 1 \in Nat
          OBVIOUS
        <5>2. Max(u) \in u /\ \A y \in u : y <= Max(u)
          BY <3>2, <5>1, MaxOf
        <5>3. Max(u) \in 1 .. n + 1 /\ n + 1 <= Max(u)
          BY <5>2, <3>2
        <5> QED
          BY <5>3
      <4>2. /\ u \ {n + 1} \in SUBSET (1 .. n + 1)
            /\ n + 1 \notin u \ {n + 1}
        OBVIOUS
      <4>3. g[u \ {n + 1}] = it[u \ {n + 1}]
        BY <4>2
      <4>4. g[u] = op[<<it[u \ {n + 1}], s[n + 1]>>]
        BY <3>2
      <4> HIDE DEF g
      <4> QED
        BY <3>2, <4>1, <4>3, <4>4
    <3>3. CASE u # {} /\ n + 1 \notin u
      <4>1. u \in SUBSET (1 .. n)
        BY <3>3, <2>2
      <4>2. /\ u \ {Max(u)} \in SUBSET (1 .. n + 1)
            /\ n + 1 \notin u \ {Max(u)}
        BY <3>3
      <4>3. g[u] = it[u] /\ g[u \ {Max(u)}] = it[u \ {Max(u)}]
        BY <3>3, <4>2
      <4>4. it[u] = op[<<it[u \ {Max(u)}], s[Max(u)]>>]
        BY <3>3, <4>1, <2>1
      <4> HIDE DEF g
      <4> QED
        BY <3>3, <4>3, <4>4
    <3> QED
      BY <3>1, <3>2, <3>3
  <2>7. Upto(n + 1, g)
    BY <2>5, <2>6 DEF Upto
  <2> QED
    BY <2>7
<1>4. Nat \subseteq S
  BY <1>2, <1>3, Induction
<1>5. Len(s) \in S
  BY <1>1, <1>4
<1>6. PICK it : Upto(Len(s), it)
  BY <1>0, <1>1, <1>5
<1> QED
  BY <1>6 DEF Upto, IsIteration

-----------------------------------------------------------------------------
(* Where an operation ends over a sequence. *)

After(op, D, base, s) == (CHOOSE f : IsTrace(f, op, D, base, s))[Len(s)]

LEMMA AfterIs ==
  ASSUME NEW D, NEW E, NEW op, IsOperation(op, D, E), NEW base \in D, NEW s \in Seq(E),
         NEW f, IsTrace(f, op, D, base, s)
  PROVE  After(op, D, base, s) = f[Len(s)]
<1>1. IsTrace(CHOOSE g : IsTrace(g, op, D, base, s), op, D, base, s)
  OBVIOUS
<1>2. Len(s) \in Nat
  BY LenProperties
<1>3. (CHOOSE g : IsTrace(g, op, D, base, s)) = f
  BY <1>1, <1>2, TraceUnique
<1> QED
  BY <1>3 DEF After

LEMMA AfterType ==
  ASSUME NEW D, NEW E, NEW op, IsOperation(op, D, E), NEW base \in D, NEW s \in Seq(E)
  PROVE  After(op, D, base, s) \in D
<1>1. PICK f : IsTrace(f, op, D, base, s)
  BY TraceExists
<1>2. Len(s) \in Nat
  BY LenProperties
<1> QED
  BY <1>1, <1>2, AfterIs DEF IsTrace

LEMMA AfterNothing ==
  ASSUME NEW D, NEW E, NEW op, IsOperation(op, D, E), NEW base \in D
  PROVE  After(op, D, base, <<>>) = base
<1>1. PICK s \in Seq(E) : s = <<>> /\ Len(s) = 0
  BY EmptySeq
<1>2. PICK f : IsTrace(f, op, D, base, s)
  BY TraceExists
<1>3. After(op, D, base, s) = f[Len(s)]
  BY <1>2, AfterIs
<1> QED
  BY <1>1, <1>2, <1>3 DEF IsTrace

LEMMA AfterMore ==
  ASSUME NEW D, NEW E, NEW op, IsOperation(op, D, E), NEW base \in D,
         NEW s \in Seq(E), NEW t \in Seq(E)
  PROVE  After(op, D, base, s \o t) = After(op, D, After(op, D, base, s), t)
<1>1. /\ Len(s) \in Nat /\ Len(t) \in Nat
      /\ s \o t \in Seq(E) /\ Len(s \o t) = Len(s) + Len(t)
      /\ \A i \in 1 .. Len(s) + Len(t) :
           (s \o t)[i] = IF i <= Len(s) THEN s[i] ELSE t[i - Len(s)]
  BY LenProperties, ConcatProperties
<1>0. PICK w \in Seq(E) : w = s \o t
  BY <1>1
<1>2. PICK f : IsTrace(f, op, D, base, w)
  BY TraceExists
<1>3. /\ f \in [0 .. Len(s) + Len(t) -> D] /\ f[0] = base
      /\ \A i \in 1 .. Len(s) + Len(t) : f[i] = op[<<f[i - 1], (s \o t)[i]>>]
  BY <1>0, <1>1, <1>2 DEF IsTrace
<1> DEFINE g == [i \in 0 .. Len(s) |-> f[i]]
           h == [i \in 0 .. Len(t) |-> f[Len(s) + i]]
<1>4. IsTrace(g, op, D, base, s)
  <2>1. g \in [0 .. Len(s) -> D] /\ g[0] = base
    BY <1>1, <1>3
  <2>2. ASSUME NEW i \in 1 .. Len(s)
        PROVE  g[i] = op[<<g[i - 1], s[i]>>]
    <3>1. /\ i \in 1 .. Len(s) + Len(t) /\ i <= Len(s)
          /\ i \in 0 .. Len(s) /\ i - 1 \in 0 .. Len(s)
      BY <1>1
    <3>2. f[i] = op[<<f[i - 1], s[i]>>]
      BY <1>1, <1>3, <3>1
    <3> QED
      BY <3>1, <3>2
  <2> QED
    BY <2>1, <2>2 DEF IsTrace
<1>5. After(op, D, base, s) = f[Len(s)]
  <2>1. After(op, D, base, s) = g[Len(s)]
    BY <1>4, AfterIs
  <2> QED
    BY <2>1, <1>1
<1>6. f[Len(s)] \in D
  BY <1>1, <1>3
<1>7. IsTrace(h, op, D, f[Len(s)], t)
  <2>1. h \in [0 .. Len(t) -> D] /\ h[0] = f[Len(s)]
    BY <1>1, <1>3
  <2>2. ASSUME NEW i \in 1 .. Len(t)
        PROVE  h[i] = op[<<h[i - 1], t[i]>>]
    <3>1. /\ Len(s) + i \in 1 .. Len(s) + Len(t) /\ ~(Len(s) + i <= Len(s))
          /\ (Len(s) + i) - Len(s) = i /\ (Len(s) + i) - 1 = Len(s) + (i - 1)
          /\ i \in 0 .. Len(t) /\ i - 1 \in 0 .. Len(t)
      BY <1>1
    <3>2. f[Len(s) + i] = op[<<f[Len(s) + (i - 1)], t[i]>>]
      BY <1>1, <1>3, <3>1
    <3> QED
      BY <3>1, <3>2
  <2> QED
    BY <2>1, <2>2 DEF IsTrace
<1>8. After(op, D, f[Len(s)], t) = f[Len(s) + Len(t)]
  <2>1. After(op, D, f[Len(s)], t) = h[Len(t)]
    BY <1>6, <1>7, AfterIs
  <2> QED
    BY <2>1, <1>1
<1>9. After(op, D, base, s \o t) = f[Len(s) + Len(t)]
  <2>1. After(op, D, base, w) = f[Len(w)]
    BY <1>2, AfterIs
  <2> QED
    BY <1>0, <1>1, <2>1
<1> QED
  BY <1>5, <1>8, <1>9

(* Steps that change nothing. *)
LEMMA AfterIdle ==
  ASSUME NEW D, NEW E, NEW op, IsOperation(op, D, E), NEW base \in D, NEW s \in Seq(E),
         \A d \in D, i \in 1 .. Len(s) : op[<<d, s[i]>>] = d
  PROVE  After(op, D, base, s) = base
<1>1. Len(s) \in Nat
  BY LenProperties
<1>2. IsTrace([i \in 0 .. Len(s) |-> base], op, D, base, s)
  BY <1>1 DEF IsTrace
<1> QED
  BY <1>1, <1>2, AfterIs

(* How a fold over the places of a sequence comes to its end.               *)
LEMMA LastOfInterval ==
  ASSUME NEW i \in Nat \ {0}
  PROVE  Max(1 .. i) = i /\ (1 .. i) \ {i} = 1 .. i - 1
<1>1. i \in 1 .. i /\ 1 .. i \in SUBSET (1 .. i)
  OBVIOUS
<1>2. Max(1 .. i) \in 1 .. i /\ \A y \in 1 .. i : y <= Max(1 .. i)
  BY <1>1, MaxOf
<1> QED
  BY <1>1, <1>2

LEMMA FoldEnds ==
  ASSUME NEW D, NEW E, NEW op, IsOperation(op, D, E), NEW base \in D, NEW s \in Seq(E),
         NEW fold, fold[{}] = base,
         \A i \in 1 .. Len(s) : fold[1 .. i - 1] \in D =>
           fold[1 .. i] = op[<<fold[1 .. i - 1], s[i]>>]
  PROVE  fold[1 .. Len(s)] = After(op, D, base, s)
<1>1. Len(s) \in Nat
  BY LenProperties
<1>2. PICK f : IsTrace(f, op, D, base, s)
  BY TraceExists
<1>3. /\ f \in [0 .. Len(s) -> D] /\ f[0] = base
      /\ \A i \in 1 .. Len(s) : f[i] = op[<<f[i - 1], s[i]>>]
  BY <1>2 DEF IsTrace
<1> DEFINE S == {n \in Nat : n <= Len(s) => fold[1 .. n] = f[n]}
<1>4. 0 \in S
  <2>1. 1 .. 0 = {}
    OBVIOUS
  <2> QED
    BY <1>3, <2>1
<1>5. ASSUME NEW n \in Nat, n \in S
      PROVE  n + 1 \in S
  <2> SUFFICES ASSUME n + 1 <= Len(s) PROVE fold[1 .. n + 1] = f[n + 1]
    OBVIOUS
  <2>1. n + 1 \in 1 .. Len(s) /\ (n + 1) - 1 = n /\ n \in 0 .. Len(s)
    BY <1>1
  <2>2. fold[1 .. n] = f[n] /\ f[n] \in D
    BY <1>1, <1>3, <1>5, <2>1
  <2>3. fold[1 .. n + 1] = op[<<fold[1 .. n], s[n + 1]>>]
    BY <2>1, <2>2
  <2>4. f[n + 1] = op[<<f[n], s[n + 1]>>]
    BY <1>3, <2>1
  <2> QED
    BY <2>2, <2>3, <2>4
<1> HIDE DEF S
<1>6. Nat \subseteq S
  BY <1>4, <1>5, Induction
<1>7. fold[1 .. Len(s)] = f[Len(s)]
  BY <1>1, <1>6 DEF S
<1>8. After(op, D, base, s) = f[Len(s)]
  BY <1>2, AfterIs
<1> QED
  BY <1>7, <1>8

-----------------------------------------------------------------------------
(* Sequences of files: each a sequence of its own, all of them one.         *)

Joined(E) == [p \in Seq(E) \X Seq(E) |-> p[1] \o p[2]]

LEMMA JoinedIsOperation ==
  ASSUME NEW E
  PROVE  /\ IsOperation(Joined(E), Seq(E), Seq(E))
         /\ \A s, t \in Seq(E) : Joined(E)[<<s, t>>] = s \o t
<1>1. \A s, t \in Seq(E) : s \o t \in Seq(E)
  BY ConcatProperties
<1> QED
  BY <1>1 DEF Joined, IsOperation

LEMMA FlattenSeqIs ==
  ASSUME NEW E, NEW ss \in Seq(Seq(E))
  PROVE  FlattenSeq(ss) = After(Joined(E), Seq(E), <<>>, ss)
<1> DEFINE G(it) == [i \in 1 .. Len(ss) |-> IF i = 1 THEN ss[i] ELSE it[i - 1] \o ss[i]]
           flat == CHOOSE it : it = G(it)
<1>1. /\ Len(ss) \in Nat /\ \A i \in 1 .. Len(ss) : ss[i] \in Seq(E)
      /\ <<>> \in Seq(E)
  BY LenProperties, ElementOfSeq, EmptySeq
<1>2. CASE Len(ss) = 0
  <2>1. ss = <<>>
    BY <1>2, EmptySeq
  <2>2. FlattenSeq(ss) = ss
    BY <1>2 DEF FlattenSeq
  <2>3. After(Joined(E), Seq(E), <<>>, <<>>) = <<>>
    BY <1>1, JoinedIsOperation, AfterNothing
  <2> QED
    BY <2>1, <2>2, <2>3
<1>3. CASE Len(ss) # 0
  <2>1. FlattenSeq(ss) = flat[Len(ss)]
    BY <1>3 DEF FlattenSeq
  <2> HIDE DEF G, flat
  <2>2. PICK f : IsTrace(f, Joined(E), Seq(E), <<>>, ss)
    BY <1>1, JoinedIsOperation, TraceExists
  <2>3. /\ f \in [0 .. Len(ss) -> Seq(E)] /\ f[0] = <<>>
        /\ \A i \in 1 .. Len(ss) : f[i] = f[i - 1] \o ss[i]
    <3>1. /\ f \in [0 .. Len(ss) -> Seq(E)] /\ f[0] = <<>>
          /\ \A i \in 1 .. Len(ss) : f[i] = Joined(E)[<<f[i - 1], ss[i]>>]
      BY <2>2 DEF IsTrace
    <3>2. ASSUME NEW i \in 1 .. Len(ss)
          PROVE  f[i - 1] \in Seq(E) /\ ss[i] \in Seq(E)
      <4>1. i - 1 \in 0 .. Len(ss)
        BY <1>1
      <4> QED
        BY <1>1, <3>1, <4>1
    <3> QED
      BY <3>1, <3>2, JoinedIsOperation
  <2>4. 1 \in 1 .. Len(ss) => f[1] = ss[1]
    <3> SUFFICES ASSUME 1 \in 1 .. Len(ss) PROVE f[1] = ss[1]
      OBVIOUS
    <3>1. f[1] = <<>> \o ss[1]
      <4>1. 1 - 1 = 0
        OBVIOUS
      <4> QED
        BY <2>3, <4>1
    <3>2. ss[1] \in Seq(E)
      BY <1>1
    <3> QED
      BY <3>1, <3>2, ConcatEmptySeq
  <2> DEFINE g == [i \in 1 .. Len(ss) |-> f[i]]
  <2>5. g = G(g)
    <3>1. ASSUME NEW i \in 1 .. Len(ss)
          PROVE  g[i] = IF i = 1 THEN ss[i] ELSE g[i - 1] \o ss[i]
      <4>1. CASE i = 1
        BY <2>4, <4>1
      <4>2. CASE i # 1
        <5>1. i - 1 \in 1 .. Len(ss)
          BY <1>1, <4>2
        <5>2. g[i] = f[i] /\ g[i - 1] = f[i - 1]
          BY <5>1
        <5> HIDE DEF g
        <5> QED
          BY <2>3, <4>2, <5>2
      <4> QED
        BY <4>1, <4>2
    <3> QED
      BY <3>1 DEF G
  <2> HIDE DEF g
  <2>6. flat = G(flat)
    BY <2>5 DEF flat
  <2> DEFINE S == {n \in Nat : n + 1 <= Len(ss) => flat[n + 1] = f[n + 1]}
  <2>7. 0 \in S
    <3> SUFFICES ASSUME 0 + 1 <= Len(ss) PROVE flat[0 + 1] = f[0 + 1]
      OBVIOUS
    <3>1. 1 \in 1 .. Len(ss) /\ 0 + 1 = 1
      BY <1>1
    <3>2. flat[1] = ss[1]
      BY <2>6, <3>1 DEF G
    <3> QED
      BY <2>4, <3>1, <3>2
  <2>8. ASSUME NEW n \in Nat, n \in S
        PROVE  n + 1 \in S
    <3> SUFFICES ASSUME (n + 1) + 1 <= Len(ss)
                 PROVE  flat[(n + 1) + 1] = f[(n + 1) + 1]
      OBVIOUS
    <3>1. PICK m : m = (n + 1) + 1
      OBVIOUS
    <3>2. m \in 1 .. Len(ss) /\ m # 1 /\ m - 1 = n + 1
      BY <1>1, <3>1
    <3>3. flat[m - 1] = f[m - 1]
      BY <1>1, <2>8, <3>2
    <3>4. flat[m] = flat[m - 1] \o ss[m]
      BY <2>6, <3>2 DEF G
    <3>5. f[m] = f[m - 1] \o ss[m]
      BY <2>3, <3>2
    <3> QED
      BY <3>1, <3>3, <3>4, <3>5
  <2> HIDE DEF S
  <2>9. Nat \subseteq S
    BY <2>7, <2>8, Induction
  <2>10. flat[Len(ss)] = f[Len(ss)]
    <3>1. Len(ss) - 1 \in S /\ (Len(ss) - 1) + 1 = Len(ss)
      BY <1>1, <1>3, <2>9
    <3> QED
      BY <3>1, <1>1 DEF S
  <2>11. After(Joined(E), Seq(E), <<>>, ss) = f[Len(ss)]
    <3>1. IsOperation(Joined(E), Seq(E), Seq(E))
      BY JoinedIsOperation
    <3> QED
      <4>1. PICK D, base : D = Seq(E) /\ base = <<>>
        OBVIOUS
      <4>2. IsOperation(Joined(E), D, D) /\ base \in D /\ ss \in Seq(D)
        BY <1>1, <3>1, <4>1
      <4>3. IsTrace(f, Joined(E), D, base, ss)
        BY <2>2, <4>1
      <4>4. After(Joined(E), D, base, ss) = f[Len(ss)]
        BY <4>2, <4>3, AfterIs
      <4> QED
        BY <4>1, <4>4
  <2> QED
    BY <2>1, <2>10, <2>11
<1> QED
  BY <1>2, <1>3

(* An operation over a sequence of files.                                   *)
OverFiles(op, D, E) == [p \in D \X Seq(E) |-> After(op, D, p[1], p[2])]

LEMMA OverFilesIsOperation ==
  ASSUME NEW D, NEW E, NEW op, IsOperation(op, D, E)
  PROVE  /\ IsOperation(OverFiles(op, D, E), D, Seq(E))
         /\ \A d \in D, s \in Seq(E) : OverFiles(op, D, E)[<<d, s>>] = After(op, D, d, s)
<1>1. \A d \in D, s \in Seq(E) : After(op, D, d, s) \in D
  BY AfterType
<1> HIDE DEF After
<1>2. OverFiles(op, D, E) \in [D \X Seq(E) -> D]
  BY <1>1 DEF OverFiles
<1>3. \A d \in D, s \in Seq(E) : OverFiles(op, D, E)[<<d, s>>] = After(op, D, d, s)
  BY DEF OverFiles
<1> QED
  BY <1>2, <1>3 DEF IsOperation

LEMMA FileByFile ==
  ASSUME NEW D, NEW E, NEW op, IsOperation(op, D, E), NEW base \in D, NEW ss \in Seq(Seq(E))
  PROVE  /\ FlattenSeq(ss) \in Seq(E)
         /\ After(op, D, base, FlattenSeq(ss)) = After(OverFiles(op, D, E), D, base, ss)
<1>1. /\ Len(ss) \in Nat /\ \A i \in 1 .. Len(ss) : ss[i] \in Seq(E)
      /\ <<>> \in Seq(E)
  BY LenProperties, ElementOfSeq, EmptySeq
<1>2. PICK f : IsTrace(f, Joined(E), Seq(E), <<>>, ss)
  BY <1>1, JoinedIsOperation, TraceExists
<1>3. PICK g : IsTrace(g, OverFiles(op, D, E), D, base, ss)
  BY OverFilesIsOperation, TraceExists
<1>4. /\ f \in [0 .. Len(ss) -> Seq(E)] /\ f[0] = <<>>
      /\ \A i \in 1 .. Len(ss) : f[i] = Joined(E)[<<f[i - 1], ss[i]>>]
  BY <1>2 DEF IsTrace
<1>5. /\ g \in [0 .. Len(ss) -> D] /\ g[0] = base
      /\ \A i \in 1 .. Len(ss) : g[i] = OverFiles(op, D, E)[<<g[i - 1], ss[i]>>]
  BY <1>3 DEF IsTrace
<1> DEFINE S == {n \in Nat : n <= Len(ss) => After(op, D, base, f[n]) = g[n]}
<1>6. 0 \in S
  BY <1>4, <1>5, AfterNothing
<1>7. ASSUME NEW n \in Nat, n \in S
      PROVE  n + 1 \in S
  <2> SUFFICES ASSUME n + 1 <= Len(ss) PROVE After(op, D, base, f[n + 1]) = g[n + 1]
    OBVIOUS
  <2>1. n + 1 \in 1 .. Len(ss) /\ (n + 1) - 1 = n /\ n \in 0 .. Len(ss)
    BY <1>1
  <2>2. f[n] \in Seq(E) /\ ss[n + 1] \in Seq(E) /\ g[n] \in D
    BY <1>1, <1>4, <1>5, <2>1
  <2>3. After(op, D, base, f[n]) = g[n]
    BY <1>7, <2>1, <1>1
  <2>4. f[n + 1] = f[n] \o ss[n + 1]
    <3>1. f[n + 1] = Joined(E)[<<f[n], ss[n + 1]>>]
      BY <1>4, <2>1
    <3> QED
      BY <2>2, <3>1, JoinedIsOperation
  <2>5. g[n + 1] = After(op, D, g[n], ss[n + 1])
    <3>1. g[n + 1] = OverFiles(op, D, E)[<<g[n], ss[n + 1]>>]
      BY <1>5, <2>1
    <3> QED
      BY <2>2, <3>1, OverFilesIsOperation
  <2>6. After(op, D, base, f[n] \o ss[n + 1]) = After(op, D, g[n], ss[n + 1])
    BY <2>2, <2>3, AfterMore
  <2> QED
    BY <2>4, <2>5, <2>6
<1> HIDE DEF S
<1>8. Nat \subseteq S
  BY <1>6, <1>7, Induction
<1>9. After(op, D, base, f[Len(ss)]) = g[Len(ss)]
  BY <1>1, <1>8 DEF S
<1>10. f[Len(ss)] \in Seq(E)
  BY <1>1, <1>4
<1>11. FlattenSeq(ss) = f[Len(ss)]
  <2>1. After(Joined(E), Seq(E), <<>>, ss) = f[Len(ss)]
    <3>1. IsOperation(Joined(E), Seq(E), Seq(E))
      BY JoinedIsOperation
    <3> QED
      <4>1. PICK J, nil : J = Seq(E) /\ nil = <<>>
        OBVIOUS
      <4>2. IsOperation(Joined(E), J, J) /\ nil \in J /\ ss \in Seq(J)
        BY <1>1, <3>1, <4>1
      <4>3. IsTrace(f, Joined(E), J, nil, ss)
        BY <1>2, <4>1
      <4>4. After(Joined(E), J, nil, ss) = f[Len(ss)]
        BY <4>2, <4>3, AfterIs
      <4> QED
        BY <4>1, <4>4
  <2> QED
    BY <2>1, FlattenSeqIs
<1>12. After(OverFiles(op, D, E), D, base, ss) = g[Len(ss)]
  BY <1>3, OverFilesIsOperation, AfterIs
<1> QED
  BY <1>9, <1>10, <1>11, <1>12

LEMMA EmptyFile ==
  ASSUME NEW D, NEW E, NEW op, IsOperation(op, D, E), NEW d \in D
  PROVE  OverFiles(op, D, E)[<<d, <<>>>>] = d
<1>1. <<>> \in Seq(E)
  BY EmptySeq
<1>2. OverFiles(op, D, E)[<<d, <<>>>>] = After(op, D, d, <<>>)
  BY <1>1, OverFilesIsOperation
<1>3. After(op, D, d, <<>>) = d
  BY AfterNothing
<1> QED
  BY <1>2, <1>3

(* The first files and then the others is all of them.                      *)
GoesOn(first, rest, all) ==
  /\ Len(first) <= Len(all) /\ Len(rest) = Len(all)
  /\ \A i \in 1 .. Len(first) : first[i] = all[i] /\ rest[i] = <<>>
  /\ \A i \in Len(first) + 1 .. Len(all) : rest[i] = all[i]

LEMMA FilesGoOn ==
  ASSUME NEW D, NEW E, NEW op, IsOperation(op, D, E), NEW base \in D,
         NEW all \in Seq(Seq(E)), NEW first \in Seq(Seq(E)), NEW rest \in Seq(Seq(E)),
         GoesOn(first, rest, all)
  PROVE  After(OverFiles(op, D, E), D, After(OverFiles(op, D, E), D, base, first), rest)
           = After(OverFiles(op, D, E), D, base, all)
<1>0. PICK F, T : F = OverFiles(op, D, E) /\ T = Seq(E)
  OBVIOUS
<1>1. IsOperation(F, D, T)
  BY <1>0, OverFilesIsOperation
<1>2. all \in Seq(T) /\ first \in Seq(T) /\ rest \in Seq(T)
  BY <1>0
<1>3. Len(all) \in Nat /\ Len(first) \in Nat
  BY LenProperties
<1> USE DEF GoesOn
<1>4. PICK k \in 0 .. Len(all) : k = Len(first)
  BY <1>3
<1>5. PICK f : IsTrace(f, F, D, base, all)
  BY <1>1, <1>2, TraceExists
<1>6. /\ f \in [0 .. Len(all) -> D] /\ f[0] = base
      /\ \A i \in 1 .. Len(all) : f[i] = F[<<f[i - 1], all[i]>>]
  BY <1>5 DEF IsTrace
<1>7. f[k] \in D /\ f[Len(all)] \in D
  BY <1>3, <1>4, <1>6
<1>8. After(F, D, base, first) = f[k]
  <2> DEFINE g == [i \in 0 .. k |-> f[i]]
  <2>1. g \in [0 .. k -> D] /\ g[0] = base
    <3>1. 0 \in 0 .. k /\ \A i \in 0 .. k : i \in 0 .. Len(all)
      BY <1>3, <1>4
    <3> QED
      BY <1>6, <3>1
  <2>2. ASSUME NEW i \in 1 .. k
        PROVE  g[i] = F[<<g[i - 1], first[i]>>]
    <3>1. i \in 1 .. Len(all) /\ i \in 0 .. k /\ i - 1 \in 0 .. k
      BY <1>3
    <3>2. g[i] = f[i] /\ g[i - 1] = f[i - 1]
      BY <3>1
    <3> HIDE DEF g
    <3>3. first[i] = all[i]
      BY <1>4
    <3> QED
      BY <1>6, <3>1, <3>2, <3>3
  <2>3. IsTrace(g, F, D, base, first)
    BY <1>4, <2>1, <2>2 DEF IsTrace
  <2>4. g[k] = f[k]
    BY <1>3
  <2> HIDE DEF g
  <2>5. After(F, D, base, first) = g[Len(first)]
    BY <1>1, <1>2, <2>3, AfterIs
  <2> QED
    BY <1>4, <2>4, <2>5
<1>9. After(F, D, f[k], rest) = f[Len(all)]
  <2> DEFINE g == [i \in 0 .. Len(all) |-> IF i <= k THEN f[k] ELSE f[i]]
  <2>1. g \in [0 .. Len(all) -> D] /\ g[0] = f[k]
    BY <1>3, <1>6, <1>7
  <2>2. ASSUME NEW i \in 1 .. Len(all)
        PROVE  g[i] = F[<<g[i - 1], rest[i]>>]
    <3>1. i \in 0 .. Len(all) /\ i - 1 \in 0 .. Len(all)
      BY <1>3
    <3>2. CASE i <= k
      <4>1. g[i] = f[k] /\ g[i - 1] = f[k]
        BY <3>1, <3>2
      <4> HIDE DEF g
      <4>2. rest[i] = <<>>
        BY <1>4, <3>2
      <4>3. F[<<f[k], <<>>>>] = f[k]
        BY <1>0, <1>7, EmptyFile
      <4> QED
        BY <4>1, <4>2, <4>3
    <3>3. CASE ~(i <= k)
      <4>1. g[i] = f[i] /\ g[i - 1] = f[i - 1]
        BY <3>1, <3>3, <1>3, <1>4
      <4> HIDE DEF g
      <4>2. i \in Len(first) + 1 .. Len(all)
        BY <1>3, <1>4, <3>3
      <4>3. rest[i] = all[i]
        BY <4>2
      <4> QED
        BY <1>6, <4>1, <4>3
    <3> QED
      BY <3>2, <3>3
  <2>3. IsTrace(g, F, D, f[k], rest)
    BY <2>1, <2>2 DEF IsTrace
  <2>4. g[Len(all)] = f[Len(all)]
    BY <1>3
  <2> HIDE DEF g
  <2>5. After(F, D, f[k], rest) = g[Len(rest)]
    BY <1>1, <1>2, <1>7, <2>3, AfterIs
  <2> QED
    BY <2>4, <2>5
<1>10. After(F, D, base, all) = f[Len(all)]
  BY <1>1, <1>2, <1>5, AfterIs
<1> QED
  BY <1>0, <1>8, <1>9, <1>10

(* A file whose statements change nothing need not be read.                 *)
Skips(some, all, op, D) ==
  /\ Len(some) = Len(all)
  /\ \A i \in 1 .. Len(all) :
       \/ some[i] = all[i]
       \/ some[i] = <<>> /\ \A d \in D, n \in 1 .. Len(all[i]) : op[<<d, all[i][n]>>] = d

LEMMA FilesMayBeSkipped ==
  ASSUME NEW D, NEW E, NEW op, IsOperation(op, D, E), NEW base \in D,
         NEW all \in Seq(Seq(E)), NEW some \in Seq(Seq(E)),
         Skips(some, all, op, D)
  PROVE  After(OverFiles(op, D, E), D, base, some) = After(OverFiles(op, D, E), D, base, all)
<1> USE DEF Skips
<1>0. PICK F, T : F = OverFiles(op, D, E) /\ T = Seq(E)
  OBVIOUS
<1>1. IsOperation(F, D, T)
  BY <1>0, OverFilesIsOperation
<1>2. all \in Seq(T) /\ some \in Seq(T)
  BY <1>0
<1>3. Len(all) \in Nat /\ \A i \in 1 .. Len(all) : all[i] \in Seq(E)
  BY LenProperties, ElementOfSeq
<1>4. PICK f : IsTrace(f, F, D, base, all)
  BY <1>1, <1>2, TraceExists
<1>5. /\ f \in [0 .. Len(all) -> D] /\ f[0] = base
      /\ \A i \in 1 .. Len(all) : f[i] = F[<<f[i - 1], all[i]>>]
  BY <1>4 DEF IsTrace
<1>6. ASSUME NEW i \in 1 .. Len(all)
      PROVE  f[i] = F[<<f[i - 1], some[i]>>]
  <2>1. CASE some[i] = all[i]
    BY <1>5, <2>1
  <2>2. CASE /\ some[i] = <<>>
             /\ \A d \in D, n \in 1 .. Len(all[i]) : op[<<d, all[i][n]>>] = d
    <3>1. i - 1 \in 0 .. Len(all)
      BY <1>3
    <3>2. PICK d \in D : d = f[i - 1]
      BY <1>5, <3>1
    <3>3. PICK file \in Seq(E) : file = all[i]
      BY <1>3
    <3>4. After(op, D, d, file) = d
      <4>1. \A c \in D, n \in 1 .. Len(file) : op[<<c, file[n]>>] = c
        BY <2>2, <3>3
      <4> QED
        BY <4>1, AfterIdle
    <3>5. F[<<d, file>>] = d
      BY <1>0, <3>4, OverFilesIsOperation
    <3>6. F[<<d, <<>>>>] = d
      BY <1>0, EmptyFile
    <3> QED
      BY <1>5, <2>2, <3>2, <3>3, <3>5, <3>6
  <2> QED
    BY <2>1, <2>2
<1>7. IsTrace(f, F, D, base, some)
  BY <1>5, <1>6 DEF IsTrace
<1>8. After(F, D, base, some) = f[Len(some)]
  BY <1>1, <1>2, <1>7, AfterIs
<1>9. After(F, D, base, all) = f[Len(all)]
  BY <1>1, <1>2, <1>4, AfterIs
<1> QED
  BY <1>0, <1>8, <1>9

LEMMA SeqOfAll ==
  ASSUME NEW S, NEW T, NEW s \in Seq(S), \A i \in 1 .. Len(s) : s[i] \in T
  PROVE  s \in Seq(T)
<1>1. Len(s) \in Nat /\ s \in [1 .. Len(s) -> S]
  BY LenProperties
<1>2. s \in [1 .. Len(s) -> T]
  BY <1>1
<1> QED
  BY <1>1, <1>2

LEMMA FlattenSeqType ==
  ASSUME NEW E, NEW ss \in Seq(Seq(E))
  PROVE  FlattenSeq(ss) \in Seq(E)
<1>1. PICK D, base : D = Seq(E) /\ base = <<>>
  OBVIOUS
<1>2. IsOperation(Joined(E), D, D) /\ base \in D /\ ss \in Seq(D)
  BY <1>1, JoinedIsOperation, EmptySeq
<1>3. After(Joined(E), D, base, ss) \in D
  BY <1>2, AfterType
<1> QED
  BY <1>1, <1>3, FlattenSeqIs

-----------------------------------------------------------------------------
(* Statements, and what they are about. *)

PlainOps ==
  {"create table", "drop table", "enable", "disable", "force", "no force", "unreadable"}
PolicyOps == {"create policy", "alter policy", "drop policy"}

Policies == [name : {"tenant", "other"}, lets : {"own", "all"}]

Statements == [op : PlainOps, table : Tables]
              \cup [op : PolicyOps, table : Tables, policy : Policies]

LEMMA StatementIs ==
  /\ \A t \in Tables, op \in PlainOps : Stmt(op, t) \in Statements
  /\ \A t \in Tables, op \in PolicyOps, p \in Policies :
       PolicyStmt(op, t, p) \in Statements
BY DEF Stmt, PolicyStmt, Statements

LEMMA StatementShape ==
  ASSUME NEW s \in Statements
  PROVE  /\ s.table \in Tables
         /\ s.op \in PlainOps => s = Stmt(s.op, s.table)
         /\ s.op \notin PlainOps => s.op \in PolicyOps /\ s.policy \in Policies
BY DEF Statements, Stmt, PlainOps, PolicyOps

LEMMA StraysAreStatements == Strays \subseteq Statements
<1> SUFFICES ASSUME NEW s \in Strays PROVE s \in Statements
  OBVIOUS
<1>1. PICK t \in Tables :
        s \in {Stmt(op, t) : op \in Forcing \cup {"disable", "drop table", "unreadable"}}
              \cup {PolicyStmt("create policy", t, [name |-> "other", lets |-> "all"]),
                    PolicyStmt("alter policy", t, [Canonical EXCEPT !.lets = "all"]),
                    PolicyStmt("drop policy", t, Canonical)}
  BY DEF Strays
<1>2. \A op \in Forcing \cup {"disable", "drop table", "unreadable"} :
        Stmt(op, t) \in Statements
  BY StatementIs DEF Forcing, PlainOps
<1>3. /\ [name |-> "other", lets |-> "all"] \in Policies
      /\ [Canonical EXCEPT !.lets = "all"] \in Policies
      /\ Canonical \in Policies
  BY DEF Canonical, Policies
<1>4. {"create policy", "alter policy", "drop policy"} \subseteq PolicyOps
  BY DEF PolicyOps
<1>5. /\ PolicyStmt("create policy", t, [name |-> "other", lets |-> "all"]) \in Statements
      /\ PolicyStmt("alter policy", t, [Canonical EXCEPT !.lets = "all"]) \in Statements
      /\ PolicyStmt("drop policy", t, Canonical) \in Statements
  BY <1>3, <1>4, StatementIs
<1> QED
  BY <1>1, <1>2, <1>5

(* What a tool writes by enumerating a set of tables.                       *)
LEMMA EnumeratedSet ==
  ASSUME NEW S, IsFiniteSet(S)
  PROVE  /\ Cardinality(S) \in Nat
         /\ SetToSeq(S) \in [1 .. Cardinality(S) -> S]
         /\ SetToSeq(S) \in Seq(S)
<1>1. Cardinality(S) \in Nat /\ ExistsBijection(1 .. Cardinality(S), S)
  BY FS_CardinalityType
<1>2. PICK f \in [1 .. Cardinality(S) -> S] : IsInjective(f)
  BY <1>1 DEF ExistsBijection, Bijection, Injection, Surjection, IsInjective
<1>3. SetToSeq(S) \in [1 .. Cardinality(S) -> S]
  BY <1>2 DEF SetToSeq
<1> QED
  BY <1>1, <1>3

LEMMA GeneratedIsSql ==
  ASSUME NEW t \in Tables, NEW from, NEW to
  PROVE  Generated(t, from, to) \in Seq(Statements)
<1> DEFINE created == IF from = "absent" THEN <<Stmt("create table", t)>> ELSE <<>>
           guarded == IF to = "tenant"
                      THEN <<Stmt("enable", t), PolicyStmt("create policy", t, Canonical)>>
                      ELSE <<>>
           opened == IF from = "tenant" THEN <<PolicyStmt("drop policy", t, Canonical)>>
                     ELSE <<>>
           disabled == IF from = "tenant" /\ to = "nonTenant"
                       THEN <<Stmt("disable", t)>> ELSE <<>>
           dropped == IF to = "absent" THEN <<Stmt("drop table", t)>> ELSE <<>>
<1>1. /\ Stmt("create table", t) \in Statements /\ Stmt("enable", t) \in Statements
      /\ Stmt("disable", t) \in Statements /\ Stmt("drop table", t) \in Statements
      /\ PolicyStmt("create policy", t, Canonical) \in Statements
      /\ PolicyStmt("drop policy", t, Canonical) \in Statements
  <2>1. Canonical \in Policies
    BY DEF Canonical, Policies
  <2> QED
    BY <2>1, StatementIs DEF PlainOps, PolicyOps
<1>2. /\ <<>> \in Seq(Statements)
      /\ \A s \in Statements : <<s>> \in Seq(Statements)
      /\ \A s, r \in Statements : <<s, r>> \in Seq(Statements)
  BY EmptySeq
<1>3. /\ <<Stmt("create table", t)>> \in Seq(Statements)
      /\ <<Stmt("enable", t), PolicyStmt("create policy", t, Canonical)>> \in Seq(Statements)
      /\ <<PolicyStmt("drop policy", t, Canonical)>> \in Seq(Statements)
      /\ <<Stmt("disable", t)>> \in Seq(Statements)
      /\ <<Stmt("drop table", t)>> \in Seq(Statements)
  BY <1>1, <1>2
<1>4. Generated(t, from, to) = created \o guarded \o opened \o disabled \o dropped
  BY DEF Generated
<1>5. created \in Seq(Statements)
  BY <1>2, <1>3, Zenon
<1>6. guarded \in Seq(Statements)
  BY <1>2, <1>3, Zenon
<1>7. opened \in Seq(Statements)
  BY <1>2, <1>3, Zenon
<1>8. disabled \in Seq(Statements)
  BY <1>2, <1>3, Zenon
<1>9. dropped \in Seq(Statements)
  BY <1>2, <1>3, Zenon
<1> HIDE DEF created, guarded, opened, disabled, dropped
<1> QED
  BY <1>4, <1>5, <1>6, <1>7, <1>8, <1>9, ConcatProperties

LEMMA ForceDeltaIsSql ==
  ASSUME NEW schema, NEW journal
  PROVE  ForceDelta(schema, journal) \in Seq(Statements)
<1> DEFINE wrong == Misforced(schema, journal)
           S == {Stmt(IF schema[t] = "tenant" THEN "force" ELSE "no force", t) : t \in wrong}
           f == [t \in wrong |-> Stmt(IF schema[t] = "tenant" THEN "force" ELSE "no force", t)]
<1>1. wrong \in SUBSET Tables
  BY DEF Misforced
<1>2. IsFiniteSet(wrong)
  BY <1>1, MigrationsAssumption, FS_Subset
<1>3. S \subseteq Statements
  BY <1>1, StatementIs DEF PlainOps
<1>4. f \in Surjection(wrong, S)
  BY DEF Surjection
<1>5. ForceDelta(schema, journal) = SetToSeq(S)
  BY DEF ForceDelta
<1> HIDE DEF wrong, f, S
<1>6. IsFiniteSet(S)
  BY <1>2, <1>4, FS_Surjection
<1>7. SetToSeq(S) \in Seq(S)
  BY <1>6, EnumeratedSet
<1> QED
  BY <1>3, <1>5, <1>7, SeqMonotonic

LEMMA EditedIsSql ==
  ASSUME NEW sql \in Seq(Statements)
  PROVE  /\ \A s \in Strays : Append(sql, s) \in Seq(Statements)
         /\ \A k \in DOMAIN sql : RemoveAt(sql, k) \in Seq(Statements)
<1>1. \A s \in Strays : Append(sql, s) \in Seq(Statements)
  BY StraysAreStatements, AppendProperties
<1>2. ASSUME NEW k \in DOMAIN sql
      PROVE  RemoveAt(sql, k) \in Seq(Statements)
  <2>1. /\ Len(sql) \in Nat /\ k \in 1 .. Len(sql)
        /\ \A i \in 1 .. Len(sql) : sql[i] \in Statements
    BY LenProperties, ElementOfSeq
  <2>2. SubSeq(sql, 1, k - 1) \in Seq(Statements)
    BY <2>1, SubSeqProperties
  <2>3. SubSeq(sql, k + 1, Len(sql)) \in Seq(Statements)
    BY <2>1, SubSeqProperties
  <2> QED
    BY <2>2, <2>3, ConcatProperties DEF RemoveAt
<1> QED
  BY <1>1, <1>2

-----------------------------------------------------------------------------
(* The invariant. *)

IsMigration(m) ==
  /\ m.when \in Nat \ {0}
  /\ m.sql \in Seq(Statements)
  /\ m = Migration(m.when, m.snapshot, m.marker, m.sql)

IsJournal(j) ==
  /\ j \in Seq(Range(j))
  /\ \A i \in DOMAIN j : IsMigration(j[i])

(* A branch carries what main held where it was cut or last rebased, and as  *)
(* many migrations of its own as it appended.                               *)
IsBranch(b) ==
  /\ b = [base |-> b.base, journal |-> b.journal, schema |-> b.schema]
  /\ IsJournal(b.journal)
  /\ IsJournal(b.base.journal)
  /\ Len(b.base.journal) <= Len(b.journal)

Typed ==
  /\ IsJournal(main.journal)
  /\ branch = [b \in Branches |-> branch[b]]
  /\ \A b \in Branches : branch[b] # NoBranch => IsBranch(branch[b])
  /\ runs = [o \in Migrators |-> runs[o]]

(* Every migration is newer than all before it. *)
Ordered(j) == \A i, k \in DOMAIN j : i < k => j[i].when < j[k].when

Continues(before, after) ==
  /\ Len(before) <= Len(after)
  /\ \A i \in 1 .. Len(before) : after[i] = before[i]

(* A database was migrated up to some migration of main, and holds the rows  *)
(* of all before it as they are committed, each at least once.              *)
AppliedUpTo(j, ledger, k) ==
  /\ BagToSet(ledger) = {Row(j[i]) : i \in 1 .. k}
  /\ \A row \in BagToSet(ledger) : ledger[row] \in Nat \ {0}

NewestAt(j, n) == IF n = 0 THEN 0 ELSE j[n].when

(* A run under way ships with a journal that main has continued, and read    *)
(* the ledger when it was at some migration before the end of that.         *)
ReadAt(run, j, n) ==
  /\ IsJournal(run.journal)
  /\ Continues(run.journal, j)
  /\ n < Len(run.journal)
  /\ run.newest = NewestAt(run.journal, n)

RunsBehind(k) ==
  \A o \in Migrators : runs[o] # NoRun =>
    \E n \in 0 .. k : ReadAt(runs[o], main.journal, n)

(* Until a run commits beside another, what a run under way read still       *)
(* holds, and no row is in the ledger more than once.                       *)
OneByOne(k) ==
  /\ \A o \in Migrators : runs[o] # NoRun => ReadAt(runs[o], main.journal, k)
  /\ \A row \in BagToSet(database.ledger) : database.ledger[row] = 1

MigratedTo(k) ==
  /\ AppliedUpTo(main.journal, database.ledger, k)
  /\ RunsBehind(k)
  /\ ~overlapped => OneByOne(k)

HistoryInv ==
  /\ Typed
  /\ Ordered(main.journal)
  /\ \E k \in 0 .. Len(main.journal) : MigratedTo(k)

-----------------------------------------------------------------------------
(* Journals. *)

LEMMA JournalShape ==
  ASSUME NEW j, IsJournal(j)
  PROVE  /\ Len(j) \in Nat
         /\ DOMAIN j = 1 .. Len(j)
         /\ \A i \in 1 .. Len(j) : IsMigration(j[i]) /\ j[i].when \in Nat \ {0}
<1>1. j \in Seq(Range(j))
  BY DEF IsJournal
<1>2. Len(j) \in Nat /\ DOMAIN j = 1 .. Len(j)
  BY <1>1, LenProperties
<1>3. \A i \in DOMAIN j : IsMigration(j[i]) /\ j[i].when \in Nat \ {0}
  BY DEF IsJournal, IsMigration
<1> QED
  BY <1>2, <1>3

LEMMA MigrationsMakeAJournal ==
  ASSUME NEW S, NEW j \in Seq(S), \A m \in S : IsMigration(m)
  PROVE  IsJournal(j)
<1>1. j \in Seq(Range(j))
  BY SeqOfRange
<1>2. Len(j) \in Nat /\ DOMAIN j = 1 .. Len(j) /\ \A i \in 1 .. Len(j) : j[i] \in S
  BY LenProperties, ElementOfSeq
<1> QED
  BY <1>1, <1>2 DEF IsJournal

LEMMA RangeOfJournal ==
  ASSUME NEW j, IsJournal(j)
  PROVE  j \in Seq(Range(j)) /\ \A m \in Range(j) : IsMigration(m)
BY DEF IsJournal, Range

LEMMA MigrationIs ==
  ASSUME NEW when \in Nat \ {0}, NEW snapshot, NEW marker,
         NEW sql \in Seq(Statements)
  PROVE  IsMigration(Migration(when, snapshot, marker, sql))
BY DEF IsMigration, Migration

LEMMA AppendedIsJournal ==
  ASSUME NEW j, IsJournal(j), NEW m, IsMigration(m)
  PROVE  IsJournal(Append(j, m)) /\ Len(Append(j, m)) = Len(j) + 1
<1> DEFINE S == Range(j) \cup {m}
<1>1. j \in Seq(S)
  BY RangeOfJournal, SeqMonotonic
<1>2. \A n \in S : IsMigration(n)
  BY RangeOfJournal
<1> HIDE DEF S
<1>3. m \in S
  BY DEF S
<1>4. Append(j, m) \in Seq(S) /\ Len(Append(j, m)) = Len(j) + 1
  BY <1>1, <1>3, AppendProperties
<1> QED
  BY <1>2, <1>4, MigrationsMakeAJournal

(* A file that is edited keeps its place and its time.                      *)
LEMMA EditedIsJournal ==
  ASSUME NEW j, IsJournal(j), NEW i \in DOMAIN j, NEW sql \in Seq(Statements)
  PROVE  /\ IsJournal([j EXCEPT ![i] = [@ EXCEPT !.sql = sql]])
         /\ Len([j EXCEPT ![i] = [@ EXCEPT !.sql = sql]]) = Len(j)
<1> DEFINE m == [j[i] EXCEPT !.sql = sql]
           S == Range(j) \cup {m}
<1>1. j \in Seq(S)
  BY RangeOfJournal, SeqMonotonic
<1>2. i \in 1 .. Len(j) /\ IsMigration(j[i])
  BY JournalShape
<1>3. IsMigration(m)
  BY <1>2 DEF IsMigration, Migration
<1>4. \A n \in S : IsMigration(n)
  BY <1>3, RangeOfJournal
<1>5. m \in S
  OBVIOUS
<1> HIDE DEF S, m
<1>6. [j EXCEPT ![i] = m] \in Seq(S) /\ Len([j EXCEPT ![i] = m]) = Len(j)
  BY <1>1, <1>2, <1>5, ExceptSeq
<1>7. IsJournal([j EXCEPT ![i] = m])
  BY <1>4, <1>6, MigrationsMakeAJournal
<1> QED
  BY <1>6, <1>7 DEF m

LEMMA PieceOfJournal ==
  ASSUME NEW j, IsJournal(j), NEW m \in Nat \ {0}, NEW n \in 0 .. Len(j)
  PROVE  /\ IsJournal(SubSeq(j, m, n))
         /\ Len(SubSeq(j, m, n)) = IF m <= n THEN n - m + 1 ELSE 0
<1> DEFINE S == Range(j)
<1>1. \A x \in S : IsMigration(x)
  BY RangeOfJournal
<1>2. \A i \in m .. n : j[i] \in S
  BY JournalShape DEF Range
<1> HIDE DEF S
<1>3. Len(j) \in Nat
  BY JournalShape
<1>4. /\ SubSeq(j, m, n) \in Seq(S)
      /\ Len(SubSeq(j, m, n)) = IF m <= n THEN n - m + 1 ELSE 0
  BY <1>2, <1>3, SubSeqProperties
<1> QED
  BY <1>1, <1>4, MigrationsMakeAJournal

LEMMA JoinedIsJournal ==
  ASSUME NEW j, IsJournal(j), NEW k, IsJournal(k)
  PROVE  IsJournal(j \o k) /\ Len(j \o k) = Len(j) + Len(k)
<1> DEFINE S == Range(j) \cup Range(k)
<1>1. j \in Seq(S) /\ k \in Seq(S)
  BY RangeOfJournal, SeqMonotonic
<1>2. \A m \in S : IsMigration(m)
  BY RangeOfJournal
<1> HIDE DEF S
<1>3. j \o k \in Seq(S) /\ Len(j \o k) = Len(j) + Len(k)
  BY <1>1, ConcatProperties
<1> QED
  BY <1>2, <1>3, MigrationsMakeAJournal

-----------------------------------------------------------------------------
(* What migrate reads of the ledger. *)

LEMMA MaxIs ==
  ASSUME NEW S, S \subseteq Nat, NEW x \in S, \A y \in S : y <= x
  PROVE  Max(S) = x
<1>1. \A z \in S : (\A y \in S : z >= y) <=> z = x
  OBVIOUS
<1> QED
  BY <1>1 DEF Max

LEMMA MaxBounds ==
  ASSUME NEW x \in Nat \ {0}, NEW y \in Nat \ {0}
  PROVE  Max({x, y}) \in Nat \ {0}
<1>1. CASE x <= y
  <2>1. Max({x, y}) = y
    BY <1>1, MaxIs
  <2> QED BY <2>1
<1>2. CASE y <= x
  <2>1. Max({x, y}) = x
    BY <1>2, MaxIs
  <2> QED BY <2>1
<1> QED
  BY <1>1, <1>2

(* A ledger that was migrated up to a place has the row of that place as its *)
(* newest.                                                                  *)
LEMMA NewestIs ==
  ASSUME NEW j, IsJournal(j), Ordered(j),
         NEW ledger, NEW k \in 0 .. Len(j), AppliedUpTo(j, ledger, k)
  PROVE  NewestApplied(ledger) = NewestAt(j, k)
<1> DEFINE T == {row.when : row \in BagToSet(ledger)} \cup {0}
<1>1. Len(j) \in Nat /\ \A n \in 1 .. Len(j) : j[n].when \in Nat \ {0}
  BY JournalShape
<1>2. \A y : y \in T <=> y = 0 \/ \E n \in 1 .. k : y = j[n].when
  <2>1. \A n : Row(j[n]).when = j[n].when
    BY DEF Row
  <2>2. BagToSet(ledger) = {Row(j[n]) : n \in 1 .. k}
    BY DEF AppliedUpTo
  <2> QED
    BY <2>1, <2>2
<1>0. NewestApplied(ledger) = Max(T)
  BY DEF NewestApplied
<1> HIDE DEF T
<1>3. T \subseteq Nat
  <2> SUFFICES ASSUME NEW y \in T PROVE y \in Nat
    OBVIOUS
  <2>1. y = 0 \/ \E n \in 1 .. k : y = j[n].when
    BY <1>2
  <2>2. \A n \in 1 .. k : n \in 1 .. Len(j)
    BY <1>1
  <2> QED
    BY <1>1, <2>1, <2>2
<1>4. \A m, n \in 1 .. Len(j) : m < n => j[m].when < j[n].when
  BY JournalShape DEF Ordered
<1>5. CASE k = 0
  <2>1. T = {0}
    BY <1>2, <1>5
  <2> QED
    BY <2>1, <1>0, <1>3, <1>5, MaxIs DEF NewestAt
<1>6. CASE k # 0
  <2>1. k \in 1 .. k /\ k \in 1 .. Len(j)
    BY <1>1, <1>6
  <2>2. j[k].when \in T
    BY <2>1, <1>2
  <2>3. ASSUME NEW y \in T
        PROVE  y <= j[k].when
    <3>1. CASE y = 0
      BY <3>1, <2>1, <1>1
    <3>2. ASSUME NEW n \in 1 .. k, y = j[n].when
          PROVE  y <= j[k].when
      <4>1. n \in 1 .. Len(j) /\ (n = k \/ n < k)
        BY <1>1
      <4> QED
        BY <4>1, <3>2, <2>1, <1>1, <1>4
    <3> QED
      BY <3>1, <3>2, <1>2
  <2>4. NewestApplied(ledger) = j[k].when
    BY <2>2, <2>3, <1>0, <1>3, MaxIs
  <2> QED
    BY <2>4, <1>6 DEF NewestAt
<1> QED
  BY <1>5, <1>6

(* Newer than the row of a place means beyond that place.                    *)
LEMMA NewerMeansBeyond ==
  ASSUME NEW j, IsJournal(j), Ordered(j), NEW n \in 0 .. Len(j), NEW i \in 1 .. Len(j)
  PROVE  j[i].when > NewestAt(j, n) <=> i > n
<1>1. Len(j) \in Nat /\ \A m \in 1 .. Len(j) : j[m].when \in Nat \ {0}
  BY JournalShape
<1>2. CASE n = 0
  BY <1>1, <1>2 DEF NewestAt
<1>3. CASE n # 0
  <2>1. n \in 1 .. Len(j) /\ NewestAt(j, n) = j[n].when
    BY <1>1, <1>3 DEF NewestAt
  <2>2. (i < n => j[i].when < j[n].when) /\ (n < i => j[n].when < j[i].when)
    BY <2>1, JournalShape DEF Ordered
  <2>3. i = n => j[i].when = j[n].when
    OBVIOUS
  <2>4. j[i].when \in Nat /\ j[n].when \in Nat /\ i \in Nat /\ n \in Nat
    BY <2>1, <1>1
  <2> QED
    BY <2>1, <2>2, <2>3, <2>4
<1> QED
  BY <1>2, <1>3

(* A ledger is at one place of a journal. *)
LEMMA OnePlace ==
  ASSUME NEW j, IsJournal(j), Ordered(j), NEW ledger,
         NEW k \in 0 .. Len(j), AppliedUpTo(j, ledger, k),
         NEW n \in 0 .. Len(j), AppliedUpTo(j, ledger, n), k < n
  PROVE  FALSE
<1>1. n \in 1 .. Len(j)
  BY JournalShape
<1>2. j[n].when > NewestAt(j, k) /\ ~(j[n].when > NewestAt(j, n))
  BY <1>1, NewerMeansBeyond
<1>3. NewestAt(j, k) = NewestAt(j, n)
  <2>1. NewestApplied(ledger) = NewestAt(j, k)
    BY NewestIs
  <2>2. NewestApplied(ledger) = NewestAt(j, n)
    BY NewestIs
  <2> QED
    BY <2>1, <2>2
<1> QED
  BY <1>2, <1>3

(* The rows of a ledger are in the order of their times. *)
LEMMA RowsDiffer ==
  ASSUME NEW j, IsJournal(j), Ordered(j), NEW i \in 1 .. Len(j), NEW n \in 1 .. Len(j),
         j[i].when = j[n].when
  PROVE  i = n
<1>1. Len(j) \in Nat /\ \A m \in 1 .. Len(j) : j[m].when \in Nat \ {0}
  BY JournalShape
<1>2. (i < n => j[i].when < j[n].when) /\ (n < i => j[n].when < j[i].when)
  BY JournalShape DEF Ordered
<1> QED
  BY <1>1, <1>2

(* A journal that another continues is in order as that is, and the rows of  *)
(* its places are the same.                                                 *)
LEMMA ContinuedIsOrdered ==
  ASSUME NEW j, IsJournal(j), NEW after, IsJournal(after), Ordered(after),
         Continues(j, after)
  PROVE  Ordered(j)
<1>1. /\ Len(j) \in Nat /\ DOMAIN j = 1 .. Len(j)
      /\ Len(after) \in Nat /\ DOMAIN after = 1 .. Len(after)
  BY JournalShape
<1>2. \A i \in 1 .. Len(j) : i \in DOMAIN after /\ after[i] = j[i]
  BY <1>1 DEF Continues
<1> QED
  BY <1>1, <1>2 DEF Ordered

LEMMA ContinuesOn ==
  ASSUME NEW j, IsJournal(j), NEW before, IsJournal(before), NEW after, IsJournal(after),
         Continues(j, before), Continues(before, after)
  PROVE  Continues(j, after)
<1>1. Len(j) \in Nat /\ Len(before) \in Nat /\ Len(after) \in Nat
  BY JournalShape
<1>2. \A i \in 1 .. Len(j) : i \in 1 .. Len(before)
  BY <1>1 DEF Continues
<1> QED
  BY <1>1, <1>2 DEF Continues

-----------------------------------------------------------------------------
(* Branches. *)

(* A branch that appends keeps what it was cut from.                        *)
LEMMA AppendedIsBranch ==
  ASSUME NEW b, IsBranch(b), NEW m, IsMigration(m)
  PROVE  IsBranch([b EXCEPT !.journal = Append(@, m)])
<1>1. IsJournal(Append(b.journal, m)) /\ Len(Append(b.journal, m)) = Len(b.journal) + 1
  BY AppendedIsJournal DEF IsBranch
<1>2. Len(b.journal) \in Nat /\ Len(b.base.journal) \in Nat
  BY JournalShape DEF IsBranch
<1>3. PICK c : c = [b EXCEPT !.journal = Append(@, m)]
  OBVIOUS
<1>4. c = [base |-> b.base, journal |-> Append(b.journal, m), schema |-> b.schema]
  BY <1>3 DEF IsBranch
<1>5. IsBranch(c)
  BY <1>1, <1>2, <1>4 DEF IsBranch
<1> QED
  BY <1>3, <1>5

LEMMA EditedIsBranch ==
  ASSUME NEW b, IsBranch(b), NEW i \in DOMAIN b.journal, NEW sql \in Seq(Statements)
  PROVE  IsBranch([b EXCEPT !.journal = [b.journal EXCEPT ![i].sql = sql]])
<1> DEFINE j == [b.journal EXCEPT ![i].sql = sql]
<1>1. IsJournal(j) /\ Len(j) = Len(b.journal)
  BY EditedIsJournal DEF IsBranch
<1> HIDE DEF j
<1>2. PICK c : c = [b EXCEPT !.journal = j]
  OBVIOUS
<1>3. c = [base |-> b.base, journal |-> j, schema |-> b.schema]
  BY <1>2 DEF IsBranch
<1>4. IsBranch(c)
  BY <1>1, <1>3 DEF IsBranch
<1>5. IsBranch([b EXCEPT !.journal = j])
  BY <1>2, <1>4
<1> QED
  BY <1>5 DEF j

(* A rebased branch has all of main, and its own migrations after it.       *)
RebasedJournal(b, journal) ==
  LET cut == Len(b.base.journal)
  IN SubSeq(b.journal, 1, cut) \o SubSeq(journal, cut + 1, Len(journal))
       \o SubSeq(b.journal, cut + 1, Len(b.journal))

LEMMA RebasedIsJournal ==
  ASSUME NEW b, IsBranch(b), NEW journal, IsJournal(journal)
  PROVE  /\ IsJournal(RebasedJournal(b, journal))
         /\ Len(journal) <= Len(RebasedJournal(b, journal))
<1> DEFINE cut == Len(b.base.journal)
           before == SubSeq(b.journal, 1, cut)
           new == SubSeq(journal, cut + 1, Len(journal))
           own == SubSeq(b.journal, cut + 1, Len(b.journal))
<1>1. /\ cut \in Nat /\ Len(b.journal) \in Nat /\ Len(journal) \in Nat
      /\ cut <= Len(b.journal)
      /\ IsJournal(b.journal)
  BY JournalShape DEF IsBranch
<1> HIDE DEF cut
<1>2. IsJournal(before) /\ Len(before) = cut
  <2>1. 1 \in Nat \ {0} /\ cut \in 0 .. Len(b.journal)
    BY <1>1
  <2>2. IsJournal(before) /\ Len(before) = IF 1 <= cut THEN cut - 1 + 1 ELSE 0
    BY <2>1, <1>1, PieceOfJournal
  <2> QED
    BY <2>2, <1>1
<1>3. IsJournal(new) /\ Len(new) \in Nat /\ Len(journal) <= cut + Len(new)
  <2>1. cut + 1 \in Nat \ {0} /\ Len(journal) \in 0 .. Len(journal)
    BY <1>1
  <2>2. /\ IsJournal(new)
        /\ Len(new) = IF cut + 1 <= Len(journal) THEN Len(journal) - (cut + 1) + 1 ELSE 0
    BY <2>1, PieceOfJournal
  <2> QED
    BY <2>2, <1>1
<1>4. IsJournal(own) /\ Len(own) \in Nat
  <2>1. cut + 1 \in Nat \ {0} /\ Len(b.journal) \in 0 .. Len(b.journal)
    BY <1>1
  <2>2. IsJournal(own)
    BY <2>1, <1>1, PieceOfJournal
  <2> QED
    BY <2>2, JournalShape
<1>5. RebasedJournal(b, journal) = before \o new \o own
  BY DEF RebasedJournal, cut
<1> HIDE DEF before, new, own
<1>6. IsJournal(before \o new) /\ Len(before \o new) = cut + Len(new)
  BY <1>2, <1>3, JoinedIsJournal
<1>7. /\ IsJournal(before \o new \o own)
      /\ Len(before \o new \o own) = cut + Len(new) + Len(own)
  BY <1>4, <1>6, JoinedIsJournal
<1> QED
  BY <1>1, <1>3, <1>4, <1>5, <1>7

-----------------------------------------------------------------------------
(* Merging and migrating. *)

(* What verify-migrations lets through continues main, and is in order.     *)
LEMMA VerifiedContinues ==
  ASSUME NEW before, IsJournal(before), Ordered(before),
         NEW after, IsJournal(after), AppendsOnly(before, after)
  PROVE  Continues(before, after) /\ Ordered(after)
<1>1. /\ Len(before) \in Nat /\ DOMAIN before = 1 .. Len(before)
      /\ Len(after) \in Nat /\ DOMAIN after = 1 .. Len(after)
  BY JournalShape
<1>2. Len(before) <= Len(after)
  BY DEF AppendsOnly, IsPrefix
<1>3. ASSUME NEW i \in 1 .. Len(before)
      PROVE  after[i] = before[i]
  <2>1. SubSeq(before, 1, Len(before)) = SubSeq(after, 1, Len(before))
    BY DEF AppendsOnly, IsPrefix
  <2>2. SubSeq(before, 1, Len(before))[i] = before[i]
    BY <1>1
  <2>3. SubSeq(after, 1, Len(before))[i] = after[i]
    BY <1>1, <1>2
  <2> QED
    BY <2>1, <2>2, <2>3
<1>4. ASSUME NEW i \in 1 .. Len(after), NEW k \in 1 .. Len(after), i < k
      PROVE  after[i].when < after[k].when
  <2>1. CASE k <= Len(before)
    <3>1. i \in DOMAIN before /\ k \in DOMAIN before
      BY <1>1, <1>4, <2>1
    <3>2. before[i].when < before[k].when
      BY <3>1, <1>4 DEF Ordered
    <3> QED
      BY <3>1, <3>2, <1>1, <1>3
  <2>2. CASE ~(k <= Len(before))
    <3>1. k \in Len(before) + 1 .. Len(after) /\ i \in 1 .. k - 1
      BY <1>1, <1>4, <2>2
    <3> QED
      BY <3>1 DEF AppendsOnly
  <2> QED
    BY <2>1, <2>2
<1> QED
  BY <1>1, <1>2, <1>3, <1>4 DEF Ordered, Continues

(* A ledger up to some place stays one when main goes on.                   *)
LEMMA LedgerStaysBehind ==
  ASSUME NEW before, IsJournal(before), NEW after, IsJournal(after),
         Continues(before, after),
         NEW ledger, NEW k \in 0 .. Len(before), AppliedUpTo(before, ledger, k)
  PROVE  k \in 0 .. Len(after) /\ AppliedUpTo(after, ledger, k)
<1>1. Len(before) \in Nat /\ Len(after) \in Nat
  BY JournalShape
<1>2. \A i \in 1 .. k : i \in 1 .. Len(before) /\ after[i] = before[i]
  BY <1>1 DEF Continues
<1>3. {Row(after[i]) : i \in 1 .. k} = {Row(before[i]) : i \in 1 .. k}
  BY <1>2
<1> QED
  BY <1>1, <1>3 DEF AppliedUpTo, Continues

(* And what a run had read when main was shorter is still of it.            *)
LEMMA ReadingStays ==
  ASSUME NEW before, IsJournal(before), NEW after, IsJournal(after),
         Continues(before, after), NEW run, NEW n, ReadAt(run, before, n)
  PROVE  ReadAt(run, after, n)
BY ContinuesOn DEF ReadAt

(* What is newer than what a run has read: the files beyond the place where  *)
(* the ledger was.                                                          *)
LEMMA ReadIs ==
  ASSUME NEW j, IsJournal(j), Ordered(j), NEW run, NEW n \in 0 .. Len(j), ReadAt(run, j, n)
  PROVE  /\ IsJournal(run.journal) /\ Ordered(run.journal)
         /\ Len(run.journal) \in 0 .. Len(j) /\ n < Len(run.journal)
         /\ \A i \in 1 .. Len(run.journal) : run.journal[i] = j[i]
         /\ Newer(run.journal, run.newest) = {i \in 1 .. Len(run.journal) : i > n}
<1>1. PICK files : files = run.journal
  OBVIOUS
<1>2. IsJournal(files) /\ Continues(files, j) /\ n < Len(files)
  BY <1>1 DEF ReadAt
<1>3. /\ Len(files) \in Nat /\ DOMAIN files = 1 .. Len(files) /\ Len(j) \in Nat
      /\ Len(files) <= Len(j) /\ n \in 0 .. Len(files)
      /\ \A i \in 1 .. Len(files) : files[i] = j[i]
  BY <1>2, JournalShape DEF Continues
<1>4. Ordered(files)
  BY <1>2, ContinuedIsOrdered
<1>5. \A i \in 1 .. Len(files) : files[i].when > run.newest <=> i > n
  <2>1. run.newest = NewestAt(files, n)
    BY <1>1 DEF ReadAt
  <2> QED
    BY <2>1, <1>2, <1>3, <1>4, NewerMeansBeyond
<1>6. Newer(files, run.newest) = {i \in 1 .. Len(files) : i > n}
  BY <1>3, <1>5 DEF Newer
<1> QED
  BY <1>1, <1>2, <1>3, <1>4, <1>6

(* The ledger after rows were added to it, one of each. *)
LEMMA RowsAdded ==
  ASSUME NEW ledger, NEW S, \A row \in BagToSet(ledger) : ledger[row] \in Nat \ {0},
         NEW after, after = ledger (+) SetToBag(S)
  PROVE  /\ BagToSet(after) = BagToSet(ledger) \cup S
         /\ \A row \in BagToSet(after) : after[row] \in Nat \ {0}
         /\ \A row \in BagToSet(ledger) : after[row] >= ledger[row]
         /\ \A row \in BagToSet(ledger) \cap S : after[row] = ledger[row] + 1
         /\ \A row \in BagToSet(ledger) \ S : after[row] = ledger[row]
         /\ \A row \in S \ BagToSet(ledger) : after[row] = 1
<1>1. PICK ones : ones = SetToBag(S)
  OBVIOUS
<1>2. DOMAIN ones = S /\ \A row \in S : ones[row] = 1
  BY <1>1 DEF SetToBag
<1>3. after = [row \in DOMAIN ledger \cup S |->
                 (IF row \in DOMAIN ledger THEN ledger[row] ELSE 0)
                   + (IF row \in S THEN ones[row] ELSE 0)]
  BY <1>1, <1>2 DEF (+)
<1> QED
  BY <1>2, <1>3 DEF BagToSet

(* A run takes the ledger to the end of the journal it ships with, unless    *)
(* another has taken it further.                                            *)
Furthest(k, n) == IF k < n THEN n ELSE k

LEMMA CommitReaches ==
  ASSUME HistoryInv, NEW o \in Migrators, CommitMigrate(o),
         NEW k \in 0 .. Len(main.journal), AppliedUpTo(main.journal, database.ledger, k),
         NEW n \in 0 .. k, ReadAt(runs[o], main.journal, n)
  PROVE  /\ Furthest(k, Len(runs[o].journal)) \in 0 .. Len(main.journal)
         /\ AppliedUpTo(main.journal, database'.ledger, Furthest(k, Len(runs[o].journal)))
<1>1. PICK j, files : j = main.journal /\ files = runs[o].journal
  OBVIOUS
<1>2. PICK newer : newer = Newer(files, runs[o].newest)
  OBVIOUS
<1>3. /\ IsJournal(j) /\ Ordered(j) /\ Len(j) \in Nat
  BY <1>1, JournalShape DEF HistoryInv, Typed
<1>4. /\ Len(files) \in 0 .. Len(j) /\ n < Len(files)
      /\ \A i \in 1 .. Len(files) : files[i] = j[i]
      /\ newer = {i \in 1 .. Len(files) : i > n}
  BY <1>1, <1>2, <1>3, ReadIs
<1>5. PICK S : S = {Row(files[i]) : i \in newer}
  OBVIOUS
<1>6. database'.ledger = database.ledger (+) SetToBag(S)
  BY <1>1, <1>2, <1>5 DEF CommitMigrate
<1>7. /\ BagToSet(database'.ledger) = BagToSet(database.ledger) \cup S
      /\ \A row \in BagToSet(database'.ledger) : database'.ledger[row] \in Nat \ {0}
  BY <1>6, RowsAdded DEF AppliedUpTo
<1>8. PICK m : m = Furthest(k, Len(files))
  OBVIOUS
<1>9. m \in 0 .. Len(j)
  BY <1>1, <1>3, <1>4, <1>8 DEF Furthest
<1>10. {Row(j[i]) : i \in 1 .. k} \cup {Row(files[i]) : i \in newer}
         = {Row(j[i]) : i \in 1 .. m}
  <2>1. \A i \in newer : i \in 1 .. m /\ files[i] = j[i]
    BY <1>1, <1>3, <1>4, <1>8 DEF Furthest
  <2>2. \A i \in 1 .. k : i \in 1 .. m
    BY <1>1, <1>3, <1>4, <1>8 DEF Furthest
  <2>3. \A i \in 1 .. m : i \in 1 .. k \/ i \in newer
    BY <1>1, <1>3, <1>4, <1>8 DEF Furthest
  <2> QED
    BY <2>1, <2>2, <2>3
<1>11. AppliedUpTo(j, database'.ledger, m)
  BY <1>1, <1>5, <1>7, <1>10 DEF AppliedUpTo
<1> QED
  BY <1>1, <1>8, <1>9, <1>11

-----------------------------------------------------------------------------
(* Every step keeps the invariant. *)

(* The journal Init begins with, merged and applied.                         *)
Founding == <<Migration(1, [t \in Tables |-> "absent"], FALSE, <<>>)>>

LEMMA FoundingIs ==
  /\ IsJournal(Founding) /\ Len(Founding) = 1 /\ Ordered(Founding)
  /\ Founding[1].sql = <<>>
<1>0. PICK schema, nothing :
        schema = [t \in Tables |-> "absent"] /\ nothing = <<>>
  OBVIOUS
<1>1. PICK m : m = Migration(1, schema, FALSE, nothing)
  OBVIOUS
<1>2. 1 \in Nat \ {0}
  OBVIOUS
<1>3. IsMigration(m)
  <2>1. nothing \in Seq(Statements)
    BY <1>0, EmptySeq
  <2> QED
    BY <1>1, <1>2, <2>1, MigrationIs
<1>4. m.sql = <<>>
  BY <1>0, <1>1 DEF Migration
<1>5. PICK S, j : S = {m} /\ j = <<m>>
  OBVIOUS
<1>6. Founding = j
  BY <1>0, <1>1, <1>5 DEF Founding
<1>7. j \in Seq(S) /\ Len(j) = 1 /\ DOMAIN j = 1 .. 1 /\ j[1] = m
  BY <1>5
<1>8. \A x \in S : IsMigration(x)
  BY <1>3, <1>5
<1>9. IsJournal(j)
  BY <1>7, <1>8, MigrationsMakeAJournal
<1>10. Ordered(j)
  BY <1>7 DEF Ordered
<1> QED
  BY <1>4, <1>6, <1>7, <1>9, <1>10

LEMMA InitIs ==
  ASSUME Init
  PROVE  /\ main.journal = Founding
         /\ AppliedUpTo(main.journal, database.ledger, 1)
         /\ \A row \in BagToSet(database.ledger) : database.ledger[row] = 1
<1>1. /\ main.journal = Founding
      /\ database.ledger = SetToBag({Row(Founding[1])})
  BY DEF Init, Founding
<1>2. PICK row : row = Row(Founding[1])
  OBVIOUS
<1>3. BagToSet(database.ledger) = {row} /\ database.ledger[row] = 1
  BY <1>1, <1>2 DEF SetToBag, BagToSet
<1>4. {Row(main.journal[i]) : i \in 1 .. 1} = {row}
  <2>1. 1 .. 1 = {1}
    OBVIOUS
  <2> QED
    BY <2>1, <1>1, <1>2
<1> QED
  BY <1>1, <1>3, <1>4 DEF AppliedUpTo

LEMMA HistoryStarts == Init => HistoryInv
<1> SUFFICES ASSUME Init PROVE HistoryInv
  OBVIOUS
<1>1. \A o \in Migrators : runs[o] = NoRun
  BY DEF Init
<1>2. Typed
  BY InitIs, FoundingIs DEF Init, Typed
<1>3. Ordered(main.journal) /\ 1 \in 0 .. Len(main.journal)
  BY InitIs, FoundingIs
<1>4. MigratedTo(1)
  BY <1>1, InitIs DEF MigratedTo, RunsBehind, OneByOne
<1> QED
  BY <1>2, <1>3, <1>4 DEF HistoryInv

(* What is deployed goes on as it was, whatever is written.                  *)
LEMMA NothingDeployed ==
  ASSUME main' = main, UNCHANGED deployed, NEW k, MigratedTo(k)
  PROVE  MigratedTo(k)'
BY DEF deployed, MigratedTo, RunsBehind, OneByOne

LEMMA OneBranchMoves ==
  ASSUME HistoryInv, NEW b \in Branches, NEW c, c # NoBranch => IsBranch(c),
         branch' = [branch EXCEPT ![b] = c],
         main' = main, UNCHANGED deployed
  PROVE  HistoryInv'
<1>1. Typed'
  BY DEF HistoryInv, Typed, deployed
<1>2. PICK k \in 0 .. Len(main.journal) : MigratedTo(k)
  BY DEF HistoryInv
<1>3. MigratedTo(k)'
  BY <1>2, NothingDeployed
<1>4. Ordered(main'.journal) /\ k \in 0 .. Len(main'.journal)
  BY DEF HistoryInv
<1> QED
  BY <1>1, <1>3, <1>4 DEF HistoryInv

LEMMA BranchAppends ==
  ASSUME HistoryInv, NEW b \in Branches, branch[b] # NoBranch,
         NEW m, IsMigration(m), Appended(b, m), main' = main, UNCHANGED deployed
  PROVE  HistoryInv'
<1>1. IsBranch(branch[b])
  BY DEF HistoryInv, Typed
<1>2. IsBranch([branch[b] EXCEPT !.journal = Append(@, m)])
  BY <1>1, AppendedIsBranch
<1>3. branch' = [branch EXCEPT ![b] = [branch[b] EXCEPT !.journal = Append(@, m)]]
  BY DEF Appended
<1> QED
  BY <1>2, <1>3, OneBranchMoves

LEMMA CutKeeps ==
  ASSUME HistoryInv, NEW b \in Branches, Cut(b)
  PROVE  HistoryInv'
<1>1. PICK schema : branch' = [branch EXCEPT ![b] =
                      [base |-> main, journal |-> main.journal, schema |-> schema]]
  BY DEF Cut
<1>2. IsJournal(main.journal) /\ Len(main.journal) \in Nat
  BY JournalShape DEF HistoryInv, Typed
<1>3. IsBranch([base |-> main, journal |-> main.journal, schema |-> schema])
  BY <1>2 DEF IsBranch
<1>4. main' = main /\ UNCHANGED deployed
  BY DEF Cut
<1> QED
  BY <1>1, <1>3, <1>4, OneBranchMoves

LEMMA GenerateKeeps ==
  ASSUME HistoryInv, NEW b \in Branches, Generate(b)
  PROVE  HistoryInv'
<1>1. PICK now \in 1 .. MaxClock, sql \in Seq(Statements) :
        Appended(b, Migration(now, branch[b].schema, FALSE, sql))
  <2> DEFINE from == LastSnapshot(branch[b].journal)
             to == branch[b].schema
             changed == {t \in Tables : from[t] # to[t]}
             parts == [i \in 1 .. Cardinality(changed) |->
                         Generated(SetToSeq(changed)[i], from[SetToSeq(changed)[i]],
                                   to[SetToSeq(changed)[i]])]
  <2>1. PICK now \in 1 .. MaxClock :
          Appended(b, Migration(now, branch[b].schema, FALSE, FlattenSeq(parts)))
    BY DEF Generate
  <2> HIDE DEF from, to
  <2>2. IsFiniteSet(changed) /\ changed \subseteq Tables
    BY MigrationsAssumption, FS_Subset
  <2> HIDE DEF changed
  <2>3. /\ Cardinality(changed) \in Nat
        /\ \A i \in 1 .. Cardinality(changed) : SetToSeq(changed)[i] \in Tables
    BY <2>2, EnumeratedSet
  <2>4. \A i \in 1 .. Cardinality(changed) :
          Generated(SetToSeq(changed)[i], from[SetToSeq(changed)[i]],
                    to[SetToSeq(changed)[i]]) \in Seq(Statements)
    BY <2>3, GeneratedIsSql
  <2>5. parts \in Seq(Seq(Statements))
    BY <2>3, <2>4
  <2> HIDE DEF parts
  <2>6. FlattenSeq(parts) \in Seq(Statements)
    BY <2>5, FlattenSeqType
  <2> QED
    BY <2>1, <2>6
<1>2. branch[b] # NoBranch /\ main' = main /\ UNCHANGED deployed
  BY DEF Generate
<1>3. now \in Nat \ {0}
  BY MigrationsAssumption
<1>4. IsMigration(Migration(now, branch[b].schema, FALSE, sql))
  BY <1>3, MigrationIs
<1> QED
  BY <1>1, <1>2, <1>4, BranchAppends

LEMMA EmitForceKeeps ==
  ASSUME HistoryInv, NEW b \in Branches, EmitForce(b)
  PROVE  HistoryInv'
<1> DEFINE j == branch[b].journal
<1>1. PICK now \in 1 .. MaxClock, delta \in Seq(Statements) :
        Appended(b, Migration(Max({now, Last(j).when + 1}), Last(j).snapshot, TRUE, delta))
  BY ForceDeltaIsSql DEF EmitForce
<1>2. branch[b] # NoBranch /\ j # <<>> /\ main' = main /\ UNCHANGED deployed
  BY DEF EmitForce
<1>3. IsJournal(j)
  BY <1>2 DEF HistoryInv, Typed, IsBranch
<1> HIDE DEF j
<1>4. Last(j).when \in Nat \ {0}
  <2>1. Len(j) \in Nat \ {0}
    BY <1>2, <1>3, RangeOfJournal, EmptySeq
  <2> QED
    BY <2>1, <1>3, JournalShape DEF Last
<1>5. now \in Nat \ {0} /\ Last(j).when + 1 \in Nat \ {0}
  BY <1>4, MigrationsAssumption
<1>6. Max({now, Last(j).when + 1}) \in Nat \ {0}
  BY <1>5, MaxBounds
<1>7. IsMigration(Migration(Max({now, Last(j).when + 1}), Last(j).snapshot, TRUE, delta))
  BY <1>6, MigrationIs
<1> QED
  BY <1>1, <1>2, <1>7, BranchAppends

LEMMA HandAuthorKeeps ==
  ASSUME HistoryInv, NEW b \in Branches, HandAuthor(b)
  PROVE  HistoryInv'
<1>1. PICK s \in Strays, now \in 1 .. MaxClock :
        Appended(b, Migration(now, LastSnapshot(branch[b].journal), FALSE, <<s>>))
  BY DEF HandAuthor
<1>2. branch[b] # NoBranch /\ main' = main /\ UNCHANGED deployed
  BY DEF HandAuthor
<1>3. now \in Nat \ {0}
  BY MigrationsAssumption
<1>5. <<s>> \in Seq(Statements)
  BY StraysAreStatements
<1>4. IsMigration(Migration(now, LastSnapshot(branch[b].journal), FALSE, <<s>>))
  BY <1>3, <1>5, MigrationIs
<1> QED
  BY <1>1, <1>2, <1>4, BranchAppends

LEMMA EditFileKeeps ==
  ASSUME HistoryInv, NEW b \in Branches, EditFile(b)
  PROVE  HistoryInv'
<1>1. branch[b] # NoBranch /\ main' = main /\ UNCHANGED deployed
  BY DEF EditFile
<1>3. IsBranch(branch[b])
  BY <1>1 DEF HistoryInv, Typed
<1>2. PICK i \in DOMAIN branch[b].journal, sql \in Seq(Statements) :
        branch' = [branch EXCEPT ![b] =
          [branch[b] EXCEPT !.journal = [branch[b].journal EXCEPT ![i].sql = sql]]]
  <2>1. PICK i \in DOMAIN branch[b].journal :
          \/ \E s \in Strays :
               branch' = [branch EXCEPT ![b].journal[i].sql = Append(@, s)]
          \/ \E k \in DOMAIN branch[b].journal[i].sql :
               branch' = [branch EXCEPT ![b].journal[i].sql = RemoveAt(@, k)]
    BY DEF EditFile
  <2>2. PICK file \in Seq(Statements) : file = branch[b].journal[i].sql
    BY <1>3 DEF IsBranch, IsJournal, IsMigration
  <2>3. CASE \E s \in Strays :
               branch' = [branch EXCEPT ![b].journal[i].sql = Append(@, s)]
    <3>1. PICK s \in Strays : branch' = [branch EXCEPT ![b].journal[i].sql = Append(@, s)]
      BY <2>3
    <3>2. Append(file, s) \in Seq(Statements)
      BY EditedIsSql
    <3> QED
      BY <2>2, <3>1, <3>2
  <2>4. CASE \E k \in DOMAIN branch[b].journal[i].sql :
               branch' = [branch EXCEPT ![b].journal[i].sql = RemoveAt(@, k)]
    <3>1. PICK k \in DOMAIN file : branch' = [branch EXCEPT ![b].journal[i].sql = RemoveAt(@, k)]
      BY <2>2, <2>4
    <3>2. RemoveAt(file, k) \in Seq(Statements)
      BY EditedIsSql
    <3> QED
      BY <2>2, <3>1, <3>2
  <2> QED
    BY <2>1, <2>3, <2>4
<1>4. IsBranch([branch[b] EXCEPT !.journal = [branch[b].journal EXCEPT ![i].sql = sql]])
  BY <1>3, EditedIsBranch
<1> QED
  BY <1>1, <1>2, <1>4, OneBranchMoves

LEMMA RebaseKeeps ==
  ASSUME HistoryInv, NEW b \in Branches, Rebase(b)
  PROVE  HistoryInv'
<1> DEFINE j == RebasedJournal(branch[b], main.journal)
<1>1. branch[b] # NoBranch /\ main' = main /\ UNCHANGED deployed
  BY DEF Rebase
<1>2. IsBranch(branch[b]) /\ IsJournal(main.journal)
  BY <1>1 DEF HistoryInv, Typed
<1>3. PICK schema : branch' = [branch EXCEPT ![b] =
                      [base |-> main, journal |-> j, schema |-> schema]]
  <2>1. PICK schema :
          branch' = [branch EXCEPT ![b].journal = j, ![b].schema = schema, ![b].base = main]
    BY DEF Rebase, RebasedJournal
  <2> HIDE DEF j
  <2>2. PICK c : c = branch[b] /\ IsBranch(c)
    BY <1>2
  <2>3. [[[c EXCEPT !.journal = j] EXCEPT !.schema = schema] EXCEPT !.base = main]
          = [base |-> main, journal |-> j, schema |-> schema]
    <3>1. PICK d : d = [c EXCEPT !.journal = j]
      OBVIOUS
    <3>2. d = [base |-> c.base, journal |-> j, schema |-> c.schema]
      BY <3>1, <2>2 DEF IsBranch
    <3>3. PICK e : e = [d EXCEPT !.schema = schema]
      OBVIOUS
    <3>4. e = [base |-> c.base, journal |-> j, schema |-> schema]
      BY <3>2, <3>3
    <3>5. [e EXCEPT !.base = main] = [base |-> main, journal |-> j, schema |-> schema]
      BY <3>4
    <3> QED
      BY <3>1, <3>3, <3>5
  <2>4. branch' = [branch EXCEPT ![b] = [base |-> main, journal |-> j, schema |-> schema]]
    BY <2>1, <2>2, <2>3 DEF HistoryInv, Typed
  <2> QED
    BY <2>4
<1>4. IsJournal(j) /\ Len(main.journal) <= Len(j)
  BY <1>2, RebasedIsJournal
<1> HIDE DEF j
<1>5. IsBranch([base |-> main, journal |-> j, schema |-> schema])
  BY <1>2, <1>4 DEF IsBranch
<1> QED
  BY <1>1, <1>3, <1>5, OneBranchMoves

(* What a merge does to main: it goes on, in order, by what the branch       *)
(* appended.                                                                *)
LEMMA MergeContinues ==
  ASSUME HistoryInv, NEW b \in Branches, Merge(b)
  PROVE  /\ IsJournal(main.journal) /\ IsJournal(main'.journal)
         /\ Continues(main.journal, main'.journal)
         /\ Ordered(main'.journal)
<1>1. branch[b] # NoBranch /\ main'.journal = branch[b].journal
  BY DEF Merge
<1>2. AppendsOnly(main.journal, branch[b].journal)
  BY DEF Merge, Verified
<1>3. IsJournal(main.journal) /\ IsJournal(branch[b].journal) /\ Ordered(main.journal)
  BY <1>1 DEF HistoryInv, Typed, IsBranch
<1> QED
  BY <1>1, <1>2, <1>3, VerifiedContinues

LEMMA MergeKeeps ==
  ASSUME HistoryInv, NEW b \in Branches, Merge(b)
  PROVE  HistoryInv'
<1>1. UNCHANGED deployed
  BY DEF Merge
<1>2. Typed'
  <2>1. branch' = [branch EXCEPT ![b] = NoBranch]
    BY DEF Merge
  <2>2. IsJournal(main'.journal)
    BY MergeContinues
  <2> QED
    BY <1>1, <2>1, <2>2 DEF HistoryInv, Typed, deployed
<1>3. Ordered(main'.journal)
  BY MergeContinues
<1>4. PICK k \in 0 .. Len(main.journal) : MigratedTo(k)
  BY DEF HistoryInv
<1>5. /\ k \in 0 .. Len(main'.journal)
      /\ AppliedUpTo(main'.journal, database.ledger, k)
  BY <1>4, MergeContinues, LedgerStaysBehind DEF MigratedTo
<1>6. \A run, n : ReadAt(run, main.journal, n) => ReadAt(run, main'.journal, n)
  BY MergeContinues, ReadingStays
<1>7. MigratedTo(k)'
  BY <1>1, <1>4, <1>5, <1>6 DEF MigratedTo, RunsBehind, OneByOne, deployed
<1> QED
  BY <1>2, <1>3, <1>5, <1>7 DEF HistoryInv

LEMMA StartKeeps ==
  ASSUME HistoryInv, NEW o \in Migrators, StartMigrate(o)
  PROVE  HistoryInv'
<1>1. /\ main' = main /\ branch' = branch /\ database' = database
      /\ runs[o] = NoRun /\ overlapped' = overlapped
  BY DEF StartMigrate, authored
<1>2. PICK run : run = [journal |-> main.journal, newest |-> NewestApplied(database.ledger)]
  OBVIOUS
<1>3. /\ Newer(main.journal, run.newest) # {}
      /\ runs' = [runs EXCEPT ![o] = run]
  BY <1>2 DEF StartMigrate
<1>4. PICK k \in 0 .. Len(main.journal) : MigratedTo(k)
  BY DEF HistoryInv
<1>5. ReadAt(run, main.journal, k)
  <2>1. PICK j : j = main.journal
    OBVIOUS
  <2>2. IsJournal(j) /\ Ordered(j) /\ Len(j) \in Nat /\ DOMAIN j = 1 .. Len(j)
    BY <2>1, JournalShape DEF HistoryInv, Typed
  <2>3. run.journal = j /\ run.newest = NewestAt(j, k)
    BY <1>2, <1>4, <2>1, <2>2, NewestIs DEF MigratedTo
  <2>4. PICK i \in 1 .. Len(j) : j[i].when > NewestAt(j, k)
    BY <1>3, <2>1, <2>2, <2>3 DEF Newer
  <2>5. i > k
    BY <1>4, <2>1, <2>2, <2>4, NewerMeansBeyond
  <2>6. k < Len(j)
    BY <1>4, <2>1, <2>2, <2>5
  <2>7. Continues(j, j)
    BY <2>2 DEF Continues
  <2> QED
    BY <2>1, <2>2, <2>3, <2>6, <2>7 DEF ReadAt
<1>6. Typed'
  BY <1>1, <1>3 DEF HistoryInv, Typed
<1>7. /\ runs'[o] = run
      /\ \A p \in Migrators : p # o => runs'[p] = runs[p]
  BY <1>3 DEF HistoryInv, Typed
<1>8. RunsBehind(k)'
  <2> SUFFICES ASSUME NEW p \in Migrators, runs'[p] # NoRun
               PROVE  \E n \in 0 .. k : ReadAt(runs'[p], main.journal, n)
    BY <1>1 DEF RunsBehind
  <2>1. k \in 0 .. k
    BY JournalShape DEF HistoryInv, Typed
  <2>2. CASE p = o
    BY <1>5, <1>7, <2>1, <2>2
  <2>3. CASE p # o
    BY <1>4, <1>7, <2>3 DEF MigratedTo, RunsBehind
  <2> QED
    BY <2>2, <2>3
<1>9. ASSUME ~overlapped'
      PROVE  OneByOne(k)'
  <2>1. OneByOne(k)
    BY <1>1, <1>4, <1>9 DEF MigratedTo
  <2>2. \A p \in Migrators : runs'[p] # NoRun => ReadAt(runs'[p], main.journal, k)
    BY <1>5, <1>7, <2>1 DEF OneByOne
  <2> QED
    BY <1>1, <2>1, <2>2 DEF OneByOne
<1>10. MigratedTo(k)'
  BY <1>1, <1>4, <1>8, <1>9 DEF MigratedTo
<1> QED
  BY <1>1, <1>4, <1>6, <1>10 DEF HistoryInv

LEMMA AbortKeeps ==
  ASSUME HistoryInv, NEW o \in Migrators, AbortMigrate(o)
  PROVE  HistoryInv'
<1>1. /\ main' = main /\ branch' = branch /\ database' = database
      /\ overlapped' = overlapped
      /\ runs' = [runs EXCEPT ![o] = NoRun]
  BY DEF AbortMigrate, authored
<1>2. Typed'
  BY <1>1 DEF HistoryInv, Typed
<1>3. \A p \in Migrators : runs'[p] # NoRun => runs'[p] = runs[p]
  BY <1>1 DEF HistoryInv, Typed
<1>4. PICK k \in 0 .. Len(main.journal) : MigratedTo(k)
  BY DEF HistoryInv
<1>5. MigratedTo(k)'
  BY <1>1, <1>3, <1>4 DEF MigratedTo, RunsBehind, OneByOne
<1> QED
  BY <1>1, <1>2, <1>4, <1>5 DEF HistoryInv

(* A run that is alone adds each row once. *)
LEMMA AloneAddsOnce ==
  ASSUME HistoryInv, NEW o \in Migrators, CommitMigrate(o),
         NEW k \in 0 .. Len(main.journal), AppliedUpTo(main.journal, database.ledger, k),
         ReadAt(runs[o], main.journal, k),
         \A row \in BagToSet(database.ledger) : database.ledger[row] = 1
  PROVE  \A row \in BagToSet(database'.ledger) : database'.ledger[row] = 1
<1>1. PICK j, files : j = main.journal /\ files = runs[o].journal
  OBVIOUS
<1>2. PICK newer : newer = Newer(files, runs[o].newest)
  OBVIOUS
<1>3. IsJournal(j) /\ Ordered(j) /\ Len(j) \in Nat
  BY <1>1, JournalShape DEF HistoryInv, Typed
<1>4. /\ Len(files) \in 0 .. Len(j)
      /\ \A i \in 1 .. Len(files) : files[i] = j[i]
      /\ newer = {i \in 1 .. Len(files) : i > k}
  BY <1>1, <1>2, <1>3, ReadIs
<1>5. PICK S : S = {Row(files[i]) : i \in newer}
  OBVIOUS
<1>6. database'.ledger = database.ledger (+) SetToBag(S)
  BY <1>1, <1>2, <1>5 DEF CommitMigrate
<1>7. ASSUME NEW row \in BagToSet(database.ledger)
      PROVE  row \notin S
  <2> SUFFICES ASSUME NEW i \in newer, row = Row(files[i]) PROVE FALSE
    BY <1>5
  <2>1. PICK n \in 1 .. k : row = Row(j[n])
    BY <1>1 DEF AppliedUpTo
  <2>2. i \in 1 .. Len(j) /\ n \in 1 .. Len(j) /\ n < i /\ files[i] = j[i]
    BY <1>1, <1>3, <1>4
  <2>3. j[i].when = j[n].when
    BY <2>1, <2>2 DEF Row
  <2> QED
    BY <1>3, <2>2, <2>3, RowsDiffer
<1>8. /\ BagToSet(database'.ledger) = BagToSet(database.ledger) \cup S
      /\ \A row \in BagToSet(database.ledger) \ S :
           database'.ledger[row] = database.ledger[row]
      /\ \A row \in S \ BagToSet(database.ledger) : database'.ledger[row] = 1
  BY <1>6, RowsAdded DEF AppliedUpTo
<1> QED
  BY <1>7, <1>8

LEMMA CommitKeeps ==
  ASSUME HistoryInv, NEW o \in Migrators, CommitMigrate(o)
  PROVE  HistoryInv'
<1>1. /\ main' = main /\ branch' = branch /\ runs[o] # NoRun
      /\ overlapped' = (overlapped \/ \E p \in Migrators \ {o} : runs[p] # NoRun)
      /\ runs' = [runs EXCEPT ![o] = NoRun]
  BY DEF CommitMigrate, authored
<1>2. Typed'
  BY <1>1 DEF HistoryInv, Typed
<1>3. /\ runs'[o] = NoRun
      /\ \A p \in Migrators : p # o => runs'[p] = runs[p]
  BY <1>1 DEF HistoryInv, Typed
<1>4. PICK k \in 0 .. Len(main.journal) : MigratedTo(k)
  BY DEF HistoryInv
<1>5. PICK n \in 0 .. k : ReadAt(runs[o], main.journal, n)
  BY <1>1, <1>4 DEF MigratedTo, RunsBehind
<1>6. PICK m : m = Furthest(k, Len(runs[o].journal))
  OBVIOUS
<1>7. m \in 0 .. Len(main.journal) /\ AppliedUpTo(main.journal, database'.ledger, m)
  BY <1>4, <1>5, <1>6, CommitReaches DEF MigratedTo
<1>8. 0 .. k \subseteq 0 .. m
  <2>1. Len(main.journal) \in Nat
    BY JournalShape DEF HistoryInv, Typed
  <2>2. k <= m
    BY <1>6, <1>7, <2>1 DEF Furthest
  <2> QED
    BY <1>7, <2>1, <2>2
<1>9. RunsBehind(m)'
  BY <1>1, <1>3, <1>4, <1>8 DEF MigratedTo, RunsBehind
<1>10. ASSUME ~overlapped'
       PROVE  OneByOne(m)'
  <2>1. OneByOne(k) /\ \A p \in Migrators \ {o} : runs[p] = NoRun
    BY <1>1, <1>4, <1>10 DEF MigratedTo
  <2>2. \A p \in Migrators : runs'[p] = NoRun
    BY <1>3, <2>1
  <2>3. \A row \in BagToSet(database'.ledger) : database'.ledger[row] = 1
    BY <1>1, <1>4, <2>1, AloneAddsOnce DEF MigratedTo, OneByOne
  <2> QED
    BY <2>2, <2>3 DEF OneByOne
<1>11. MigratedTo(m)'
  BY <1>1, <1>7, <1>9, <1>10 DEF MigratedTo
<1> QED
  BY <1>1, <1>2, <1>7, <1>11 DEF HistoryInv

LEMMA HistoryStep == HistoryInv /\ [Next]_vars => HistoryInv'
<1> SUFFICES ASSUME HistoryInv, [Next]_vars PROVE HistoryInv'
  OBVIOUS
<1>1. ASSUME NEW o \in Migrators, StartMigrate(o) \/ CommitMigrate(o) \/ AbortMigrate(o)
      PROVE  HistoryInv'
  BY <1>1, StartKeeps, CommitKeeps, AbortKeeps
<1>2. ASSUME NEW b \in Branches,
             \/ Cut(b) \/ Generate(b) \/ EmitForce(b)
             \/ HandAuthor(b) \/ EditFile(b) \/ Rebase(b) \/ Merge(b)
      PROVE  HistoryInv'
  BY <1>2, CutKeeps, GenerateKeeps, EmitForceKeeps, HandAuthorKeeps, EditFileKeeps,
     RebaseKeeps, MergeKeeps
<1>3. CASE UNCHANGED vars
  <2>1. main' = main /\ branch' = branch /\ UNCHANGED deployed
    BY <1>3 DEF vars, authored
  <2>2. PICK k \in 0 .. Len(main.journal) : MigratedTo(k)
    BY DEF HistoryInv
  <2>3. MigratedTo(k)'
    BY <2>1, <2>2, NothingDeployed
  <2> QED
    BY <2>1, <2>2, <2>3 DEF HistoryInv, Typed, deployed
<1> QED
  BY <1>1, <1>2, <1>3 DEF Next

(* A history in order, applied up to some place, strands nothing.           *)
LEMMA SoundMeansNotStranded == HistoryInv => NeverStranded
<1> SUFFICES ASSUME HistoryInv PROVE NeverStranded
  OBVIOUS
<1> DEFINE j == main.journal
<1>1. IsJournal(j) /\ Ordered(j)
  BY DEF HistoryInv, Typed
<1>2. PICK k \in 0 .. Len(j) :
        /\ AppliedUpTo(j, database.ledger, k)
        /\ ~overlapped => OneByOne(k)
  BY DEF HistoryInv, MigratedTo
<1>3. /\ Len(j) \in Nat /\ DOMAIN j = 1 .. Len(j)
      /\ \A i \in 1 .. Len(j) : j[i].when \in Nat \ {0}
  BY <1>1, JournalShape
<1>4. \A i, n \in 1 .. Len(j) : i < n => j[i].when < j[n].when
  BY <1>1, <1>3 DEF Ordered
<1>5. \A i, n \in 1 .. Len(j) : j[i].when = j[n].when => i = n
  BY <1>3, <1>4
<1>6. \A row \in BagToSet(database.ledger) :
        \E i \in 1 .. k : row = Row(j[i]) /\ row.when = j[i].when /\ row.sql = j[i].sql
  BY <1>2 DEF AppliedUpTo, Row
<1>7. \A i \in 1 .. k : i \in 1 .. Len(j) /\ Row(j[i]) \in BagToSet(database.ledger)
  BY <1>2, <1>3 DEF AppliedUpTo
<1>8. \A m \in Range(j) : \E i \in 1 .. Len(j) : m = j[i]
  BY <1>3 DEF Range
<1>9. Edited = {}
  <2> SUFFICES ASSUME NEW m \in Range(j), NEW row \in BagToSet(database.ledger),
                      row.when = m.when
               PROVE  row.sql = m.sql
    BY DEF Edited
  <2>1. PICK n \in 1 .. Len(j) : m = j[n]
    BY <1>8
  <2>2. PICK i \in 1 .. k : row.when = j[i].when /\ row.sql = j[i].sql
    BY <1>6
  <2>3. i \in 1 .. Len(j)
    BY <1>7
  <2>4. i = n
    BY <2>1, <2>2, <2>3, <1>5
  <2> QED
    BY <2>1, <2>2, <2>4
<1>10. Ahead = {}
  <2> SUFFICES ASSUME NEW row \in BagToSet(database.ledger)
               PROVE  \E m \in Range(j) : m.when = row.when
    BY DEF Ahead
  <2>1. PICK i \in 1 .. k : row.when = j[i].when
    BY <1>6
  <2>2. i \in DOMAIN j
    BY <1>3, <1>7
  <2> QED
    BY <2>1, <2>2 DEF Range
<1>11. ASSUME NEW m \in Pending
       PROVE  m.when > NewestApplied(database.ledger)
  <2>1. PICK i \in 1 .. Len(j) : m = j[i]
    BY <1>8 DEF Pending
  <2>2. ~(i \in 1 .. k)
    BY <2>1, <1>7 DEF Pending, Row
  <2>3. i > k
    BY <2>2, <1>3
  <2> QED
    BY <2>1, <2>3, <1>1, <1>2, NewerMeansBeyond, NewestIs
<1>12. ASSUME NEW row \in Duplicated
       PROVE  overlapped
  <2> SUFFICES ASSUME ~overlapped PROVE FALSE
    OBVIOUS
  <2>1. row \in BagToSet(database.ledger)
    BY DEF Duplicated
  <2>2. database.ledger[row] = 1
    BY <1>2, <2>1 DEF OneByOne
  <2>3. PICK other \in BagToSet(database.ledger) : other # row /\ other.when = row.when
    BY <2>2 DEF Duplicated
  <2>4. PICK i \in 1 .. k : row = Row(j[i]) /\ row.when = j[i].when
    BY <1>6, <2>1
  <2>5. PICK n \in 1 .. k : other = Row(j[n]) /\ other.when = j[n].when
    BY <1>6, <2>3
  <2>6. i = n
    BY <1>5, <1>7, <2>3, <2>4, <2>5
  <2> QED
    BY <2>3, <2>4, <2>5, <2>6
<1> QED
  BY <1>9, <1>10, <1>11, <1>12 DEF NeverStranded

-----------------------------------------------------------------------------
(* The theorems. *)

(* The inductive invariant: main is in order, every branch is a history that *)
(* continues one main had, the database is at some migration of main, and    *)
(* every run of migrate under way read it at one it had passed.             *)
THEOREM HistoryIsSound == Spec => []HistoryInv
<1> QED
  BY HistoryStarts, HistoryStep, PTL DEF Spec

(* However branches are cut, edited, rebased and merged, and whenever        *)
(* migrates start and commit: every applied migration is committed as it was *)
(* applied, nothing is left that migrate would pass over                     *)
(* (verify-migrations.mjs), and only two migrates that overlapped can leave  *)
(* the duplicated row that a boot refuses (checks.ts).                       *)
THEOREM NothingIsStranded == Spec => []NeverStranded
<1> QED
  BY HistoryIsSound, SoundMeansNotStranded, PTL

(* Nobody takes anything out of main or of a ledger: main only goes on, each *)
(* new migration newer than all before it, and every row of the ledger stays *)
(* as often as it is there.                                                 *)
HistoryGoesOn ==
  /\ AppendsOnly(main.journal, main'.journal)
  /\ database.ledger \sqsubseteq database'.ledger

(* Every step of a branch, a merge or a migrate keeps to that.              *)
THEOREM HistoryIsAppendOnly == Spec => [][HistoryGoesOn]_vars
<1>1. HistoryInv /\ [Next]_vars => [HistoryGoesOn]_vars
  <2> SUFFICES ASSUME HistoryInv, Next PROVE HistoryGoesOn
    BY DEF vars
  <2>0. \A row \in BagToSet(database.ledger) : database.ledger[row] \in Nat \ {0}
    BY DEF HistoryInv, MigratedTo, AppliedUpTo
  <2>1. main' = main => AppendsOnly(main.journal, main'.journal)
    <3>1. Len(main.journal) \in Nat
      BY JournalShape DEF HistoryInv, Typed
    <3>2. IsPrefix(main.journal, main.journal)
      BY <3>1 DEF IsPrefix
    <3> QED
      BY <3>1, <3>2 DEF AppendsOnly
  <2>2. database' = database => database.ledger \sqsubseteq database'.ledger
    BY <2>0 DEF \sqsubseteq, BagToSet
  <2>3. ASSUME NEW b \in Branches, Merge(b)
        PROVE  HistoryGoesOn
    <3>1. AppendsOnly(main.journal, main'.journal) /\ database' = database
      BY <2>3 DEF Merge, Verified, deployed
    <3> QED
      BY <2>2, <3>1 DEF HistoryGoesOn
  <2>4. ASSUME NEW o \in Migrators, CommitMigrate(o)
        PROVE  HistoryGoesOn
    <3>1. main' = main
      BY <2>4 DEF CommitMigrate, authored
    <3>2. PICK S : database'.ledger = database.ledger (+) SetToBag(S)
      BY <2>4 DEF CommitMigrate
    <3>3. /\ BagToSet(database'.ledger) = BagToSet(database.ledger) \cup S
          /\ \A row \in BagToSet(database.ledger) :
               database'.ledger[row] >= database.ledger[row]
          /\ \A row \in BagToSet(database'.ledger) : database'.ledger[row] \in Nat \ {0}
      BY <2>0, <3>2, RowsAdded
    <3>4. database.ledger \sqsubseteq database'.ledger
      BY <2>0, <3>3 DEF \sqsubseteq, BagToSet
    <3> QED
      BY <2>1, <3>1, <3>4 DEF HistoryGoesOn
  <2>5. ASSUME NEW o \in Migrators, StartMigrate(o) \/ AbortMigrate(o)
        PROVE  main' = main /\ database' = database
    BY <2>5 DEF StartMigrate, AbortMigrate, authored
  <2>6. ASSUME NEW b \in Branches,
               \/ Cut(b) \/ Generate(b) \/ EmitForce(b)
               \/ HandAuthor(b) \/ EditFile(b) \/ Rebase(b)
        PROVE  main' = main /\ database' = database
    BY <2>6 DEF Cut, Generate, EmitForce, HandAuthor, EditFile, Rebase, deployed
  <2>7. main' = main /\ database' = database => HistoryGoesOn
    BY <2>1, <2>2 DEF HistoryGoesOn
  <2> QED
    BY <2>3, <2>4, <2>5, <2>6, <2>7 DEF Next
<1> QED
  BY <1>1, HistoryIsSound, PTL DEF Spec

(* A database that was migrated is up to date with main: wherever it was, and *)
(* whatever others did to it meanwhile, a run of the latest build that        *)
(* commits leaves nothing pending, edited or ahead (migrate.ts).             *)
MigrateFinishes ==
  \A o \in Migrators :
    CommitMigrate(o) /\ runs[o].journal = main.journal =>
      (Pending = {} /\ Edited = {} /\ Ahead = {})'

(* And it does from every state that can be reached.                        *)
THEOREM OneMigrateSuffices == Spec => [][MigrateFinishes]_vars
<1>1. ASSUME HistoryInv, NEW o \in Migrators, CommitMigrate(o),
             runs[o].journal = main.journal
      PROVE  Pending' = {}
  <2>1. main' = main
    BY <1>1 DEF CommitMigrate, authored
  <2>2. IsJournal(main.journal) /\ Len(main.journal) \in Nat
        /\ DOMAIN main.journal = 1 .. Len(main.journal)
    BY <1>1, JournalShape DEF HistoryInv, Typed
  <2>3. PICK k \in 0 .. Len(main.journal) : MigratedTo(k)
    BY <1>1 DEF HistoryInv
  <2>4. PICK n \in 0 .. k : ReadAt(runs[o], main.journal, n)
    BY <1>1, <2>3 DEF CommitMigrate, MigratedTo, RunsBehind
  <2>5. AppliedUpTo(main.journal, database'.ledger, Len(main.journal))
    <3>1. Furthest(k, Len(main.journal)) = Len(main.journal)
      BY <2>2, <2>3 DEF Furthest
    <3> QED
      BY <1>1, <2>3, <2>4, <3>1, CommitReaches DEF MigratedTo
  <2>6. \A m \in Range(main.journal) : Row(m) \in BagToSet(database'.ledger)
    BY <2>2, <2>5 DEF AppliedUpTo, Range
  <2> QED
    BY <2>1, <2>6 DEF Pending, Row
<1>2. HistoryInv' => NeverStranded'
  BY SoundMeansNotStranded, PTL
<1>3. HistoryInv /\ [Next]_vars => [MigrateFinishes]_vars
  BY <1>1, <1>2, HistoryStep DEF MigrateFinishes, NeverStranded
<1> QED
  BY <1>3, HistoryIsSound, PTL DEF Spec

-----------------------------------------------------------------------------
(* What the files do to a database, and what the two walks make of them. *)

TableStates ==
  [exists : BOOLEAN, enabled : BOOLEAN, forced : BOOLEAN, policies : SUBSET Policies]
RunStates == [tables : [Tables -> TableStates], ok : BOOLEAN]
Walks == [policies : SUBSET Policies, enabled : BOOLEAN, readable : BOOLEAN]

(* effectiveForceState reads the files that say nothing else; reading every  *)
(* file, a statement that does not force would be passed over.              *)
Forced(t, forced, s) == IF s.op \in Forcing THEN ForceStep(t, forced, s) ELSE forced

RunOp == [p \in RunStates \X Statements |-> Run(p[1], p[2])]
ForceOp(t) == [p \in BOOLEAN \X Statements |-> Forced(t, p[1], p[2])]
BoundaryOp(t) == [p \in Walks \X Statements |-> BoundaryStep(t, p[1], p[2])]

(* The tables of a database nobody has migrated.                            *)
Fresh == [tables |-> [t \in Tables |-> NoTable], ok |-> TRUE]

LEMMA AppliedType ==
  ASSUME NEW table \in TableStates, NEW s \in Statements
  PROVE  Applied(table, s) \in TableStates
<1> DEFINE others == table.policies \ Named(table.policies, s.policy.name)
<1>1. others \in SUBSET Policies
  BY DEF TableStates
<1>2. NoTable \in TableStates /\ Plain \in TableStates
  BY DEF NoTable, Plain, TableStates
<1>3. \A b \in BOOLEAN : /\ [table EXCEPT !.enabled = b] \in TableStates
                         /\ [table EXCEPT !.forced = b] \in TableStates
  BY DEF TableStates
<1>4. \A ps \in SUBSET Policies : [table EXCEPT !.policies = ps] \in TableStates
  BY DEF TableStates
<1>5. s.op \in Writing => others \cup {s.policy} \in SUBSET Policies
  <2>1. s.op \in Writing => s.op \notin PlainOps
    BY DEF Writing, PlainOps
  <2> HIDE DEF others
  <2> QED
    BY <1>1, <2>1, StatementShape
<1>6. (s.op = "enable") \in BOOLEAN /\ (s.op = "force") \in BOOLEAN
  OBVIOUS
<1>7. s.op \in {"create table", "drop table"} \cup RowSecurity \cup Forcing \cup {"drop policy"}
              \cup Writing \cup {"unreadable"}
  BY StatementShape DEF PlainOps, PolicyOps, RowSecurity, Forcing, Writing
<1>8. CASE s.op = "create table"
  <2>1. Applied(table, s) = Plain
    BY <1>8 DEF Applied, RowSecurity, Forcing, Writing
  <2> QED
    BY <1>2, <2>1
<1>9. CASE s.op = "drop table"
  <2>1. Applied(table, s) = NoTable
    BY <1>9 DEF Applied, RowSecurity, Forcing, Writing
  <2> QED
    BY <1>2, <2>1
<1>10. CASE s.op \in RowSecurity
  <2>1. Applied(table, s) = [table EXCEPT !.enabled = (s.op = "enable")]
    BY <1>10 DEF Applied, RowSecurity, Forcing, Writing
  <2> QED
    BY <1>3, <1>6, <2>1
<1>11. CASE s.op \in Forcing
  <2>1. Applied(table, s) = [table EXCEPT !.forced = (s.op = "force")]
    BY <1>11 DEF Applied, RowSecurity, Forcing, Writing
  <2> QED
    BY <1>3, <1>6, <2>1
<1>12. CASE s.op = "drop policy"
  <2>1. Applied(table, s) = [table EXCEPT !.policies = others]
    BY <1>12 DEF Applied, RowSecurity, Forcing, Writing
  <2> QED
    BY <1>1, <1>4, <2>1
<1>13. CASE s.op \in Writing
  <2>1. Applied(table, s) = [table EXCEPT !.policies = others \cup {s.policy}]
    BY <1>13 DEF Applied, RowSecurity, Forcing, Writing
  <2> QED
    BY <1>4, <1>5, <1>13, <2>1
<1>14. CASE s.op = "unreadable"
  BY <1>14 DEF Applied, RowSecurity, Forcing, Writing
<1> QED
  BY <1>7, <1>8, <1>9, <1>10, <1>11, <1>12, <1>13, <1>14

LEMMA RunOpIs ==
  /\ IsOperation(RunOp, RunStates, Statements)
  /\ \A state \in RunStates, s \in Statements : RunOp[<<state, s>>] = Run(state, s)
<1>1. ASSUME NEW state \in RunStates, NEW s \in Statements
      PROVE  Run(state, s) \in RunStates
  <2>1. s.table \in Tables
    BY StatementShape
  <2>2. [state EXCEPT !.ok = FALSE] \in RunStates
    BY DEF RunStates
  <2>3. PICK table \in TableStates : table = state.tables[s.table]
    BY <2>1 DEF RunStates
  <2>4. Applied(table, s) \in TableStates
    BY AppliedType
  <2>5. [state EXCEPT !.tables[s.table] = Applied(table, s)] \in RunStates
    BY <2>1, <2>4 DEF RunStates
  <2> QED
    BY <2>2, <2>3, <2>5 DEF Run
<1> QED
  BY <1>1 DEF RunOp, IsOperation

LEMMA ForceOpIs ==
  ASSUME NEW t
  PROVE  /\ IsOperation(ForceOp(t), BOOLEAN, Statements)
         /\ \A forced \in BOOLEAN, s \in Statements :
              ForceOp(t)[<<forced, s>>] = Forced(t, forced, s)
<1>1. ASSUME NEW forced \in BOOLEAN, NEW s \in Statements
      PROVE  Forced(t, forced, s) \in BOOLEAN
  BY DEF ForceStep, Forced
<1> QED
  BY <1>1 DEF ForceOp, IsOperation

LEMMA BoundaryStepType ==
  ASSUME NEW t, NEW walk \in Walks, NEW s \in Statements
  PROVE  BoundaryStep(t, walk, s) \in Walks
<1> DEFINE others == walk.policies \ Named(walk.policies, s.policy.name)
<1>1. others \in SUBSET Policies
  BY DEF Walks
<1>2. s.op \in Writing => others \cup {s.policy} \in SUBSET Policies
  <2>1. s.op \in Writing => s.op \notin PlainOps
    BY DEF Writing, PlainOps
  <2> HIDE DEF others
  <2> QED
    BY <1>1, <2>1, StatementShape
<1>3. \A b \in BOOLEAN : [walk EXCEPT !.enabled = b] \in Walks
  BY DEF Walks
<1>4. \A ps \in SUBSET Policies : [walk EXCEPT !.policies = ps] \in Walks
  BY DEF Walks
<1>5. [walk EXCEPT !.readable = FALSE] \in Walks
  BY DEF Walks
<1>6. (s.op = "enable") \in BOOLEAN
  OBVIOUS
<1>7. CASE s.table # t
  BY <1>7 DEF BoundaryStep
<1>8. CASE s.table = t /\ s.op \in RowSecurity
  <2>1. BoundaryStep(t, walk, s) = [walk EXCEPT !.enabled = (s.op = "enable")]
    BY <1>8 DEF BoundaryStep, RowSecurity, Writing
  <2> QED
    BY <1>3, <1>6, <2>1
<1>9. CASE s.table = t /\ s.op = "drop policy"
  <2>1. BoundaryStep(t, walk, s) = [walk EXCEPT !.policies = others]
    BY <1>9 DEF BoundaryStep, RowSecurity, Writing
  <2> QED
    BY <1>1, <1>4, <2>1
<1>10. CASE s.table = t /\ s.op \in Writing
  <2>1. \/ BoundaryStep(t, walk, s) = [walk EXCEPT !.readable = FALSE]
        \/ BoundaryStep(t, walk, s) = [walk EXCEPT !.policies = others \cup {s.policy}]
    BY <1>10 DEF BoundaryStep, RowSecurity, Writing
  <2> QED
    BY <1>2, <1>4, <1>5, <1>10, <2>1
<1>11. CASE s.table = t /\ s.op \notin RowSecurity \cup Writing \cup {"drop policy"}
  <2>1. BoundaryStep(t, walk, s) \in {walk, [walk EXCEPT !.readable = FALSE]}
    BY <1>11 DEF BoundaryStep, RowSecurity, Writing
  <2> QED
    BY <1>5, <2>1
<1> QED
  BY <1>7, <1>8, <1>9, <1>10, <1>11

LEMMA BoundaryOpIs ==
  ASSUME NEW t
  PROVE  /\ IsOperation(BoundaryOp(t), Walks, Statements)
         /\ \A walk \in Walks, s \in Statements :
              BoundaryOp(t)[<<walk, s>>] = BoundaryStep(t, walk, s)
BY BoundaryStepType DEF BoundaryOp, IsOperation

LEMMA Starts ==
  /\ Fresh \in RunStates
  /\ FALSE \in BOOLEAN
  /\ NoBoundary \in Walks
BY DEF Fresh, RunStates, TableStates, NoTable, NoBoundary, Walks

-----------------------------------------------------------------------------
(* The folds of the model are these operations. *)

LEMMA RunFold ==
  ASSUME NEW base \in RunStates, NEW s \in Seq(Statements)
  PROVE  FoldLeft(Run, base, s) = After(RunOp, RunStates, base, s)
<1> DEFINE G(it) == [u \in SUBSET DOMAIN s |->
              IF u = {} THEN base ELSE Run(it[u \ {Max(u)}], s[Max(u)])]
           fold == CHOOSE it : it = G(it)
<1>1. FoldLeft(Run, base, s) = fold[DOMAIN s]
  BY DEF FoldLeft, MapThenFoldSet
<1> HIDE DEF fold, G
<1>2. Len(s) \in Nat /\ DOMAIN s = 1 .. Len(s) /\ \A i \in 1 .. Len(s) : s[i] \in Statements
  BY LenProperties, ElementOfSeq
<1>3. PICK it : IsIteration(it, RunOp, RunStates, base, s)
  BY RunOpIs, IterationExists
<1>4. it = G(it)
  <2>1. ASSUME NEW u \in SUBSET (1 .. Len(s)), u # {}
        PROVE  it[u] = Run(it[u \ {Max(u)}], s[Max(u)])
    <3>1. Max(u) \in 1 .. Len(s) /\ u \ {Max(u)} \in SUBSET (1 .. Len(s))
      BY <1>2, <2>1, MaxOf
    <3>2. it[u \ {Max(u)}] \in RunStates /\ s[Max(u)] \in Statements
      BY <1>2, <1>3, <3>1 DEF IsIteration
    <3>3. it[u] = RunOp[<<it[u \ {Max(u)}], s[Max(u)]>>]
      BY <1>3, <2>1 DEF IsIteration
    <3> QED
      BY <3>2, <3>3, RunOpIs
  <2> QED
    BY <1>2, <1>3, <2>1 DEF IsIteration, G
<1>5. fold = G(fold)
  BY <1>4 DEF fold
<1>6. fold[{}] = base
  BY <1>5 DEF G
<1>7. ASSUME NEW i \in 1 .. Len(s), fold[1 .. i - 1] \in RunStates
      PROVE  fold[1 .. i] = RunOp[<<fold[1 .. i - 1], s[i]>>]
  <2>1. i \in Nat \ {0} /\ i \in 1 .. i /\ 1 .. i \in SUBSET (1 .. Len(s))
    BY <1>2
  <2>2. Max(1 .. i) = i /\ (1 .. i) \ {i} = 1 .. i - 1
    BY <2>1, LastOfInterval
  <2>3. fold[1 .. i] = Run(fold[(1 .. i) \ {Max(1 .. i)}], s[Max(1 .. i)])
    BY <1>2, <1>5, <2>1 DEF G
  <2>4. fold[1 .. i] = Run(fold[1 .. i - 1], s[i])
    BY <2>2, <2>3
  <2> QED
    BY <1>2, <1>7, <2>4, RunOpIs
<1>8. fold[1 .. Len(s)] = After(RunOp, RunStates, base, s)
  BY <1>6, <1>7, RunOpIs, FoldEnds
<1> QED
  BY <1>1, <1>2, <1>8

LEMMA ForceFold ==
  ASSUME NEW t, NEW base \in BOOLEAN, NEW s \in Seq(Statements),
         \A i \in 1 .. Len(s) : s[i].op \in Forcing
  PROVE  FoldLeft(LAMBDA forced, c : ForceStep(t, forced, c), base, s)
           = After(ForceOp(t), BOOLEAN, base, s)
<1> DEFINE G(it) == [u \in SUBSET DOMAIN s |->
              IF u = {} THEN base ELSE ForceStep(t, it[u \ {Max(u)}], s[Max(u)])]
           fold == CHOOSE it : it = G(it)
<1>1. FoldLeft(LAMBDA forced, c : ForceStep(t, forced, c), base, s) = fold[DOMAIN s]
  BY Zenon DEF FoldLeft, MapThenFoldSet
<1> HIDE DEF fold, G
<1>2. Len(s) \in Nat /\ DOMAIN s = 1 .. Len(s) /\ \A i \in 1 .. Len(s) : s[i] \in Statements
  BY LenProperties, ElementOfSeq
<1>3. PICK it : IsIteration(it, ForceOp(t), BOOLEAN, base, s)
  BY ForceOpIs, IterationExists
<1>4. it = G(it)
  <2>1. ASSUME NEW u \in SUBSET (1 .. Len(s)), u # {}
        PROVE  it[u] = ForceStep(t, it[u \ {Max(u)}], s[Max(u)])
    <3>1. Max(u) \in 1 .. Len(s) /\ u \ {Max(u)} \in SUBSET (1 .. Len(s))
      BY <1>2, <2>1, MaxOf
    <3>2. /\ it[u \ {Max(u)}] \in BOOLEAN /\ s[Max(u)] \in Statements
          /\ s[Max(u)].op \in Forcing
      BY <1>2, <1>3, <3>1 DEF IsIteration
    <3>3. it[u] = ForceOp(t)[<<it[u \ {Max(u)}], s[Max(u)]>>]
      BY <1>3, <2>1 DEF IsIteration
    <3> QED
      BY <3>2, <3>3, ForceOpIs DEF Forced
  <2> QED
    BY <1>2, <1>3, <2>1 DEF IsIteration, G
<1>5. fold = G(fold)
  BY <1>4 DEF fold
<1>6. fold[{}] = base
  BY <1>5 DEF G
<1>7. ASSUME NEW i \in 1 .. Len(s), fold[1 .. i - 1] \in BOOLEAN
      PROVE  fold[1 .. i] = ForceOp(t)[<<fold[1 .. i - 1], s[i]>>]
  <2>1. i \in Nat \ {0} /\ i \in 1 .. i /\ 1 .. i \in SUBSET (1 .. Len(s))
    BY <1>2
  <2>2. Max(1 .. i) = i /\ (1 .. i) \ {i} = 1 .. i - 1
    BY <2>1, LastOfInterval
  <2>3. fold[1 .. i] = ForceStep(t, fold[(1 .. i) \ {Max(1 .. i)}], s[Max(1 .. i)])
    BY <1>2, <1>5, <2>1 DEF G
  <2>4. fold[1 .. i] = ForceStep(t, fold[1 .. i - 1], s[i])
    BY <2>2, <2>3
  <2> QED
    BY <1>2, <1>7, <2>4, ForceOpIs DEF Forced
<1>8. fold[1 .. Len(s)] = After(ForceOp(t), BOOLEAN, base, s)
  BY <1>6, <1>7, ForceOpIs, FoldEnds
<1> QED
  BY <1>1, <1>2, <1>8

LEMMA BoundaryFold ==
  ASSUME NEW t, NEW base \in Walks, NEW s \in Seq(Statements)
  PROVE  FoldLeft(LAMBDA walk, c : BoundaryStep(t, walk, c), base, s)
           = After(BoundaryOp(t), Walks, base, s)
<1> DEFINE G(it) == [u \in SUBSET DOMAIN s |->
              IF u = {} THEN base ELSE BoundaryStep(t, it[u \ {Max(u)}], s[Max(u)])]
           fold == CHOOSE it : it = G(it)
<1>1. FoldLeft(LAMBDA walk, c : BoundaryStep(t, walk, c), base, s) = fold[DOMAIN s]
  BY Zenon DEF FoldLeft, MapThenFoldSet
<1> HIDE DEF fold, G
<1>2. Len(s) \in Nat /\ DOMAIN s = 1 .. Len(s) /\ \A i \in 1 .. Len(s) : s[i] \in Statements
  BY LenProperties, ElementOfSeq
<1>3. PICK it : IsIteration(it, BoundaryOp(t), Walks, base, s)
  BY BoundaryOpIs, IterationExists
<1>4. it = G(it)
  <2>1. ASSUME NEW u \in SUBSET (1 .. Len(s)), u # {}
        PROVE  it[u] = BoundaryStep(t, it[u \ {Max(u)}], s[Max(u)])
    <3>1. Max(u) \in 1 .. Len(s) /\ u \ {Max(u)} \in SUBSET (1 .. Len(s))
      BY <1>2, <2>1, MaxOf
    <3>2. it[u \ {Max(u)}] \in Walks /\ s[Max(u)] \in Statements
      BY <1>2, <1>3, <3>1 DEF IsIteration
    <3>3. it[u] = BoundaryOp(t)[<<it[u \ {Max(u)}], s[Max(u)]>>]
      BY <1>3, <2>1 DEF IsIteration
    <3> QED
      BY <3>2, <3>3, BoundaryOpIs
  <2> QED
    BY <1>2, <1>3, <2>1 DEF IsIteration, G
<1>5. fold = G(fold)
  BY <1>4 DEF fold
<1>6. fold[{}] = base
  BY <1>5 DEF G
<1>7. ASSUME NEW i \in 1 .. Len(s), fold[1 .. i - 1] \in Walks
      PROVE  fold[1 .. i] = BoundaryOp(t)[<<fold[1 .. i - 1], s[i]>>]
  <2>1. i \in Nat \ {0} /\ i \in 1 .. i /\ 1 .. i \in SUBSET (1 .. Len(s))
    BY <1>2
  <2>2. Max(1 .. i) = i /\ (1 .. i) \ {i} = 1 .. i - 1
    BY <2>1, LastOfInterval
  <2>3. fold[1 .. i] = BoundaryStep(t, fold[(1 .. i) \ {Max(1 .. i)}], s[Max(1 .. i)])
    BY <1>2, <1>5, <2>1 DEF G
  <2>4. fold[1 .. i] = BoundaryStep(t, fold[1 .. i - 1], s[i])
    BY <2>2, <2>3
  <2> QED
    BY <1>2, <1>7, <2>4, BoundaryOpIs
<1>8. fold[1 .. Len(s)] = After(BoundaryOp(t), Walks, base, s)
  BY <1>6, <1>7, BoundaryOpIs, FoldEnds
<1> QED
  BY <1>1, <1>2, <1>8

-----------------------------------------------------------------------------
(* As long as no statement fails and none drops the table, the two walks    *)
(* over the text know what the table has become.                            *)

Agrees(table, walk, forced) ==
  /\ table.policies = walk.policies
  /\ table.enabled = walk.enabled
  /\ table.forced = forced
  /\ ~table.exists => table = NoTable

(* What may be said of a table that is never dropped. *)
Kept(t) == Statements \ {Stmt("drop table", t)}

LEMMA StepAgrees ==
  ASSUME NEW t \in Tables, NEW state \in RunStates, NEW walk \in Walks,
         NEW forced \in BOOLEAN, NEW s \in Kept(t),
         Run(state, s).ok = TRUE
  PROVE  /\ state.ok = TRUE
         /\ Agrees(state.tables[t], walk, forced) =>
              Agrees(Run(state, s).tables[t], BoundaryStep(t, walk, s), Forced(t, forced, s))
<1>1. state.ok = TRUE /\ ~Refused(state.tables[s.table], s)
  BY DEF Run, RunStates
<1>2. Run(state, s).tables = [state.tables EXCEPT ![s.table] = Applied(@, s)]
  BY <1>1 DEF Run, RunStates
<1>0. s \in Statements /\ s # Stmt("drop table", t)
  BY DEF Kept
<1>3. s.table \in Tables
  BY <1>0, StatementShape
<1>4. PICK table \in TableStates : table = state.tables[t]
  BY DEF RunStates
<1> SUFFICES ASSUME Agrees(table, walk, forced)
             PROVE  Agrees(Run(state, s).tables[t], BoundaryStep(t, walk, s),
                           Forced(t, forced, s))
  BY <1>1, <1>4
<1>5. CASE s.table # t
  <2>1. Run(state, s).tables[t] = table
    BY <1>2, <1>3, <1>4, <1>5 DEF RunStates
  <2>2. BoundaryStep(t, walk, s) = walk /\ Forced(t, forced, s) = forced
    BY <1>5 DEF BoundaryStep, ForceStep, Forced
  <2> QED
    BY <2>1, <2>2
<1>6. CASE s.table = t
  <2>1. Run(state, s).tables[t] = Applied(table, s)
    BY <1>2, <1>3, <1>4, <1>6 DEF RunStates
  <2>2. ~Refused(table, s)
    BY <1>1, <1>4, <1>6
  <2> DEFINE others == table.policies \ Named(table.policies, s.policy.name)
  <2>3. others = walk.policies \ Named(walk.policies, s.policy.name)
    BY DEF Agrees
  <2>4. s.op # "drop table"
    BY <1>0, <1>6, StatementShape DEF PlainOps
  <2>5. s.op \in {"create table", "drop policy", "unreadable"} \cup RowSecurity \cup Forcing
                 \cup Writing
    BY <1>0, <2>4, StatementShape DEF PlainOps, PolicyOps, RowSecurity, Forcing, Writing
  <2>6. s.op # "create table" => table.exists
    BY <2>2 DEF Refused, TableStates
  <2>7. CASE s.op = "create table"
    <3>1. table = NoTable
      BY <2>2, <2>7 DEF Refused, Agrees, TableStates
    <3>2. Applied(table, s) = Plain
      BY <2>7 DEF Applied, RowSecurity, Forcing, Writing
    <3>3. BoundaryStep(t, walk, s) = walk
      BY <2>7, <1>6 DEF BoundaryStep, RowSecurity, Writing
    <3>4. Forced(t, forced, s) = forced
      BY <2>7, <1>6 DEF ForceStep, Forced, Forcing, RowSecurity, Writing
    <3> QED
      BY <2>1, <3>1, <3>2, <3>3, <3>4 DEF Agrees, NoTable, Plain
  <2>8. CASE s.op \in RowSecurity
    <3>1. Applied(table, s) = [table EXCEPT !.enabled = (s.op = "enable")]
      BY <2>8 DEF Applied, RowSecurity, Forcing, Writing
    <3>2. BoundaryStep(t, walk, s) = [walk EXCEPT !.enabled = (s.op = "enable")]
      BY <2>8, <1>6 DEF BoundaryStep, RowSecurity, Writing
    <3>3. Forced(t, forced, s) = forced
      BY <2>8, <1>6 DEF ForceStep, Forced, Forcing, RowSecurity, Writing
    <3> QED
      <4>1. PICK b \in BOOLEAN : b = (s.op = "enable")
        OBVIOUS
      <4>2. table.exists
        BY <2>6, <2>8 DEF RowSecurity
      <4> QED
        BY <2>1, <3>1, <3>2, <3>3, <4>1, <4>2 DEF Agrees, TableStates, Walks
  <2>9. CASE s.op \in Forcing
    <3>1. Applied(table, s) = [table EXCEPT !.forced = (s.op = "force")]
      BY <2>9 DEF Applied, RowSecurity, Forcing, Writing
    <3>2. BoundaryStep(t, walk, s) = walk
      BY <2>9, <1>6 DEF BoundaryStep, RowSecurity, Writing, Forcing
    <3>3. Forced(t, forced, s) = (s.op = "force")
      BY <2>9, <1>6 DEF ForceStep, Forced, Forcing, RowSecurity, Writing
    <3> QED
      BY <2>1, <2>6, <2>9, <3>1, <3>2, <3>3 DEF Agrees, TableStates, Forcing
  <2>10. CASE s.op = "drop policy"
    <3>1. Applied(table, s) = [table EXCEPT !.policies = others]
      BY <2>10 DEF Applied, RowSecurity, Forcing, Writing
    <3>2. BoundaryStep(t, walk, s) = [walk EXCEPT !.policies = others]
      BY <2>3, <2>10, <1>6 DEF BoundaryStep, RowSecurity, Writing
    <3>3. Forced(t, forced, s) = forced
      BY <2>10, <1>6 DEF ForceStep, Forced, Forcing, RowSecurity, Writing
    <3> HIDE DEF others
    <3> QED
      BY <2>1, <2>6, <2>10, <3>1, <3>2, <3>3 DEF Agrees, TableStates, Walks
  <2>11. CASE s.op \in Writing
    <3>1. Applied(table, s) = [table EXCEPT !.policies = others \cup {s.policy}]
      BY <2>11 DEF Applied, RowSecurity, Forcing, Writing
    <3>2. ~(s.op = "alter policy" /\ others = walk.policies)
      <4> SUFFICES ASSUME s.op = "alter policy", others = walk.policies
                   PROVE  Refused(table, s)
        BY <2>2
      <4>1. Named(table.policies, s.policy.name) = {}
        BY DEF Agrees, Named
      <4> QED
        BY <4>1 DEF Refused
    <3>3. BoundaryStep(t, walk, s) = [walk EXCEPT !.policies = others \cup {s.policy}]
      BY <2>3, <2>11, <1>6, <3>2 DEF BoundaryStep, RowSecurity, Writing
    <3>4. Forced(t, forced, s) = forced
      BY <2>11, <1>6 DEF ForceStep, Forced, Forcing, RowSecurity, Writing
    <3> HIDE DEF others
    <3> QED
      BY <2>1, <2>6, <2>11, <3>1, <3>3, <3>4 DEF Agrees, TableStates, Walks, Writing
  <2>12. CASE s.op = "unreadable"
    <3>1. Applied(table, s) = table
      BY <2>12 DEF Applied, RowSecurity, Forcing, Writing
    <3>2. BoundaryStep(t, walk, s) = [walk EXCEPT !.readable = FALSE]
      BY <2>12, <1>6 DEF BoundaryStep, RowSecurity, Writing
    <3>3. Forced(t, forced, s) = forced
      BY <2>12, <1>6 DEF ForceStep, Forced, Forcing, RowSecurity, Writing
    <3> QED
      BY <2>1, <3>1, <3>2, <3>3 DEF Agrees, Walks
  <2> QED
    BY <2>5, <2>7, <2>8, <2>9, <2>10, <2>11, <2>12
<1> QED
  BY <1>5, <1>6

(* Statement by statement, to the end of a journal that does not drop it.   *)
LEMMA WalksAgree ==
  ASSUME NEW t \in Tables, NEW w \in Seq(Kept(t)),
         After(RunOp, RunStates, Fresh, w).ok = TRUE
  PROVE  Agrees(After(RunOp, RunStates, Fresh, w).tables[t],
                After(BoundaryOp(t), Walks, NoBoundary, w),
                After(ForceOp(t), BOOLEAN, FALSE, w))
<1>1. /\ Len(w) \in Nat /\ w \in Seq(Statements)
      /\ \A i \in 1 .. Len(w) : w[i] \in Kept(t) /\ w[i] \in Statements
  <2>1. Kept(t) \subseteq Statements
    BY DEF Kept
  <2>2. Len(w) \in Nat /\ w \in Seq(Statements)
    BY <2>1, LenProperties, SeqMonotonic
  <2>3. \A i \in 1 .. Len(w) : w[i] \in Kept(t)
    BY ElementOfSeq
  <2> QED
    BY <2>1, <2>2, <2>3
<1>2. PICK r : IsTrace(r, RunOp, RunStates, Fresh, w)
  BY <1>1, RunOpIs, Starts, TraceExists
<1>3. PICK b : IsTrace(b, BoundaryOp(t), Walks, NoBoundary, w)
  BY <1>1, BoundaryOpIs, Starts, TraceExists
<1>4. PICK f : IsTrace(f, ForceOp(t), BOOLEAN, FALSE, w)
  BY <1>1, ForceOpIs, Starts, TraceExists
<1>5. /\ \A i \in 0 .. Len(w) : r[i] \in RunStates /\ b[i] \in Walks /\ f[i] \in BOOLEAN
      /\ r[0] = Fresh /\ b[0] = NoBoundary /\ f[0] = FALSE
      /\ \A i \in 1 .. Len(w) : /\ r[i] = RunOp[<<r[i - 1], w[i]>>]
                                /\ b[i] = BoundaryOp(t)[<<b[i - 1], w[i]>>]
                                /\ f[i] = ForceOp(t)[<<f[i - 1], w[i]>>]
  BY <1>2, <1>3, <1>4 DEF IsTrace
<1> DEFINE Good(n) == r[n].ok = TRUE => Agrees(r[n].tables[t], b[n], f[n])
           S == {m \in Nat : m <= Len(w) => Good(m)}
<1>0. \A n \in Nat : n \in S <=> (n <= Len(w) => Good(n))
  OBVIOUS
<1> HIDE DEF S
<1>6. 0 \in S
  <2>1. r[0].tables[t] = NoTable /\ b[0] = NoBoundary /\ f[0] = FALSE
    BY <1>5 DEF Fresh
  <2>2. Agrees(NoTable, NoBoundary, FALSE)
    BY DEF Agrees, NoBoundary, NoTable
  <2> QED
    BY <1>0, <2>1, <2>2
<1>7. ASSUME NEW n \in Nat, n \in S
      PROVE  n + 1 \in S
  <2> SUFFICES ASSUME n + 1 <= Len(w), r[n + 1].ok = TRUE
               PROVE  Agrees(r[n + 1].tables[t], b[n + 1], f[n + 1])
    <3>1. n + 1 \in Nat
      OBVIOUS
    <3>2. n + 1 \in S <=> (n + 1 <= Len(w) => Good(n + 1))
      BY <1>0, <3>1
    <3> QED
      BY <3>2
  <2>1. n + 1 \in 1 .. Len(w) /\ (n + 1) - 1 = n /\ n \in 0 .. Len(w)
    BY <1>1
  <2>2. r[n] \in RunStates /\ b[n] \in Walks /\ f[n] \in BOOLEAN /\ w[n + 1] \in Statements
    BY <1>1, <1>5, <2>1
  <2>3. /\ r[n + 1] = Run(r[n], w[n + 1])
        /\ b[n + 1] = BoundaryStep(t, b[n], w[n + 1])
        /\ f[n + 1] = Forced(t, f[n], w[n + 1])
    <3>1. /\ r[n + 1] = RunOp[<<r[n], w[n + 1]>>]
          /\ b[n + 1] = BoundaryOp(t)[<<b[n], w[n + 1]>>]
          /\ f[n + 1] = ForceOp(t)[<<f[n], w[n + 1]>>]
      BY <1>5, <2>1
    <3> QED
      BY <2>2, <3>1, RunOpIs, BoundaryOpIs, ForceOpIs
  <2>4. w[n + 1] \in Kept(t)
    BY <1>1, <2>1
  <2>5. /\ r[n].ok = TRUE
        /\ Agrees(r[n].tables[t], b[n], f[n]) =>
             Agrees(r[n + 1].tables[t], b[n + 1], f[n + 1])
    <3>1. Run(r[n], w[n + 1]).ok = TRUE
      BY <2>3
    <3>2. PICK state \in RunStates, walk \in Walks, forced \in BOOLEAN, s \in Kept(t) :
            state = r[n] /\ walk = b[n] /\ forced = f[n] /\ s = w[n + 1]
      BY <2>2, <2>4
    <3>3. /\ state.ok = TRUE
          /\ Agrees(state.tables[t], walk, forced) =>
               Agrees(Run(state, s).tables[t], BoundaryStep(t, walk, s), Forced(t, forced, s))
      BY <3>1, <3>2, StepAgrees
    <3> QED
      BY <2>3, <3>2, <3>3
  <2>6. n <= Len(w)
    BY <1>1, <2>1
  <2> QED
    BY <1>0, <1>7, <2>5, <2>6
<1>8. Nat \subseteq S
  BY <1>6, <1>7, Induction
<1>9. r[Len(w)].ok = TRUE => Agrees(r[Len(w)].tables[t], b[Len(w)], f[Len(w)])
  BY <1>0, <1>1, <1>8
<1>10. After(RunOp, RunStates, Fresh, w) = r[Len(w)]
  BY <1>1, <1>2, RunOpIs, Starts, AfterIs
<1>11. After(BoundaryOp(t), Walks, NoBoundary, w) = b[Len(w)]
  BY <1>1, <1>3, BoundaryOpIs, Starts, AfterIs
<1>12. After(ForceOp(t), BOOLEAN, FALSE, w) = f[Len(w)]
  <2>1. PICK B, no : B = BOOLEAN /\ no = FALSE /\ no \in B
    OBVIOUS
  <2>2. IsOperation(ForceOp(t), B, Statements) /\ IsTrace(f, ForceOp(t), B, no, w)
    BY <1>4, <2>1, ForceOpIs
  <2>3. After(ForceOp(t), B, no, w) = f[Len(w)]
    BY <1>1, <2>1, <2>2, AfterIs
  <2> QED
    BY <2>1, <2>3
<1> QED
  BY <1>9, <1>10, <1>11, <1>12

-----------------------------------------------------------------------------
(* The files of a journal, and where they leave a fresh database.           *)

Files(journal, places) ==
  [i \in 1 .. Len(journal) |-> IF i \in places THEN journal[i].sql ELSE <<>>]
First(journal, k) == [i \in 1 .. k |-> journal[i].sql]

Result(journal, k) ==
  After(OverFiles(RunOp, RunStates, Statements), RunStates, Fresh, First(journal, k))

LEMMA FilesAre ==
  ASSUME NEW j, IsJournal(j), NEW places
  PROVE  /\ Files(j, places) \in Seq(Seq(Statements))
         /\ Len(Files(j, places)) = Len(j)
         /\ \A i \in 1 .. Len(j) :
              Files(j, places)[i] = IF i \in places THEN j[i].sql ELSE <<>>
         /\ Written(j, places) = FlattenSeq(Files(j, places))
<1>1. /\ Len(j) \in Nat /\ DOMAIN j = 1 .. Len(j)
      /\ \A i \in 1 .. Len(j) : j[i].sql \in Seq(Statements)
  BY JournalShape DEF IsMigration
<1>2. <<>> \in Seq(Statements)
  BY EmptySeq
<1>3. \A i \in 1 .. Len(j) : (IF i \in places THEN j[i].sql ELSE <<>>) \in Seq(Statements)
  BY <1>1, <1>2
<1>4. Written(j, places) = FlattenSeq(Files(j, places))
  BY <1>1 DEF Written, Files
<1> QED
  BY <1>1, <1>3, <1>4 DEF Files

LEMMA FirstAre ==
  ASSUME NEW j, IsJournal(j), NEW k \in 0 .. Len(j)
  PROVE  /\ First(j, k) \in Seq(Seq(Statements))
         /\ Len(First(j, k)) = k
         /\ \A i \in 1 .. k : First(j, k)[i] = j[i].sql
<1>1. /\ Len(j) \in Nat
      /\ \A i \in 1 .. Len(j) : j[i].sql \in Seq(Statements)
  BY JournalShape DEF IsMigration
<1>2. \A i \in 1 .. k : j[i].sql \in Seq(Statements)
  BY <1>1
<1> QED
  BY <1>1, <1>2 DEF First

LEMMA ResultType ==
  ASSUME NEW j, IsJournal(j), NEW k \in 0 .. Len(j)
  PROVE  Result(j, k) \in RunStates
<1>1. PICK T : T = Seq(Statements)
  OBVIOUS
<1>2. First(j, k) \in Seq(T)
  BY <1>1, FirstAre
<1>3. IsOperation(OverFiles(RunOp, RunStates, Statements), RunStates, T)
  BY <1>1, RunOpIs, OverFilesIsOperation
<1> QED
  BY <1>2, <1>3, Starts, AfterType DEF Result

(* The files after the first k, run on where those left the database.       *)
LEMMA ResultGoesOn ==
  ASSUME NEW j, IsJournal(j), NEW k \in 0 .. Len(j), NEW places,
         places = {i \in 1 .. Len(j) : i > k}
  PROVE  FoldLeft(Run, Result(j, k), Written(j, places)) = Result(j, Len(j))
<1>0. Len(j) \in Nat
  BY JournalShape
<1>1. PICK base \in RunStates : base = Result(j, k)
  BY ResultType
<1>2. PICK files \in Seq(Seq(Statements)) : files = Files(j, places)
  BY FilesAre
<1>3. /\ Len(files) = Len(j) /\ Written(j, places) = FlattenSeq(files)
      /\ \A i \in 1 .. Len(j) : files[i] = IF i \in places THEN j[i].sql ELSE <<>>
  <2>1. Len(files) = Len(j)
    BY <1>2, FilesAre
  <2>2. Written(j, places) = FlattenSeq(files)
    BY <1>2, FilesAre
  <2>3. \A i \in 1 .. Len(j) : files[i] = IF i \in places THEN j[i].sql ELSE <<>>
    BY <1>2 DEF Files
  <2> QED
    BY <2>1, <2>2, <2>3
<1>4. PICK first \in Seq(Seq(Statements)) : first = First(j, k)
  BY FirstAre
<1>5. Len(j) \in 0 .. Len(j)
  BY <1>0
<1>6. PICK all \in Seq(Seq(Statements)) : all = First(j, Len(j))
  BY <1>5, FirstAre
<1>7. /\ Len(first) = k /\ Len(all) = Len(j)
      /\ \A i \in 1 .. k : first[i] = j[i].sql
      /\ \A i \in 1 .. Len(j) : all[i] = j[i].sql
  BY <1>4, <1>5, <1>6, FirstAre
<1>8. /\ \A i \in 1 .. Len(first) : first[i] = all[i] /\ files[i] = <<>>
      /\ \A i \in Len(first) + 1 .. Len(all) : files[i] = all[i]
  <2>1. \A i \in 1 .. k : i \in 1 .. Len(j) /\ i \notin places
    BY <1>0
  <2>2. \A i \in k + 1 .. Len(j) : i \in 1 .. Len(j) /\ i \in places
    BY <1>0
  <2> QED
    BY <1>3, <1>7, <2>1, <2>2
<1>9. After(OverFiles(RunOp, RunStates, Statements), RunStates,
            After(OverFiles(RunOp, RunStates, Statements), RunStates, Fresh, first), files)
        = After(OverFiles(RunOp, RunStates, Statements), RunStates, Fresh, all)
  <2>1. Len(first) <= Len(all) /\ Len(files) = Len(all)
    BY <1>0, <1>3, <1>7
  <2>2. GoesOn(first, files, all)
    BY <1>8, <2>1 DEF GoesOn
  <2> QED
    <3>1. IsOperation(RunOp, RunStates, Statements) /\ Fresh \in RunStates
      BY RunOpIs, Starts
    <3> QED
      BY <3>1, <2>2, FilesGoOn
<1>10. After(OverFiles(RunOp, RunStates, Statements), RunStates, base, files) = Result(j, Len(j))
  BY <1>1, <1>4, <1>6, <1>9 DEF Result
<1>11. /\ FlattenSeq(files) \in Seq(Statements)
       /\ After(RunOp, RunStates, base, FlattenSeq(files))
            = After(OverFiles(RunOp, RunStates, Statements), RunStates, base, files)
  BY RunOpIs, FileByFile
<1>12. FoldLeft(Run, base, FlattenSeq(files)) = After(RunOp, RunStates, base, FlattenSeq(files))
  BY <1>11, RunFold
<1> QED
  BY <1>1, <1>3, <1>10, <1>11, <1>12

LEMMA WholeResult ==
  ASSUME NEW j, IsJournal(j)
  PROVE  /\ Written(j, DOMAIN j) \in Seq(Statements)
         /\ Result(j, Len(j)) = After(RunOp, RunStates, Fresh, Written(j, DOMAIN j))
<1>1. Len(j) \in 0 .. Len(j) /\ DOMAIN j = 1 .. Len(j)
  BY JournalShape
<1>2. PICK files \in Seq(Seq(Statements)) : files = Files(j, DOMAIN j)
  BY FilesAre
<1>3. files = First(j, Len(j))
  BY <1>1, <1>2 DEF Files, First
<1>4. Written(j, DOMAIN j) = FlattenSeq(files)
  BY <1>2, FilesAre
<1> QED
  BY <1>3, <1>4, RunOpIs, Starts, FileByFile DEF Result

LEMMA BoundaryIs ==
  ASSUME NEW j, IsJournal(j), NEW t
  PROVE  EffectiveBoundary(j, t)
           = After(BoundaryOp(t), Walks, NoBoundary, Written(j, DOMAIN j))
BY WholeResult, Starts, BoundaryFold DEF EffectiveBoundary

(* What the grammar lets the force walk pass over forces nothing.           *)
LEMMA ForceStateIs ==
  ASSUME NEW j, IsJournal(j), GrammarHolds(j), NEW t
  PROVE  ForceState(j, t) = After(ForceOp(t), BOOLEAN, FALSE, Written(j, DOMAIN j))
<1> DEFINE ForcingStatements == {s \in Statements : s.op \in Forcing}
<1>0. DOMAIN j = 1 .. Len(j) /\ Len(j) \in Nat
  BY JournalShape
<1>1. PICK read : read = GeneratorFiles(j)
  OBVIOUS
<1>2. PICK all \in Seq(Seq(Statements)) : all = Files(j, DOMAIN j)
  BY FilesAre
<1>3. PICK some \in Seq(Seq(Statements)) : some = Files(j, read)
  BY FilesAre
<1>4. /\ Len(all) = Len(j) /\ Len(some) = Len(j)
      /\ Written(j, DOMAIN j) = FlattenSeq(all) /\ Written(j, read) = FlattenSeq(some)
      /\ \A i \in 1 .. Len(j) : all[i] = j[i].sql
      /\ \A i \in 1 .. Len(j) : some[i] = IF i \in read THEN j[i].sql ELSE <<>>
  BY <1>0, <1>2, <1>3, FilesAre
<1>5. \A i \in 1 .. Len(j) : j[i].sql \in Seq(Statements)
  BY JournalShape DEF IsMigration
<1>6. ASSUME NEW i \in 1 .. Len(j), i \in read
      PROVE  some[i] \in Seq(ForcingStatements)
  <2>1. PICK file \in Seq(Statements) : file = j[i].sql
    BY <1>5
  <2>2. Len(file) \in Nat /\ DOMAIN file = 1 .. Len(file)
        /\ \A n \in 1 .. Len(file) : file[n] \in Statements
    BY LenProperties, ElementOfSeq
  <2>3. Conforms(file)
    BY <1>1, <1>6, <2>1 DEF GeneratorFiles
  <2>4. \A n \in 1 .. Len(file) : file[n] \in ForcingStatements
    BY <2>2, <2>3 DEF Conforms, Ops
  <2>5. some[i] = file
    BY <1>4, <1>6, <2>1
  <2> HIDE DEF ForcingStatements
  <2>6. file \in Seq(ForcingStatements)
    BY <2>4, SeqOfAll
  <2> QED
    BY <2>5, <2>6
<1>7. ASSUME NEW i \in 1 .. Len(j), i \notin read
      PROVE  /\ some[i] = <<>>
             /\ \A forced \in BOOLEAN, n \in 1 .. Len(all[i]) :
                  ForceOp(t)[<<forced, all[i][n]>>] = forced
  <2>1. PICK file \in Seq(Statements) : file = j[i].sql
    BY <1>5
  <2>2. DOMAIN file = 1 .. Len(file) /\ \A n \in 1 .. Len(file) : file[n] \in Statements
    BY LenProperties, ElementOfSeq
  <2>3. some[i] = <<>> /\ all[i] = file
    BY <1>4, <1>7, <2>1
  <2>4. Ops(file) \cap Forcing = {}
    <3>1. KindOf(j, i) # "generator"
      BY <1>0, <1>1, <1>7 DEF GeneratorFiles, GrammarHolds
    <3>2. Ops(file) \cap Forbidden(KindOf(j, i)) = {}
      BY <1>0, <2>1, <3>1 DEF GrammarHolds
    <3>3. Forcing \subseteq Forbidden(KindOf(j, i))
      BY DEF Forbidden
    <3> QED
      BY <3>2, <3>3
  <2>5. \A n \in 1 .. Len(file) : file[n].op \notin Forcing
    BY <2>2, <2>4 DEF Ops
  <2> QED
    BY <2>2, <2>3, <2>5, ForceOpIs DEF Forced
<1>8. After(OverFiles(ForceOp(t), BOOLEAN, Statements), BOOLEAN, FALSE, some)
        = After(OverFiles(ForceOp(t), BOOLEAN, Statements), BOOLEAN, FALSE, all)
  <2>1. \A i \in 1 .. Len(all) :
           \/ some[i] = all[i]
           \/ some[i] = <<>> /\ \A d \in BOOLEAN, n \in 1 .. Len(all[i]) :
                                  ForceOp(t)[<<d, all[i][n]>>] = d
    BY <1>4, <1>7
  <2> QED
    <3>1. PICK B, no : B = BOOLEAN /\ no = FALSE /\ no \in B
      OBVIOUS
    <3>2. IsOperation(ForceOp(t), B, Statements)
      BY <3>1, ForceOpIs
    <3>3. Skips(some, all, ForceOp(t), B)
      BY <1>4, <2>1, <3>1 DEF Skips
    <3>4. After(OverFiles(ForceOp(t), B, Statements), B, no, some)
            = After(OverFiles(ForceOp(t), B, Statements), B, no, all)
      BY <3>1, <3>2, <3>3, FilesMayBeSkipped
    <3> QED
      BY <3>1, <3>4
<1>9. /\ FlattenSeq(some) \in Seq(Statements)
      /\ After(ForceOp(t), BOOLEAN, FALSE, FlattenSeq(some))
           = After(ForceOp(t), BOOLEAN, FALSE, FlattenSeq(all))
  <2>1. PICK B, no : B = BOOLEAN /\ no = FALSE /\ no \in B
    OBVIOUS
  <2>2. IsOperation(ForceOp(t), B, Statements)
    BY <2>1, ForceOpIs
  <2>3. /\ FlattenSeq(some) \in Seq(Statements)
        /\ After(ForceOp(t), B, no, FlattenSeq(some))
             = After(OverFiles(ForceOp(t), B, Statements), B, no, some)
        /\ After(ForceOp(t), B, no, FlattenSeq(all))
             = After(OverFiles(ForceOp(t), B, Statements), B, no, all)
    BY <2>1, <2>2, FileByFile
  <2> QED
    BY <1>8, <2>1, <2>3
<1>10. \A i \in 1 .. Len(FlattenSeq(some)) : FlattenSeq(some)[i].op \in Forcing
  <2>1. \A i \in 1 .. Len(some) : some[i] \in Seq(ForcingStatements)
    <3>1. <<>> \in Seq(ForcingStatements)
      BY EmptySeq
    <3> HIDE DEF ForcingStatements
    <3> QED
      BY <1>4, <1>6, <3>1
  <2>2. PICK T : T = Seq(ForcingStatements)
    OBVIOUS
  <2>3. some \in Seq(T)
    BY <2>1, <2>2, SeqOfAll
  <2>4. FlattenSeq(some) \in Seq(ForcingStatements)
    BY <2>2, <2>3, FlattenSeqType
  <2>5. \A i \in 1 .. Len(FlattenSeq(some)) : FlattenSeq(some)[i] \in ForcingStatements
    BY <2>4, ElementOfSeq
  <2> QED
    BY <2>5
<1>11. FoldLeft(LAMBDA forced, c : ForceStep(t, forced, c), FALSE, FlattenSeq(some))
         = After(ForceOp(t), BOOLEAN, FALSE, FlattenSeq(some))
  BY <1>9, <1>10, ForceFold
<1> QED
  BY <1>1, <1>4, <1>9, <1>11 DEF ForceState

-----------------------------------------------------------------------------
(* The invariant of the database. *)

(* Where the first migrations of a journal leave a fresh database.          *)
LeftBy(journal, k) == FoldLeft(Run, Fresh, Written(journal, 1 .. k))

(* What is on main was verified as it is, or nothing was ever declared.     *)
Approved ==
  \/ \A t \in Tables : main.schema[t] = "absent"
  \/ /\ GrammarHolds(main.journal)
     /\ ForceHolds(main.schema, main.journal)
     /\ BoundaryHolds(main.schema, main.journal)

(* However many runs of migrate it took, unless one did again what another   *)
(* had done, the tables are what the migrations of the ledger make of a      *)
(* fresh database in one.                                                   *)
Deployed ==
  Duplicated = {} =>
    \E k \in 0 .. Len(main.journal) :
      /\ AppliedUpTo(main.journal, database.ledger, k)
      /\ LeftBy(main.journal, k) = [tables |-> database.tables, ok |-> TRUE]

DeploymentInv == HistoryInv /\ Approved /\ Deployed

LEMMA LeftByIs ==
  ASSUME NEW j, IsJournal(j), NEW k \in 0 .. Len(j)
  PROVE  LeftBy(j, k) = Result(j, k)
<1>0. Len(j) \in Nat
  BY JournalShape
<1>1. PICK first \in Seq(Seq(Statements)) : first = First(j, k)
  BY FirstAre
<1>2. PICK all \in Seq(Seq(Statements)) : all = Files(j, 1 .. k)
  BY FilesAre
<1>3. PICK rest \in Seq(Seq(Statements)) : rest = Files(j, {})
  BY FilesAre
<1>4. Len(first) = k /\ Len(all) = Len(j) /\ Len(rest) = Len(j)
  BY <1>1, <1>2, <1>3, FirstAre, FilesAre
<1>5. /\ \A i \in 1 .. k : first[i] = j[i].sql
      /\ \A i \in 1 .. Len(j) : all[i] = IF i \in 1 .. k THEN j[i].sql ELSE <<>>
      /\ \A i \in 1 .. Len(j) : rest[i] = <<>>
  BY <1>1, <1>2, <1>3, FirstAre DEF Files
<1>6. GoesOn(first, rest, all)
  <2>1. \A i \in 1 .. k : i \in 1 .. Len(j) /\ first[i] = all[i] /\ rest[i] = <<>>
    BY <1>0, <1>5
  <2>2. ASSUME NEW i \in k + 1 .. Len(j)
        PROVE  rest[i] = all[i]
    <3>1. i \in 1 .. Len(j) /\ i \notin 1 .. k
      BY <1>0
    <3> QED
      BY <1>5, <3>1
  <2> QED
    BY <1>0, <1>4, <2>1, <2>2 DEF GoesOn
<1>7. IsOperation(RunOp, RunStates, Statements) /\ Fresh \in RunStates
  BY RunOpIs, Starts
<1>8. PICK F, T : F = OverFiles(RunOp, RunStates, Statements) /\ T = Seq(Statements)
  OBVIOUS
<1>9. After(F, RunStates, Result(j, k), rest) = After(F, RunStates, Fresh, all)
  BY <1>1, <1>6, <1>7, <1>8, FilesGoOn DEF Result
<1>10. After(F, RunStates, Result(j, k), rest) = Result(j, k)
  <2>1. IsOperation(F, RunStates, T)
    BY <1>7, <1>8, OverFilesIsOperation
  <2>2. rest \in Seq(T)
    BY <1>8
  <2>3. PICK base \in RunStates : base = Result(j, k)
    BY ResultType
  <2>4. \A state \in RunStates, i \in 1 .. Len(rest) : F[<<state, rest[i]>>] = state
    BY <1>4, <1>5, <1>7, <1>8, EmptyFile
  <2>5. After(F, RunStates, base, rest) = base
    BY <2>1, <2>2, <2>4, AfterIdle
  <2> QED
    BY <2>3, <2>5
<1>11. Written(j, 1 .. k) = FlattenSeq(all)
  BY <1>2, FilesAre
<1>12. /\ FlattenSeq(all) \in Seq(Statements)
       /\ After(RunOp, RunStates, Fresh, FlattenSeq(all)) = After(F, RunStates, Fresh, all)
  BY <1>7, <1>8, FileByFile
<1>13. FoldLeft(Run, Fresh, FlattenSeq(all)) = After(RunOp, RunStates, Fresh, FlattenSeq(all))
  BY <1>7, <1>12, RunFold
<1> QED
  BY <1>9, <1>10, <1>11, <1>12, <1>13 DEF LeftBy

(* The founding journal says nothing, so a database it was applied to is     *)
(* fresh.                                                                   *)
LEMMA DeploymentStarts == Init => DeploymentInv
<1> SUFFICES ASSUME Init PROVE DeploymentInv
  OBVIOUS
<1>1. HistoryInv
  BY HistoryStarts
<1>2. Approved
  BY DEF Init, Approved
<1>3. PICK j : j = main.journal
  OBVIOUS
<1>4. /\ IsJournal(j) /\ Len(j) = 1 /\ 1 \in 0 .. Len(j)
      /\ j[1].sql = <<>>
      /\ AppliedUpTo(j, database.ledger, 1)
  BY <1>3, FoundingIs, InitIs
<1>6. LeftBy(j, 1) = Fresh
  <2>1. PICK files : files = First(j, 1)
    OBVIOUS
  <2>2. PICK F, T : F = OverFiles(RunOp, RunStates, Statements) /\ T = Seq(Statements)
    OBVIOUS
  <2>3. IsOperation(F, RunStates, T) /\ Fresh \in RunStates
    BY <2>2, RunOpIs, OverFilesIsOperation, Starts
  <2>4. files \in Seq(T) /\ Len(files) = 1 /\ \A i \in 1 .. 1 : files[i] = <<>>
    <3>1. files \in Seq(T) /\ Len(files) = 1 /\ \A i \in 1 .. 1 : files[i] = j[i].sql
      BY <1>4, <2>1, <2>2, FirstAre
    <3> QED
      BY <1>4, <3>1
  <2>5. \A state \in RunStates, i \in 1 .. Len(files) : F[<<state, files[i]>>] = state
    BY <2>2, <2>4, RunOpIs, EmptyFile
  <2>6. After(F, RunStates, Fresh, files) = Fresh
    BY <2>3, <2>4, <2>5, AfterIdle
  <2>7. Result(j, 1) = Fresh
    BY <2>1, <2>2, <2>6 DEF Result
  <2> QED
    BY <1>4, <2>7, LeftByIs
<1>7. Fresh = [tables |-> database.tables, ok |-> TRUE]
  BY DEF Fresh, Init
<1> QED
  BY <1>1, <1>2, <1>3, <1>4, <1>6, <1>7 DEF DeploymentInv, Deployed

(* What two journals have in common leaves the same behind.                 *)
LEMMA SameResult ==
  ASSUME NEW j, NEW after, NEW k \in Nat, \A i \in 1 .. k : after[i] = j[i]
  PROVE  Result(after, k) = Result(j, k)
<1>1. First(after, k) = First(j, k)
  BY DEF First
<1> QED
  BY <1>1 DEF Result

LEMMA MergeDeploys ==
  ASSUME DeploymentInv, NEW b \in Branches, Merge(b)
  PROVE  Approved' /\ Deployed'
<1>1. Approved'
  BY DEF Merge, Verified, Approved
<1>2. database' = database
  BY DEF Merge, deployed
<1>3. HistoryInv
  BY DEF DeploymentInv
<1>4. SUFFICES ASSUME Duplicated' = {}
               PROVE  \E k \in 0 .. Len(main'.journal) :
                        /\ AppliedUpTo(main'.journal, database.ledger, k)
                        /\ LeftBy(main'.journal, k) = [tables |-> database.tables, ok |-> TRUE]
  BY <1>1, <1>2 DEF Deployed
<1>5. Duplicated = {}
  BY <1>2, <1>4 DEF Duplicated
<1>6. PICK k \in 0 .. Len(main.journal) :
        /\ AppliedUpTo(main.journal, database.ledger, k)
        /\ LeftBy(main.journal, k) = [tables |-> database.tables, ok |-> TRUE]
  BY <1>5 DEF DeploymentInv, Deployed
<1>7. PICK before, after : before = main.journal /\ after = main'.journal
  OBVIOUS
<1>8. /\ IsJournal(before) /\ IsJournal(after) /\ Continues(before, after)
  BY <1>3, <1>7, MergeContinues
<1>9. k \in 0 .. Len(after) /\ AppliedUpTo(after, database.ledger, k)
  BY <1>6, <1>7, <1>8, LedgerStaysBehind
<1>10. LeftBy(after, k) = LeftBy(before, k)
  <2>1. Len(before) \in Nat
    BY <1>8, JournalShape
  <2>2. k \in Nat /\ \A i \in 1 .. k : after[i] = before[i]
    BY <1>6, <1>7, <1>8, <2>1 DEF Continues
  <2>3. Result(after, k) = Result(before, k)
    BY <2>2, SameResult
  <2> QED
    BY <1>6, <1>7, <1>8, <1>9, <2>3, LeftByIs
<1> QED
  BY <1>6, <1>7, <1>9, <1>10

(* What is in a ledger twice stays so.                                      *)
LEMMA DuplicatesStay ==
  ASSUME HistoryInv, NEW S, database'.ledger = database.ledger (+) SetToBag(S)
  PROVE  Duplicated \subseteq Duplicated'
<1>1. \A row \in BagToSet(database.ledger) : database.ledger[row] \in Nat \ {0}
  BY DEF HistoryInv, MigratedTo, AppliedUpTo
<1>2. /\ BagToSet(database'.ledger) = BagToSet(database.ledger) \cup S
      /\ \A row \in BagToSet(database'.ledger) : database'.ledger[row] \in Nat \ {0}
      /\ \A row \in BagToSet(database.ledger) : database'.ledger[row] >= database.ledger[row]
  BY <1>1, RowsAdded
<1> SUFFICES ASSUME NEW row \in Duplicated PROVE row \in Duplicated'
  OBVIOUS
<1>3. row \in BagToSet(database.ledger) /\ row \in BagToSet(database'.ledger)
  BY <1>2 DEF Duplicated
<1>4. CASE database.ledger[row] > 1
  <2>1. database'.ledger[row] > 1
    BY <1>1, <1>2, <1>3, <1>4
  <2> QED
    BY <1>3, <2>1 DEF Duplicated
<1>5. CASE \E other \in BagToSet(database.ledger) : other # row /\ other.when = row.when
  BY <1>2, <1>3, <1>5 DEF Duplicated
<1> QED
  BY <1>4, <1>5 DEF Duplicated

(* A run that has been overtaken does again what the ledger has a row of.    *)
LEMMA OvertakenDuplicates ==
  ASSUME HistoryInv, NEW o \in Migrators, CommitMigrate(o),
         NEW k \in 0 .. Len(main.journal), AppliedUpTo(main.journal, database.ledger, k),
         NEW n \in 0 .. k, ReadAt(runs[o], main.journal, n), n # k
  PROVE  Duplicated' # {}
<1>1. PICK j, files : j = main.journal /\ files = runs[o].journal
  OBVIOUS
<1>2. PICK newer : newer = Newer(files, runs[o].newest)
  OBVIOUS
<1>3. IsJournal(j) /\ Ordered(j) /\ Len(j) \in Nat
  BY <1>1, JournalShape DEF HistoryInv, Typed
<1>4. /\ Len(files) \in 0 .. Len(j) /\ n < Len(files)
      /\ \A i \in 1 .. Len(files) : files[i] = j[i]
      /\ newer = {i \in 1 .. Len(files) : i > n}
  BY <1>1, <1>2, <1>3, ReadIs
<1>5. PICK S : S = {Row(files[i]) : i \in newer}
  OBVIOUS
<1>6. database'.ledger = database.ledger (+) SetToBag(S)
  BY <1>1, <1>2, <1>5 DEF CommitMigrate
<1>7. n + 1 \in newer /\ n + 1 \in 1 .. k /\ files[n + 1] = j[n + 1]
  BY <1>1, <1>3, <1>4
<1>8. PICK row : row = Row(j[n + 1])
  OBVIOUS
<1>9. row \in S /\ row \in BagToSet(database.ledger)
  BY <1>1, <1>5, <1>7, <1>8 DEF AppliedUpTo
<1>10. /\ row \in BagToSet(database'.ledger)
       /\ database'.ledger[row] = database.ledger[row] + 1
       /\ database.ledger[row] \in Nat \ {0}
  BY <1>6, <1>9, RowsAdded DEF AppliedUpTo
<1>11. database'.ledger[row] > 1
  BY <1>10
<1> QED
  BY <1>10, <1>11 DEF Duplicated

LEMMA CommitDeploys ==
  ASSUME DeploymentInv, NEW o \in Migrators, CommitMigrate(o)
  PROVE  Approved' /\ Deployed'
<1>1. main' = main
  BY DEF CommitMigrate, authored
<1>2. Approved'
  BY <1>1 DEF DeploymentInv, Approved
<1>3. HistoryInv
  BY DEF DeploymentInv
<1>4. SUFFICES ASSUME Duplicated' = {}
               PROVE  \E k \in 0 .. Len(main.journal) :
                        /\ AppliedUpTo(main.journal, database'.ledger, k)
                        /\ LeftBy(main.journal, k) = [tables |-> database'.tables, ok |-> TRUE]
  BY <1>1, <1>2 DEF Deployed
<1>5. PICK j, files, newer :
        /\ j = main.journal /\ files = runs[o].journal
        /\ newer = Newer(files, runs[o].newest)
  OBVIOUS
<1>6. IsJournal(j) /\ Ordered(j) /\ Len(j) \in Nat
  BY <1>3, <1>5, JournalShape DEF HistoryInv, Typed
<1>7. Duplicated = {}
  <2>1. PICK S : database'.ledger = database.ledger (+) SetToBag(S)
    BY DEF CommitMigrate
  <2> QED
    BY <1>3, <1>4, <2>1, DuplicatesStay
<1>8. PICK k \in 0 .. Len(j) :
        /\ AppliedUpTo(j, database.ledger, k)
        /\ LeftBy(j, k) = [tables |-> database.tables, ok |-> TRUE]
  BY <1>5, <1>7 DEF DeploymentInv, Deployed
<1>9. PICK n \in 0 .. k : ReadAt(runs[o], j, n)
  <2>1. PICK m \in 0 .. Len(j) : AppliedUpTo(j, database.ledger, m) /\ RunsBehind(m)
    BY <1>3, <1>5 DEF HistoryInv, MigratedTo
  <2>2. m = k
    <3>1. ~(m < k) /\ ~(k < m)
      BY <1>6, <1>8, <2>1, OnePlace
    <3> QED
      BY <1>6, <2>1, <3>1
  <2> QED
    BY <1>5, <2>1, <2>2 DEF RunsBehind, CommitMigrate
<1>10. n = k
  BY <1>3, <1>4, <1>5, <1>8, <1>9, OvertakenDuplicates
<1>11. /\ IsJournal(files) /\ Len(files) \in 0 .. Len(j) /\ k \in 0 .. Len(files)
       /\ \A i \in 1 .. Len(files) : files[i] = j[i]
       /\ newer = {i \in 1 .. Len(files) : i > k}
       /\ k < Len(files)
  <2>1. n \in 0 .. Len(j)
    BY <1>6, <1>9
  <2>2. /\ IsJournal(files) /\ Len(files) \in 0 .. Len(j) /\ n < Len(files)
        /\ \A i \in 1 .. Len(files) : files[i] = j[i]
        /\ newer = {i \in 1 .. Len(files) : i > n}
    BY <1>5, <1>6, <1>9, <2>1, ReadIs
  <2> QED
    BY <1>6, <1>10, <2>2
<1>12. FoldLeft(Run, Result(files, k), Written(files, newer)) = Result(files, Len(files))
  BY <1>11, ResultGoesOn
<1>13. Result(files, k) = Result(j, k) /\ Result(files, Len(files)) = Result(j, Len(files))
  <2>1. k \in Nat /\ Len(files) \in Nat /\ \A i \in 1 .. k : files[i] = j[i]
    BY <1>6, <1>11
  <2> QED
    BY <1>11, <2>1, SameResult
<1>14. PICK result : result = Result(j, Len(files))
  OBVIOUS
<1>15. result \in RunStates
  BY <1>6, <1>11, <1>14, ResultType
<1>16. result.ok = TRUE /\ database'.tables = result.tables
  <2>1. Result(j, k) = [tables |-> database.tables, ok |-> TRUE]
    BY <1>6, <1>8, LeftByIs
  <2>2. result = FoldLeft(Run, [tables |-> database.tables, ok |-> TRUE], Written(files, newer))
    BY <1>12, <1>13, <1>14, <2>1
  <2> QED
    BY <1>5, <1>15, <2>2 DEF CommitMigrate, RunStates
<1>17. result = [tables |-> database'.tables, ok |-> TRUE]
  BY <1>15, <1>16 DEF RunStates
<1>18. AppliedUpTo(j, database'.ledger, Len(files))
  <2>1. Furthest(k, Len(files)) = Len(files)
    BY <1>11 DEF Furthest
  <2> QED
    BY <1>3, <1>5, <1>8, <1>9, <2>1, CommitReaches
<1>19. LeftBy(j, Len(files)) = [tables |-> database'.tables, ok |-> TRUE]
  BY <1>6, <1>11, <1>14, <1>17, LeftByIs
<1> QED
  BY <1>5, <1>11, <1>18, <1>19

LEMMA DeploymentStep == DeploymentInv /\ [Next]_vars => DeploymentInv'
<1> SUFFICES ASSUME DeploymentInv, [Next]_vars PROVE DeploymentInv'
  OBVIOUS
<1>1. HistoryInv'
  BY HistoryStep DEF DeploymentInv
<1>2. main' = main /\ database' = database => Approved' /\ Deployed'
  BY DEF DeploymentInv, Approved, Deployed, Duplicated
<1>3. ASSUME NEW o \in Migrators, CommitMigrate(o)
      PROVE  DeploymentInv'
  BY <1>1, <1>3, CommitDeploys DEF DeploymentInv
<1>4. ASSUME NEW b \in Branches, Merge(b)
      PROVE  DeploymentInv'
  BY <1>1, <1>4, MergeDeploys DEF DeploymentInv
<1>5. ASSUME NEW o \in Migrators, StartMigrate(o) \/ AbortMigrate(o)
      PROVE  DeploymentInv'
  <2>1. main' = main /\ database' = database
    BY <1>5 DEF StartMigrate, AbortMigrate, authored
  <2> QED
    BY <1>1, <1>2, <2>1 DEF DeploymentInv
<1>6. ASSUME NEW b \in Branches,
             \/ Cut(b) \/ Generate(b) \/ EmitForce(b)
             \/ HandAuthor(b) \/ EditFile(b) \/ Rebase(b)
      PROVE  DeploymentInv'
  <2>1. main' = main /\ database' = database
    BY <1>6 DEF Cut, Generate, EmitForce, HandAuthor, EditFile, Rebase, deployed
  <2> QED
    BY <1>1, <1>2, <2>1 DEF DeploymentInv
<1>7. CASE UNCHANGED vars
  <2>1. main' = main /\ database' = database
    BY <1>7 DEF vars, authored, deployed
  <2> QED
    BY <1>1, <1>2, <2>1 DEF DeploymentInv
<1> QED
  BY <1>3, <1>4, <1>5, <1>6, <1>7 DEF Next

-----------------------------------------------------------------------------
(* From the invariant to the promise. *)

(* A database that has a row for every migration of main is at its end.     *)
LEMMA NothingPendingMeansTheEnd ==
  ASSUME HistoryInv, Pending = {}, NEW k \in 0 .. Len(main.journal),
         AppliedUpTo(main.journal, database.ledger, k)
  PROVE  k = Len(main.journal)
<1>1. PICK j : j = main.journal
  OBVIOUS
<1>2. /\ Ordered(j) /\ Len(j) \in Nat /\ DOMAIN j = 1 .. Len(j)
      /\ \A i \in 1 .. Len(j) : j[i].when \in Nat \ {0}
  BY <1>1, JournalShape DEF HistoryInv, Typed
<1> SUFFICES ASSUME k < Len(j) PROVE FALSE
  BY <1>1, <1>2
<1>3. k + 1 \in 1 .. Len(j)
  BY <1>1, <1>2
<1>4. j[k + 1] \in Range(main.journal)
  BY <1>1, <1>2, <1>3 DEF Range
<1>5. \A row \in BagToSet(database.ledger) : \E i \in 1 .. k : row.when = j[i].when
  BY <1>1 DEF AppliedUpTo, Row
<1>6. \A i \in 1 .. k : j[i].when # j[k + 1].when
  <2> SUFFICES ASSUME NEW i \in 1 .. k PROVE j[i].when # j[k + 1].when
    OBVIOUS
  <2>1. i \in 1 .. Len(j) /\ i < k + 1
    BY <1>1, <1>2
  <2>2. j[i].when < j[k + 1].when
    BY <1>2, <1>3, <2>1 DEF Ordered
  <2> QED
    BY <1>2, <1>3, <2>1, <2>2
<1>7. \A row \in BagToSet(database.ledger) : row.when # j[k + 1].when
  BY <1>5, <1>6
<1>8. j[k + 1] \in Pending
  BY <1>4, <1>7 DEF Pending
<1> QED
  BY <1>8

LEMMA KeptTables ==
  ASSUME NEW j, IsJournal(j), NEW t,
         \A i \in DOMAIN j : Stmt("drop table", t) \notin Range(j[i].sql)
  PROVE  Written(j, DOMAIN j) \in Seq(Kept(t))
<1>1. DOMAIN j = 1 .. Len(j) /\ \A i \in 1 .. Len(j) : j[i].sql \in Seq(Statements)
  BY JournalShape DEF IsMigration
<1>2. PICK files \in Seq(Seq(Statements)) : files = Files(j, DOMAIN j)
  BY FilesAre
<1>3. Len(files) = Len(j) /\ Written(j, DOMAIN j) = FlattenSeq(files)
  BY <1>2, FilesAre
<1>4. PICK T : T = Seq(Kept(t))
  OBVIOUS
<1>5. ASSUME NEW i \in 1 .. Len(j)
      PROVE  files[i] \in T
  <2>1. PICK file \in Seq(Statements) : file = j[i].sql
    BY <1>1
  <2>2. DOMAIN file = 1 .. Len(file) /\ \A n \in 1 .. Len(file) : file[n] \in Statements
    BY LenProperties, ElementOfSeq
  <2>3. PICK dropped : dropped = Stmt("drop table", t)
    OBVIOUS
  <2>4. dropped \notin Range(file)
    BY <1>1, <2>1, <2>3
  <2>5. \A n \in 1 .. Len(file) : file[n] \in Kept(t)
    BY <2>2, <2>3, <2>4 DEF Kept, Range
  <2>6. file \in Seq(Kept(t))
    BY <2>5, SeqOfAll
  <2>7. files[i] = file
    BY <1>1, <1>2, <2>1 DEF Files
  <2> QED
    BY <1>4, <2>6, <2>7
<1>6. files \in Seq(T)
  BY <1>3, <1>5, SeqOfAll
<1>7. FlattenSeq(files) \in Seq(Kept(t))
  BY <1>4, <1>6, FlattenSeqType
<1> QED
  BY <1>3, <1>7

LEMMA DeployedMeansDeclared == DeploymentInv => DeployedIsDeclared
<1> SUFFICES ASSUME DeploymentInv, Pending = {}, Duplicated = {},
                    NEW t \in Tables, ~Dropped(t),
                    main.schema[t] \in {"tenant", "nonTenant"}
             PROVE  /\ main.schema[t] = "tenant" =>
                         database.tables[t] =
                           [Plain EXCEPT !.enabled = TRUE, !.forced = TRUE,
                                         !.policies = {Canonical}]
                    /\ main.schema[t] = "nonTenant" =>
                         database.tables[t] \in {NoTable, Plain}
  BY DEF DeployedIsDeclared, Accepted
<1>0. /\ Plain = [exists |-> TRUE, enabled |-> FALSE, forced |-> FALSE, policies |-> {}]
      /\ [Plain EXCEPT !.enabled = TRUE, !.forced = TRUE, !.policies = {Canonical}]
           = [exists |-> TRUE, enabled |-> TRUE, forced |-> TRUE, policies |-> {Canonical}]
  <2>1. PICK none, own : none = {} /\ own = {Canonical}
    OBVIOUS
  <2>2. PICK n : n = NoTable
    OBVIOUS
  <2>3. n = [exists |-> FALSE, enabled |-> FALSE, forced |-> FALSE, policies |-> none]
    BY <2>1, <2>2 DEF NoTable
  <2>4. Plain = [exists |-> TRUE, enabled |-> FALSE, forced |-> FALSE, policies |-> none]
    <3>1. PICK m : m = [n EXCEPT !.exists = TRUE]
      OBVIOUS
    <3>2. m = [exists |-> TRUE, enabled |-> FALSE, forced |-> FALSE, policies |-> none]
      BY <2>3, <3>1
    <3> QED
      BY <2>2, <3>1, <3>2 DEF Plain
  <2>5. PICK p : p = [Plain EXCEPT !.enabled = TRUE]
    OBVIOUS
  <2>6. p = [exists |-> TRUE, enabled |-> TRUE, forced |-> FALSE, policies |-> none]
    BY <2>4, <2>5
  <2>7. PICK q : q = [p EXCEPT !.forced = TRUE]
    OBVIOUS
  <2>8. q = [exists |-> TRUE, enabled |-> TRUE, forced |-> TRUE, policies |-> none]
    BY <2>6, <2>7
  <2>9. [q EXCEPT !.policies = own]
          = [exists |-> TRUE, enabled |-> TRUE, forced |-> TRUE, policies |-> own]
    <3>1. PICK m : m = [q EXCEPT !.policies = own]
      OBVIOUS
    <3>2. m = [exists |-> TRUE, enabled |-> TRUE, forced |-> TRUE, policies |-> own]
      BY <2>8, <3>1
    <3> QED
      BY <3>1, <3>2
  <2> QED
    BY <2>1, <2>4, <2>5, <2>7, <2>9
<1>1. PICK j : j = main.journal
  OBVIOUS
<1>2. IsJournal(j)
  BY <1>1 DEF DeploymentInv, HistoryInv, Typed
<1>3. /\ GrammarHolds(j) /\ ForceHolds(main.schema, j) /\ BoundaryHolds(main.schema, j)
  BY <1>1 DEF DeploymentInv, Approved
<1>4. LeftBy(j, Len(j)) = [tables |-> database.tables, ok |-> TRUE]
  BY <1>1, NothingPendingMeansTheEnd DEF DeploymentInv, Deployed
<1>5. PICK w : w = Written(j, DOMAIN j)
  OBVIOUS
<1>6. After(RunOp, RunStates, Fresh, w) = [tables |-> database.tables, ok |-> TRUE]
  <2>1. Len(j) \in 0 .. Len(j)
    BY <1>2, JournalShape
  <2> QED
    BY <1>2, <1>4, <1>5, <2>1, LeftByIs, WholeResult
<1>7. w \in Seq(Kept(t))
  BY <1>1, <1>2, <1>5, KeptTables DEF Dropped
<1>8. PICK table, walk, forced :
        /\ table = database.tables[t]
        /\ walk = EffectiveBoundary(j, t)
        /\ forced = ForceState(j, t)
  OBVIOUS
<1>9. Agrees(table, walk, forced)
  <2>1. walk = After(BoundaryOp(t), Walks, NoBoundary, w)
    BY <1>2, <1>5, <1>8, BoundaryIs
  <2>2. forced = After(ForceOp(t), BOOLEAN, FALSE, w)
    BY <1>2, <1>3, <1>5, <1>8, ForceStateIs
  <2>3. After(RunOp, RunStates, Fresh, w).ok = TRUE
    BY <1>6
  <2>4. Agrees(After(RunOp, RunStates, Fresh, w).tables[t],
               After(BoundaryOp(t), Walks, NoBoundary, w),
               After(ForceOp(t), BOOLEAN, FALSE, w))
    BY <1>7, <2>3, WalksAgree
  <2> QED
    <3>1. PICK end : end = After(RunOp, RunStates, Fresh, w)
      OBVIOUS
    <3>2. end.tables[t] = table
      BY <1>6, <1>8, <3>1
    <3> QED
      BY <2>1, <2>2, <2>4, <3>1, <3>2
<1>10. table \in TableStates
  <2>1. After(RunOp, RunStates, Fresh, w) \in RunStates
    BY <1>2, <1>5, WholeResult, RunOpIs, Starts, AfterType
  <2> QED
    <3>1. PICK end \in RunStates : end = After(RunOp, RunStates, Fresh, w)
      BY <2>1
    <3>2. end.tables[t] = table
      BY <1>6, <1>8, <3>1
    <3> QED
      BY <3>2 DEF RunStates
<1>11. forced = (main.schema[t] = "tenant")
  BY <1>3, <1>8 DEF ForceHolds, Misforced
<1>12. /\ main.schema[t] = "tenant" => walk.policies = {Canonical} /\ walk.enabled
       /\ main.schema[t] = "nonTenant" => walk.policies = {} /\ ~walk.enabled
  BY <1>3, <1>8 DEF BoundaryHolds
<1>13. CASE main.schema[t] = "tenant"
  <2>1. /\ table.policies = {Canonical} /\ table.enabled = TRUE /\ table.forced = TRUE
        /\ table.exists = TRUE
    BY <1>9, <1>10, <1>11, <1>12, <1>13 DEF Agrees, TableStates, NoTable
  <2>2. table = [exists |-> TRUE, enabled |-> TRUE, forced |-> TRUE, policies |-> {Canonical}]
    BY <1>10, <2>1 DEF TableStates
  <2> QED
    BY <1>0, <1>8, <1>13, <2>2
<1>14. CASE main.schema[t] = "nonTenant"
  <2>1. table.policies = {} /\ table.enabled = FALSE /\ table.forced = FALSE
    BY <1>9, <1>10, <1>11, <1>12, <1>14 DEF Agrees, TableStates
  <2>2. table = [exists |-> table.exists, enabled |-> FALSE, forced |-> FALSE, policies |-> {}]
    BY <1>10, <2>1 DEF TableStates
  <2>3. table \in {NoTable, Plain}
    <3>1. CASE table.exists = TRUE
      BY <1>0, <2>2, <3>1
    <3>2. CASE table.exists = FALSE
      BY <2>2, <3>2 DEF NoTable
    <3> QED
      BY <1>10, <3>1, <3>2 DEF TableStates
  <2> QED
    BY <1>8, <1>14, <2>3
<1> QED
  BY <1>13, <1>14

-----------------------------------------------------------------------------
(* The theorems about what is deployed. *)

(* The inductive invariant of what is deployed: main is approved history, and *)
(* a database without a duplicated row is a fresh one after the migrations of *)
(* its ledger, run in one go, whenever and in however many runs of migrate   *)
(* they came (migrate.ts).                                                  *)
THEOREM DeploymentIsSound == Spec => []DeploymentInv
<1> QED
  BY DeploymentStarts, DeploymentStep, PTL DEF Spec

(* The boundary that was verified in the text of the migrations (force.ts,   *)
(* verify-migrations.mjs) is the boundary Postgres has on every table that   *)
(* was not dropped, once the boot accepts the ledger (checks.ts).            *)
THEOREM WhatIsDeployedIsDeclared == Spec => []DeployedIsDeclared
<1> QED
  BY DeploymentIsSound, DeployedMeansDeclared, PTL
=============================================================================
