---------------------------- MODULE InputProofs -----------------------------
(***************************************************************************)
(* Theorems about the requests to cuad's virtual pointer and keyboard, for *)
(* any keys, requests and numbers of clients, connections and failures:    *)
(* what is down, that it is what a back end promises (HeldKeys), and what  *)
(* clients are told.                                                       *)
(***************************************************************************)
EXTENDS Input, FiniteSetTheorems, SequenceTheorems, TLAPS

(***************************************************************************)
(* Induction over the natural numbers, for a set instead of a predicate,   *)
(* from the well-foundedness of the finite sets 0 .. n - 1.                *)
(***************************************************************************)

\* A set of natural numbers has a smallest.
LEMMA SmallestOf ==
  ASSUME NEW T \in SUBSET Nat, T # {}
  PROVE  \E n \in T : \A m \in T : n <= m
<1> DEFINE U == {0 .. n - 1 : n \in T}
<1>1. U \subseteq FiniteSubsetsOf(Nat) /\ U # {}
  <2>1. \A n \in T : IsFiniteSet(0 .. n - 1) /\ 0 .. n - 1 \in SUBSET Nat
    BY FS_Interval
  <2> QED
    BY <2>1 DEF FiniteSubsetsOf
<1>2. PICK x \in U : \A y \in U : ~(<<y, x>> \in StrictSubsetOrdering(Nat))
  BY <1>1, FS_StrictSubsetOrderingWellFounded, WFMin
<1>3. PICK n \in T : x = 0 .. n - 1
  OBVIOUS
<1>4. SUFFICES ASSUME NEW m \in T, m < n PROVE FALSE
  OBVIOUS
<1>5. 0 .. m - 1 \subseteq 0 .. n - 1 /\ m \in 0 .. n - 1 /\ m \notin 0 .. m - 1
  BY <1>4
<1>6. <<0 .. m - 1, x>> \in StrictSubsetOrdering(Nat)
  BY <1>3, <1>5 DEF StrictSubsetOrdering
<1> QED
  BY <1>2, <1>6

LEMMA Induction ==
  ASSUME NEW T, 0 \in T, \A n \in Nat : n \in T => n + 1 \in T
  PROVE  Nat \subseteq T
<1> DEFINE Out == Nat \ T
<1> SUFFICES ASSUME Out # {} PROVE FALSE
  OBVIOUS
<1>1. PICK n \in Out : \A m \in Out : n <= m
  <2>1. Out \in SUBSET Nat
    OBVIOUS
  <2> QED
    BY <2>1, SmallestOf
<1>2. n # 0 /\ n - 1 \in Nat /\ n - 1 \notin Out
  BY <1>1
<1> QED
  BY <1>1, <1>2

(***************************************************************************)
(* What FlattenSeq computes.                                               *)
(***************************************************************************)

\* The function that FlattenSeq chooses exists, for however many sequences.
LEMMA FlattenExists ==
  ASSUME NEW seqs, NEW n \in Nat
  PROVE  \E f : f = [i \in 1 .. n |-> IF i = 1 THEN seqs[i] ELSE f[i-1] \o seqs[i]]
<1> DEFINE Def(f, k) == f = [i \in 1 .. k |-> IF i = 1 THEN seqs[i] ELSE f[i-1] \o seqs[i]]
           T == {k \in Nat : \E f : Def(f, k)}
<1>1. 0 \in T
  <2> DEFINE g == [i \in 1 .. 0 |-> 0]
  <2>1. Def(g, 0)
    OBVIOUS
  <2> QED
    BY <2>1
<1>2. ASSUME NEW k \in Nat, k \in T PROVE k + 1 \in T
  <2>1. PICK f : Def(f, k)
    BY <1>2
  <2> DEFINE g == [i \in 1 .. k + 1 |-> IF i = 1 THEN seqs[1] ELSE f[i-1] \o seqs[i]]
  <2>2. \A i \in 1 .. k : f[i] = IF i = 1 THEN seqs[i] ELSE f[i-1] \o seqs[i]
    BY <2>1
  <2>3. \A i \in 1 .. k : g[i] = f[i]
    <3> SUFFICES ASSUME NEW i \in 1 .. k PROVE g[i] = f[i]
      OBVIOUS
    <3> QED
      BY <2>2
  <2>4. \A i \in 1 .. k + 1 : g[i] = IF i = 1 THEN seqs[i] ELSE g[i-1] \o seqs[i]
    <3> SUFFICES ASSUME NEW i \in 1 .. k + 1
                 PROVE  g[i] = IF i = 1 THEN seqs[i] ELSE g[i-1] \o seqs[i]
      OBVIOUS
    <3>1. CASE i = 1
      BY <3>1
    <3>2. CASE i # 1
      <4>1. i - 1 \in 1 .. k
        BY <3>2
      <4>2. g[i-1] = f[i-1]
        BY <4>1, <2>3
      <4>3. g[i] = f[i-1] \o seqs[i]
        BY <3>2
      <4> QED
        BY <3>2, <4>2, <4>3
    <3> QED
      BY <3>1, <3>2
  <2>5. g = [i \in 1 .. k + 1 |-> g[i]]
    OBVIOUS
  <2>6. Def(g, k + 1)
    <3> HIDE DEF g
    <3> QED
      BY <2>4, <2>5
  <2>7. \E h : Def(h, k + 1)
    <3> HIDE DEF g, Def
    <3> QED
      BY <2>6
  <2> QED
    <3> HIDE DEF Def
    <3> QED
      BY <2>7
<1>3. n \in T
  <2> HIDE DEF T
  <2> QED
    BY <1>1, <1>2, Induction
<1> QED
  BY <1>3

\* f[k] is the first k of them together.
Joins(f, seqs, n) ==
  f[1] = seqs[1] /\ \A k \in 1 .. n - 1 : f[k+1] = f[k] \o seqs[k+1]

LEMMA FlattenDef ==
  ASSUME NEW n \in Nat \ {0}, NEW seqs, Len(seqs) = n
  PROVE  \E f : FlattenSeq(seqs) = f[n] /\ Joins(f, seqs, n)
<1> DEFINE D(f) == f = [i \in 1 .. n |-> IF i = 1 THEN seqs[i] ELSE f[i-1] \o seqs[i]]
<1>1. \E f : D(f)
  BY FlattenExists
<1>2. PICK g : g = CHOOSE f : D(f)
  OBVIOUS
<1>3. D(g)
  BY <1>1, <1>2
<1>4. FlattenSeq(seqs) = g[n]
  BY <1>2 DEF FlattenSeq
<1>5. \A i \in 1 .. n : g[i] = IF i = 1 THEN seqs[i] ELSE g[i-1] \o seqs[i]
  BY <1>3
<1>6. \A k \in 1 .. n - 1 : g[k+1] = g[k] \o seqs[k+1]
  <2> SUFFICES ASSUME NEW k \in 1 .. n - 1 PROVE g[k+1] = g[k] \o seqs[k+1]
    OBVIOUS
  <2>1. k + 1 \in 1 .. n /\ k + 1 # 1 /\ (k + 1) - 1 = k
    OBVIOUS
  <2>2. g[k+1] = g[(k+1)-1] \o seqs[k+1]
    BY <1>5, <2>1
  <2> QED
    BY <2>1, <2>2
<1>7. g[1] = seqs[1]
  BY <1>5
<1>8. Joins(g, seqs, n)
  BY <1>6, <1>7, Zenon DEF Joins
<1> QED
  BY <1>4, <1>8

\* What holds of the empty sequence and of two together holds of all together.
LEMMA FlattenIn ==
  ASSUME NEW C, <<>> \in C, \A s, t \in C : s \o t \in C,
         NEW n \in Nat, NEW seqs \in [1 .. n -> C]
  PROVE  FlattenSeq(seqs) \in C
<1>1. seqs \in Seq(C) /\ Len(seqs) = n
  OBVIOUS
<1>2. CASE n = 0
  <2>1. seqs = <<>>
    BY <1>1, <1>2
  <2> QED
    BY <1>2, <2>1 DEF FlattenSeq
<1>3. CASE n # 0
  <2>1. PICK f : FlattenSeq(seqs) = f[n] /\ Joins(f, seqs, n)
    <3>1. n \in Nat \ {0}
      BY <1>3
    <3> QED
      BY <1>1, <3>1, FlattenDef
  <2> DEFINE T == {k \in Nat : k \in 1 .. n => f[k] \in C}
  <2>3. 0 \in T
    OBVIOUS
  <2>4. ASSUME NEW k \in Nat, k \in T PROVE k + 1 \in T
    <3> SUFFICES ASSUME k + 1 \in 1 .. n PROVE f[k+1] \in C
      OBVIOUS
    <3>1. seqs[k+1] \in C
      OBVIOUS
    <3>2. CASE k = 0
      BY <2>1, <3>1, <3>2 DEF Joins
    <3>3. CASE k # 0
      <4>1. f[k] \in C
        BY <2>4, <3>3
      <4>2. f[k+1] = f[k] \o seqs[k+1]
        <5>1. k \in 1 .. n - 1
          BY <3>3
        <5> QED
          BY <2>1, <5>1, Zenon DEF Joins
      <4> QED
        BY <3>1, <4>1, <4>2
    <3> QED
      BY <3>2, <3>3
  <2>5. n \in T
    <3> HIDE DEF T
    <3> QED
      BY <2>3, <2>4, Induction
  <2> QED
    BY <1>3, <2>1, <2>5
<1> QED
  BY <1>2, <1>3

\* All elements are in the result, and none that is of no sequence.
AllOf(seqs, n, u) ==
  \A i \in 1 .. n : \A j \in DOMAIN seqs[i] : \E m \in DOMAIN u : u[m] = seqs[i][j]

LEMMA FlattenElements ==
  ASSUME NEW S, NEW n \in Nat, NEW seqs \in [1 .. n -> Seq(S)]
  PROVE  FlattenSeq(seqs) \in Seq(S) /\ AllOf(seqs, n, FlattenSeq(seqs))
<1>1. FlattenSeq(seqs) \in Seq(S)
  <2>1. <<>> \in Seq(S) /\ \A s, t \in Seq(S) : s \o t \in Seq(S)
    OBVIOUS
  <2> QED
    BY <2>1, FlattenIn
<1>2. seqs \in Seq(Seq(S)) /\ Len(seqs) = n
  OBVIOUS
<1>3. ASSUME NEW a \in 1 .. n, NEW j \in DOMAIN seqs[a]
      PROVE  \E m \in DOMAIN FlattenSeq(seqs) : FlattenSeq(seqs)[m] = seqs[a][j]
  <2>1. PICK f : FlattenSeq(seqs) = f[n] /\ Joins(f, seqs, n)
    <3>1. n \in Nat \ {0}
      OBVIOUS
    <3> QED
      BY <1>2, <3>1, FlattenDef
  <2> DEFINE Has(s) == \E m \in DOMAIN s : s[m] = seqs[a][j]
             T == {k \in Nat : k \in 1 .. n => f[k] \in Seq(S) /\ (a <= k => Has(f[k]))}
  <2>3. 0 \in T
    OBVIOUS
  <2>4. \A s, t \in Seq(S) : Has(s) \/ Has(t) => Has(s \o t)
    <3> SUFFICES ASSUME NEW s \in Seq(S), NEW t \in Seq(S), Has(s) \/ Has(t)
                 PROVE  Has(s \o t)
      OBVIOUS
    <3>1. CASE Has(s)
      <4>1. PICK m \in DOMAIN s : s[m] = seqs[a][j]
        BY <3>1
      <4>2. m \in DOMAIN (s \o t) /\ (s \o t)[m] = s[m]
        OBVIOUS
      <4> QED
        BY <4>1, <4>2
    <3>2. CASE Has(t)
      <4>1. PICK m \in DOMAIN t : t[m] = seqs[a][j]
        BY <3>2
      <4>2. Len(s) + m \in DOMAIN (s \o t) /\ (s \o t)[Len(s) + m] = t[m]
        OBVIOUS
      <4> QED
        BY <4>1, <4>2
    <3> QED
      BY <3>1, <3>2
  <2>5. ASSUME NEW k \in Nat, k \in T PROVE k + 1 \in T
    <3> SUFFICES ASSUME k + 1 \in 1 .. n
                 PROVE  f[k+1] \in Seq(S) /\ (a <= k + 1 => Has(f[k+1]))
      OBVIOUS
    <3>1. seqs[k+1] \in Seq(S) /\ (a = k + 1 => Has(seqs[k+1]))
      OBVIOUS
    <3>2. CASE k = 0
      <4>1. f[k+1] = seqs[k+1] /\ (a <= k + 1 => a = k + 1)
        BY <2>1, <3>2 DEF Joins
      <4> HIDE DEF Has
      <4> QED
        BY <3>1, <4>1
    <3>3. CASE k # 0
      <4>1. f[k] \in Seq(S) /\ (a <= k => Has(f[k]))
        BY <2>5, <3>3
      <4>2. f[k+1] = f[k] \o seqs[k+1]
        <5>1. k \in 1 .. n - 1
          BY <3>3
        <5> QED
          BY <2>1, <5>1, Zenon DEF Joins
      <4>3. a <= k + 1 => a <= k \/ a = k + 1
        OBVIOUS
      <4> HIDE DEF Has
      <4> QED
        BY <2>4, <3>1, <4>1, <4>2, <4>3
    <3> QED
      BY <3>2, <3>3
  <2>6. n \in T
    <3> HIDE DEF T
    <3> QED
      BY <2>3, <2>5, Induction
  <2>7. n \in 1 .. n /\ a <= n
    OBVIOUS
  <2> QED
    BY <2>1, <2>6, <2>7
<1> QED
  BY <1>1, <1>3 DEF AllOf

\* Of single elements a sequence of those.
LEMMA FlattenSingles ==
  ASSUME NEW n \in Nat, NEW x
  PROVE  FlattenSeq([i \in 1 .. n |-> <<x>>]) = [i \in 1 .. n |-> x]
<1> DEFINE seqs == [i \in 1 .. n |-> <<x>>]
<1>1. seqs \in Seq({<<x>>}) /\ Len(seqs) = n /\ \A i \in 1 .. n : seqs[i] = <<x>>
  OBVIOUS
<1> HIDE DEF seqs
<1>2. CASE n = 0
  <2>1. seqs = <<>> /\ [i \in 1 .. n |-> x] = <<>>
    BY <1>1, <1>2
  <2> QED
    BY <1>2, <2>1 DEF FlattenSeq, seqs
<1>3. CASE n # 0
  <2>1. PICK f : FlattenSeq(seqs) = f[n] /\ Joins(f, seqs, n)
    <3>1. n \in Nat \ {0}
      BY <1>3
    <3> QED
      BY <1>1, <3>1, FlattenDef
  <2> DEFINE T == {k \in Nat : k \in 1 .. n => f[k] = [i \in 1 .. k |-> x]}
  <2>3. 0 \in T
    OBVIOUS
  <2>4. ASSUME NEW k \in Nat, k \in T PROVE k + 1 \in T
    <3> SUFFICES ASSUME k + 1 \in 1 .. n PROVE f[k+1] = [i \in 1 .. k + 1 |-> x]
      OBVIOUS
    <3>1. seqs[k+1] = <<x>>
      BY <1>1
    <3>2. CASE k = 0
      <4>1. f[k+1] = <<x>>
        BY <2>1, <3>1, <3>2 DEF Joins
      <4>2. <<x>> = [i \in 1 .. 1 |-> x]
        OBVIOUS
      <4> QED
        BY <3>2, <4>1, <4>2
    <3>3. CASE k # 0
      <4>1. f[k] = [i \in 1 .. k |-> x]
        BY <2>4, <3>3
      <4>2. f[k+1] = f[k] \o <<x>>
        <5>1. k \in 1 .. n - 1
          BY <3>3
        <5> QED
          BY <2>1, <3>1, <5>1, Zenon DEF Joins
      <4>3. [i \in 1 .. k |-> x] \o <<x>> = [i \in 1 .. k + 1 |-> x]
        OBVIOUS
      <4> QED
        BY <4>1, <4>2, <4>3
    <3> QED
      BY <3>2, <3>3
  <2>5. n \in T
    <3> HIDE DEF T
    <3> QED
      BY <2>3, <2>4, Induction
  <2> QED
    <3>1. n \in 1 .. n
      BY <1>3
    <3> QED
      BY <2>1, <2>5, <3>1 DEF seqs
<1> QED
  BY <1>2, <1>3 DEF seqs

-----------------------------------------------------------------------------
(* The scripts of requests *)

Moving == {"press", "release", "move", "refuse", "answer"}
Staying == Moving \cup {"wait", "sync", "replace"}

\* Scripts of such steps that close what they open.
Scripts(D) ==
  {s \in Seq(Steps) :
     /\ \A i \in DOMAIN s : s[i].does \in D /\ (s[i].due => s[i].does = "release")
     /\ Closes(s)}

\* The steps by their names.
LEMMA NamedSteps ==
  /\ \A k \in Codes :
       /\ Press(k) \in Steps /\ Press(k).key = k /\ Press(k).does = "press" /\ ~Press(k).due
       /\ Release(k) \in Steps /\ Release(k).key = k /\ Release(k).does = "release"
       /\ ~Release(k).due
       /\ DueRelease(k) \in Steps /\ DueRelease(k).key = k
       /\ DueRelease(k).does = "release" /\ DueRelease(k).due
       /\ QuietRelease(k) \in Steps /\ QuietRelease(k).key = k
       /\ QuietRelease(k).does = "release" /\ QuietRelease(k).due
  /\ Motion \in Steps /\ Motion.does = "move" /\ ~Motion.due
  /\ Wait \in Steps /\ Wait.does = "wait" /\ ~Wait.due
  /\ Refusal \in Steps /\ Refusal.does = "refuse" /\ ~Refusal.due
  /\ Answer \in Steps /\ Answer.does = "answer" /\ ~Answer.due
  /\ Sync \in Steps /\ Sync.does = "sync" /\ ~Sync.due
<1>1. ASSUME NEW k \in Codes
      PROVE  /\ Press(k) \in Steps /\ Press(k).key = k /\ Press(k).does = "press" /\ ~Press(k).due
             /\ Release(k) \in Steps /\ Release(k).key = k /\ Release(k).does = "release"
             /\ ~Release(k).due
             /\ DueRelease(k) \in Steps /\ DueRelease(k).key = k
             /\ DueRelease(k).does = "release" /\ DueRelease(k).due
             /\ QuietRelease(k) \in Steps /\ QuietRelease(k).key = k
             /\ QuietRelease(k).does = "release" /\ QuietRelease(k).due
  <2>1. k # None
    BY InputAssumption
  <2> QED
    BY <2>1 DEF Press, Release, DueRelease, QuietRelease, Step, Steps
<1>2. /\ Motion \in Steps /\ Motion.does = "move" /\ ~Motion.due
      /\ Wait \in Steps /\ Wait.does = "wait" /\ ~Wait.due
      /\ Refusal \in Steps /\ Refusal.does = "refuse" /\ ~Refusal.due
      /\ Answer \in Steps /\ Answer.does = "answer" /\ ~Answer.due
      /\ Sync \in Steps /\ Sync.does = "sync" /\ ~Sync.due
  BY DEF Motion, Wait, Refusal, Answer, Sync, Step, Steps
<1> QED
  BY <1>1, <1>2

LEMMA ScriptsConcat ==
  ASSUME NEW D
  PROVE  <<>> \in Scripts(D) /\ \A s, t \in Scripts(D) : s \o t \in Scripts(D)
<1>1. <<>> \in Scripts(D)
  BY DEF Scripts, Closes
<1>2. ASSUME NEW s \in Scripts(D), NEW t \in Scripts(D)
      PROVE  s \o t \in Scripts(D)
  <2> DEFINE u == s \o t
  <2>1. s \in Seq(Steps) /\ t \in Seq(Steps) /\ u \in Seq(Steps)
    BY DEF Scripts
  <2>2. /\ \A i \in DOMAIN s : i \in DOMAIN u /\ u[i] = s[i]
        /\ \A i \in DOMAIN t : i + Len(s) \in DOMAIN u /\ u[i + Len(s)] = t[i]
        /\ \A i \in DOMAIN u : i \in DOMAIN s \/ (i > Len(s) /\ i - Len(s) \in DOMAIN t)
    BY <2>1
  <2> HIDE DEF u
  <2>3. \A i \in DOMAIN u : u[i].does \in D /\ (u[i].due => u[i].does = "release")
    <3> SUFFICES ASSUME NEW i \in DOMAIN u
                 PROVE  u[i].does \in D /\ (u[i].due => u[i].does = "release")
      OBVIOUS
    <3>1. CASE i \in DOMAIN s
      BY <3>1, <2>2 DEF Scripts
    <3>2. CASE i > Len(s) /\ i - Len(s) \in DOMAIN t
      <4>1. u[i] = t[i - Len(s)]
        BY <3>2, <2>1, <2>2
      <4> QED
        BY <3>2, <4>1 DEF Scripts
    <3> QED
      BY <3>1, <3>2, <2>2
  <2>4. Closes(u)
    <3> SUFFICES ASSUME NEW i \in DOMAIN u, u[i].does = "press"
                 PROVE  \E j \in DOMAIN u : j > i /\ LetsGo(u[j], u[i].key)
                                            /\ (j = i + 1 \/ u[j].due)
      BY DEF Closes
    <3>1. CASE i \in DOMAIN s
      <4>1. PICK j \in DOMAIN s : j > i /\ LetsGo(s[j], s[i].key) /\ (j = i + 1 \/ s[j].due)
        BY <3>1, <2>2 DEF Scripts, Closes
      <4> QED
        BY <3>1, <4>1, <2>2
    <3>2. CASE i > Len(s) /\ i - Len(s) \in DOMAIN t
      <4>1. u[i] = t[i - Len(s)]
        BY <3>2, <2>1, <2>2
      <4>2. PICK j \in DOMAIN t : /\ j > i - Len(s) /\ LetsGo(t[j], t[i - Len(s)].key)
                                  /\ (j = i - Len(s) + 1 \/ t[j].due)
        BY <3>2, <4>1 DEF Scripts, Closes
      <4>3. j + Len(s) > i /\ (j = i - Len(s) + 1 => j + Len(s) = i + 1)
        <5>1. i \in Nat /\ j \in Nat /\ Len(s) \in Nat
          BY <2>1
        <5> QED
          BY <4>2, <5>1
      <4> QED
        BY <4>1, <4>2, <4>3, <2>2
    <3> QED
      BY <3>1, <3>2, <2>2
  <2> QED
    BY <2>1, <2>3, <2>4 DEF Scripts, u
<1> QED
  BY <1>1, <1>2

\* A script is repeated.
LEMMA ScriptsTimes ==
  ASSUME NEW D, NEW n \in Nat, NEW s \in Scripts(D)
  PROVE  Times(n, s) \in Scripts(D)
<1>1. [i \in 1 .. n |-> s] \in [1 .. n -> Scripts(D)]
  OBVIOUS
<1> QED
  BY <1>1, FlattenIn, ScriptsConcat DEF Times

\* Scripts of a few steps.
LEMMA ScriptsShort ==
  ASSUME NEW D, Moving \subseteq D
  PROVE  /\ <<Motion>> \in Scripts(D) /\ <<Refusal>> \in Scripts(D)
         /\ <<Answer>> \in Scripts(D)
         /\ "wait" \in D => <<Wait>> \in Scripts(D)
         /\ "sync" \in D => <<Sync>> \in Scripts(D)
         /\ \A k \in Codes :
              /\ <<Release(k)>> \in Scripts(D)
              /\ <<Press(k), Release(k)>> \in Scripts(D)
              /\ <<Motion, Press(k), Release(k)>> \in Scripts(D)
              /\ "wait" \in D => <<Wait, Press(k), Release(k)>> \in Scripts(D)
              /\ <<Motion, Press(k), Motion, DueRelease(k)>> \in Scripts(D)
         /\ \A k, c \in Codes :
              <<Press(k), Press(c), Release(c), QuietRelease(k)>> \in Scripts(D)
<1>1. /\ <<Motion>> \in Scripts(D) /\ <<Refusal>> \in Scripts(D) /\ <<Answer>> \in Scripts(D)
      /\ "wait" \in D => <<Wait>> \in Scripts(D)
      /\ "sync" \in D => <<Sync>> \in Scripts(D)
  <2>1. ASSUME NEW s \in {Motion, Refusal, Answer, Wait, Sync}, s.does \in D
        PROVE  <<s>> \in Scripts(D)
    <3>1. s \in Steps /\ s.does # "press" /\ ~s.due
      BY NamedSteps
    <3> QED
      BY <2>1, <3>1 DEF Scripts, Closes
  <2> QED
    BY <2>1, NamedSteps DEF Moving
<1>2. ASSUME NEW k \in Codes
      PROVE  /\ <<Release(k)>> \in Scripts(D)
             /\ <<Press(k), Release(k)>> \in Scripts(D)
             /\ <<Motion, Press(k), Release(k)>> \in Scripts(D)
             /\ "wait" \in D => <<Wait, Press(k), Release(k)>> \in Scripts(D)
  <2>1. <<Release(k)>> \in Scripts(D) /\ <<Press(k), Release(k)>> \in Scripts(D)
    BY NamedSteps DEF Scripts, Closes, Moving, LetsGo
  <2>2. ASSUME NEW s \in {Motion, Wait}, s.does \in D
        PROVE  <<s, Press(k), Release(k)>> \in Scripts(D)
    <3> DEFINE u == <<s, Press(k), Release(k)>>
    <3>1. u \in Seq(Steps) /\ DOMAIN u = 1 .. 3 /\ s.does # "press" /\ ~s.due
      BY <2>2, NamedSteps
    <3>2. Closes(u)
      BY <3>1, NamedSteps DEF Closes, LetsGo
    <3> QED
      BY <2>2, <3>1, <3>2, NamedSteps DEF Scripts, Moving
  <2> QED
    BY <2>1, <2>2, NamedSteps DEF Moving
<1>3. ASSUME NEW k \in Codes
      PROVE  <<Motion, Press(k), Motion, DueRelease(k)>> \in Scripts(D)
  <2> DEFINE s == <<Motion, Press(k), Motion, DueRelease(k)>>
  <2>1. s \in Seq(Steps) /\ DOMAIN s = 1 .. 4
    BY NamedSteps
  <2>2. Closes(s)
    BY NamedSteps DEF Closes, LetsGo
  <2> QED
    BY <2>1, <2>2, NamedSteps DEF Scripts, Moving
<1>4. ASSUME NEW k \in Codes, NEW c \in Codes
      PROVE  <<Press(k), Press(c), Release(c), QuietRelease(k)>> \in Scripts(D)
  <2> DEFINE s == <<Press(k), Press(c), Release(c), QuietRelease(k)>>
  <2>1. s \in Seq(Steps) /\ DOMAIN s = 1 .. 4
    BY NamedSteps
  <2>2. Closes(s)
    BY NamedSteps DEF Closes, LetsGo
  <2> QED
    BY <2>1, <2>2, NamedSteps DEF Scripts, Moving
<1> QED
  BY <1>1, <1>2, <1>3, <1>4

\* Two and three sequences one after the other.
LEMMA TwoParts ==
  ASSUME NEW S, NEW r \in Seq(S), NEW s \in Seq(S), NEW u, u = r \o s
  PROVE  /\ u \in Seq(S) /\ Len(u) = Len(r) + Len(s)
         /\ \A i \in 1 .. Len(r) : u[i] = r[i]
         /\ \A i \in 1 .. Len(s) : u[Len(r) + i] = s[i]
<1>1. u \in Seq(S) /\ Len(u) = Len(r) + Len(s)
  BY ConcatProperties
<1>2. ASSUME NEW i \in 1 .. Len(r) PROVE u[i] = r[i]
  BY <1>2
<1>3. ASSUME NEW i \in 1 .. Len(s) PROVE u[Len(r) + i] = s[i]
  BY <1>3
<1> QED
  BY <1>1, <1>2, <1>3

LEMMA ThreeParts ==
  ASSUME NEW S, NEW r \in Seq(S), NEW s \in Seq(S), NEW t \in Seq(S),
         NEW v, v = r \o s \o t
  PROVE  /\ v \in Seq(S) /\ Len(v) = Len(r) + Len(s) + Len(t)
         /\ \A i \in 1 .. Len(r) : v[i] = r[i]
         /\ \A i \in 1 .. Len(s) : v[Len(r) + i] = s[i]
         /\ \A i \in 1 .. Len(t) : v[Len(r) + Len(s) + i] = t[i]
<1>1. PICK u : u = r \o s
  OBVIOUS
<1>2. /\ u \in Seq(S) /\ Len(u) = Len(r) + Len(s) /\ Len(r) \in Nat /\ Len(s) \in Nat
      /\ \A i \in 1 .. Len(r) : u[i] = r[i]
      /\ \A i \in 1 .. Len(s) : u[Len(r) + i] = s[i]
  BY <1>1, TwoParts
<1>3. v = u \o t
  BY <1>1
<1>4. /\ v \in Seq(S) /\ Len(v) = Len(u) + Len(t)
      /\ \A i \in 1 .. Len(u) : v[i] = u[i]
      /\ \A i \in 1 .. Len(t) : v[Len(u) + i] = t[i]
  <2>1. u \in Seq(S)
    BY <1>2
  <2> QED
    BY <1>3, <2>1, TwoParts
<1>5. /\ \A i \in 1 .. Len(r) : i \in 1 .. Len(u)
      /\ \A i \in 1 .. Len(s) : Len(r) + i \in 1 .. Len(u)
  BY <1>2
<1> QED
  BY <1>2, <1>4, <1>5

\* What is pressed before a script, the script, and what is let go of after it.
Around(mods, body, u) ==
  LET n == Len(mods)
      m == Len(body)
  IN  /\ n \in Nat /\ m \in Nat /\ DOMAIN body = 1 .. m
      /\ \A i \in 1 .. n : mods[i] \in Codes
      /\ u \in Seq(Steps) /\ Len(u) = n + m + n
      /\ \A i \in 1 .. n : u[i] = Press(mods[i])
      /\ \A i \in 1 .. m : u[n + i] = body[i]
      /\ \A i \in 1 .. n : u[n + m + i] = QuietRelease(mods[n - i + 1])
      /\ \A i \in DOMAIN u :
           \/ i \in 1 .. n
           \/ i - n \in 1 .. m /\ u[i] = body[i - n]
           \/ \E j \in 1 .. n : i = n + m + j

LEMMA ModifierParts ==
  ASSUME NEW mods \in Seq(Key), NEW body \in Seq(Steps)
  PROVE  Around(mods, body, WithModifiers(mods, body))
<1> DEFINE u == WithModifiers(mods, body)
<1> DEFINE n == Len(mods)
           m == Len(body)
<1>1. n \in Nat /\ m \in Nat /\ DOMAIN mods = 1 .. n /\ DOMAIN body = 1 .. m
  OBVIOUS
<1>2. \A i \in 1 .. n : mods[i] \in Codes
  BY DEF Codes
<1> DEFINE front == [i \in 1 .. n |-> Press(mods[i])]
           back == [i \in 1 .. n |-> QuietRelease(mods[i])]
<1>3. front \in Seq(Steps) /\ Len(front) = n /\ \A i \in 1 .. n : front[i] = Press(mods[i])
  BY <1>1, <1>2, NamedSteps
<1>4. back \in Seq(Steps) /\ Len(back) = n /\ \A i \in 1 .. n : back[i] = QuietRelease(mods[i])
  BY <1>1, <1>2, NamedSteps
<1>5. u = front \o body \o Reverse(back)
  BY <1>1 DEF WithModifiers, u
<1> HIDE DEF front, back, n, m, u
<1>6. /\ Reverse(back) \in Seq(Steps) /\ Len(Reverse(back)) = n
      /\ \A i \in 1 .. n : Reverse(back)[i] = back[n - i + 1]
  <2>1. \A i \in 1 .. n : n - i + 1 \in 1 .. n
    BY <1>1
  <2>2. Reverse(back) = [i \in 1 .. n |-> back[(n - i) + 1]]
    BY <1>4 DEF Reverse
  <2>3. \A i \in 1 .. n : back[n - i + 1] \in Steps
    BY <1>4, <2>1
  <2> QED
    BY <1>1, <2>2, <2>3
<1>7. /\ u \in Seq(Steps) /\ Len(u) = n + m + n
      /\ \A i \in 1 .. n : u[i] = Press(mods[i])
      /\ \A i \in 1 .. m : u[n + i] = body[i]
      /\ \A i \in 1 .. n : u[n + m + i] = QuietRelease(mods[n - i + 1])
  <2>1. \A i \in 1 .. n : n - i + 1 \in 1 .. n
    BY <1>1
  <2> QED
    <3> DEFINE rev == Reverse(back)
    <3> HIDE DEF rev
    <3>1. /\ front \in Seq(Steps) /\ body \in Seq(Steps) /\ rev \in Seq(Steps)
          /\ u = front \o body \o rev
      BY <1>1, <1>3, <1>5, <1>6 DEF rev
    <3>2. /\ u \in Seq(Steps) /\ Len(u) = Len(front) + Len(body) + Len(rev)
          /\ \A i \in 1 .. Len(front) : u[i] = front[i]
          /\ \A i \in 1 .. Len(body) : u[Len(front) + i] = body[i]
          /\ \A i \in 1 .. Len(rev) : u[Len(front) + Len(body) + i] = rev[i]
      BY <3>1, ThreeParts
    <3>3. Len(front) = n /\ Len(body) = m /\ Len(rev) = n
      BY <1>1, <1>3, <1>6 DEF rev, n, m
    <3> QED
      <4>1. u \in Seq(Steps) /\ Len(u) = n + m + n /\ \A i \in 1 .. m : u[n + i] = body[i]
        BY <3>2, <3>3
      <4>2. \A i \in 1 .. n : u[i] = Press(mods[i])
        BY <1>3, <3>2, <3>3
      <4>3. \A i \in 1 .. n : u[n + m + i] = rev[i]
        BY <3>2, <3>3
      <4>4. \A i \in 1 .. n : rev[i] = QuietRelease(mods[n - i + 1])
        BY <1>4, <1>6, <2>1 DEF rev
      <4> QED
        BY <4>1, <4>2, <4>3, <4>4
<1>8. \A i \in DOMAIN u : \/ i \in 1 .. n
                          \/ i - n \in 1 .. m /\ u[i] = body[i - n]
                          \/ \E j \in 1 .. n : i = n + m + j
  <2> SUFFICES ASSUME NEW i \in DOMAIN u, i \notin 1 .. n, i - n \notin 1 .. m
               PROVE  \E j \in 1 .. n : i = n + m + j
    <3>1. ASSUME NEW i \in DOMAIN u, i - n \in 1 .. m
          PROVE  u[i] = body[i - n]
      <4>1. n + (i - n) = i
        BY <1>1, <1>7
      <4> QED
        BY <1>7, <3>1, <4>1
    <3> QED
      BY <3>1
  <2>1. i \in Nat /\ 1 <= i /\ i <= n + m + n
    BY <1>7
  <2>2. n \in Nat /\ m \in Nat
    BY <1>1
  <2>3. i > n /\ i > n + m
    BY <2>1, <2>2
  <2>4. i - n - m \in 1 .. n /\ i = n + m + (i - n - m)
    BY <2>1, <2>2, <2>3
  <2> QED
    BY <2>4
<1>9. Around(mods, body, u)
  BY <1>1, <1>2, <1>7, <1>8, Zenon DEF Around, n, m
<1> QED
  BY <1>9 DEF u

\* Such a script closes what it opens.
LEMMA ScriptsWithModifiers ==
  ASSUME NEW D, Moving \subseteq D, NEW mods \in Seq(Key), NEW body \in Scripts(D)
  PROVE  WithModifiers(mods, body) \in Scripts(D)
<1> DEFINE n == Len(mods)
           m == Len(body)
           u == WithModifiers(mods, body)
<1>1. body \in Seq(Steps)
  BY DEF Scripts
<1> HIDE DEF u
<1>7. /\ n \in Nat /\ m \in Nat /\ DOMAIN body = 1 .. m
      /\ \A i \in 1 .. n : mods[i] \in Codes
      /\ u \in Seq(Steps) /\ Len(u) = n + m + n
      /\ \A i \in 1 .. n : u[i] = Press(mods[i])
      /\ \A i \in 1 .. m : u[n + i] = body[i]
      /\ \A i \in 1 .. n : u[n + m + i] = QuietRelease(mods[n - i + 1])
      /\ \A i \in DOMAIN u : \/ i \in 1 .. n
                             \/ i - n \in 1 .. m /\ u[i] = body[i - n]
                             \/ \E j \in 1 .. n : i = n + m + j
  <2>1. Around(mods, body, u)
    BY <1>1, ModifierParts DEF u
  <2> QED
    BY <2>1, Zenon DEF Around
<1> HIDE DEF n, m
<1>2. \A i \in 1 .. n : mods[i] \in Codes
  BY <1>7
<1>9. \A i \in 1 .. n : n - i + 1 \in 1 .. n
  BY <1>7
<1>10. \A i \in DOMAIN u : u[i].does \in D /\ (u[i].due => u[i].does = "release")
  <2> SUFFICES ASSUME NEW i \in DOMAIN u
               PROVE  u[i].does \in D /\ (u[i].due => u[i].does = "release")
    OBVIOUS
  <2>1. CASE i \in 1 .. n
    <3>1. u[i] = Press(mods[i]) /\ mods[i] \in Codes
      BY <1>7, <2>1
    <3> QED
      BY <3>1, NamedSteps DEF Moving
  <2>2. CASE i - n \in 1 .. m /\ u[i] = body[i - n]
    BY <2>2, <1>7 DEF Scripts
  <2>3. CASE \E j \in 1 .. n : i = n + m + j
    <3>1. PICK j \in 1 .. n : i = n + m + j
      BY <2>3
    <3>2. u[i] = QuietRelease(mods[n - j + 1]) /\ mods[n - j + 1] \in Codes
      BY <1>2, <1>7, <1>9, <3>1
    <3> QED
      BY <3>2, NamedSteps DEF Moving
  <2> QED
    BY <1>7, <2>1, <2>2, <2>3
<1>11. Closes(u)
  <2> SUFFICES ASSUME NEW i \in DOMAIN u, u[i].does = "press"
               PROVE  \E j \in DOMAIN u : j > i /\ LetsGo(u[j], u[i].key)
                                          /\ (j = i + 1 \/ u[j].due)
    BY DEF Closes
  <2>1. CASE i \in 1 .. n
    <3> DEFINE j == n + m + (n - i + 1)
    <3>1. n - (n - i + 1) + 1 = i /\ n - i + 1 \in 1 .. n
      <4>1. n \in Nat /\ i \in 1 .. n
        BY <1>7, <2>1
      <4> QED
        BY <4>1
    <3>2. u[j] = QuietRelease(mods[i])
      BY <1>7, <3>1
    <3>3. j \in DOMAIN u /\ j > i
      BY <1>7, <2>1, <3>1
    <3>4. u[i] = Press(mods[i]) /\ mods[i] \in Codes
      BY <1>2, <1>7, <2>1
    <3> HIDE DEF j
    <3> QED
      BY <3>2, <3>3, <3>4, NamedSteps DEF LetsGo
  <2>2. CASE i - n \in 1 .. m /\ u[i] = body[i - n]
    <3>1. PICK j \in DOMAIN body :
            /\ j > i - n /\ LetsGo(body[j], body[i - n].key)
            /\ (j = i - n + 1 \/ body[j].due)
      BY <2>2, <1>7 DEF Scripts, Closes
    <3>2. j \in 1 .. m
      BY <1>7
    <3>3. n + j \in DOMAIN u /\ n + j > i /\ u[n + j] = body[j]
          /\ (j = i - n + 1 => n + j = i + 1)
      <4>1. i \in Int /\ j \in Int
        BY <1>7, <3>2
      <4>2. n + j \in 1 .. n + m + n /\ n + j > i /\ (j = i - n + 1 => n + j = i + 1)
        BY <1>7, <3>1, <3>2, <4>1
      <4>3. DOMAIN u = 1 .. n + m + n
        BY <1>7
      <4> QED
        BY <1>7, <3>2, <4>2, <4>3
    <3> QED
      BY <2>2, <3>1, <3>3
  <2>3. CASE \E j \in 1 .. n : i = n + m + j
    BY <2>3, <1>2, <1>7, <1>9, NamedSteps
  <2> QED
    BY <1>7, <2>1, <2>2, <2>3
<1>12. u \in Scripts(D)
  BY <1>7, <1>10, <1>11 DEF Scripts
<1> QED
  BY <1>12 DEF u

\* A combination of keys is that around nothing, but that its releases tell.
LEMMA ScriptsCombo ==
  ASSUME NEW D, Moving \subseteq D, NEW keys \in Seq(Key)
  PROVE  Combo(keys) \in Scripts(D)
<1> DEFINE n == Len(keys)
           u == Combo(keys)
<1>1. n \in Nat /\ DOMAIN keys = 1 .. n
  OBVIOUS
<1>2. \A i \in 1 .. n : keys[i] \in Codes
  BY DEF Codes
<1> DEFINE front == [i \in 1 .. n |-> Press(keys[i])]
           back == [i \in 1 .. n |-> DueRelease(keys[i])]
<1>3. front \in Seq(Steps) /\ Len(front) = n /\ \A i \in 1 .. n : front[i] = Press(keys[i])
  BY <1>1, <1>2, NamedSteps
<1>4. back \in Seq(Steps) /\ Len(back) = n /\ \A i \in 1 .. n : back[i] = DueRelease(keys[i])
  BY <1>1, <1>2, NamedSteps
<1>5. u = front \o Reverse(back)
  BY <1>1 DEF Combo
<1> HIDE DEF front, back, n, u
<1>9. \A i \in 1 .. n : n - i + 1 \in 1 .. n
  BY <1>1
<1>6. /\ Reverse(back) \in Seq(Steps) /\ Len(Reverse(back)) = n
      /\ \A i \in 1 .. n : Reverse(back)[i] = back[n - i + 1]
  <2>2. Reverse(back) = [i \in 1 .. n |-> back[(n - i) + 1]]
    BY <1>4 DEF Reverse
  <2>3. \A i \in 1 .. n : back[n - i + 1] \in Steps
    BY <1>4, <1>9
  <2> QED
    BY <1>1, <2>2, <2>3
<1>7. /\ u \in Seq(Steps) /\ Len(u) = n + n
      /\ \A i \in 1 .. n : u[i] = Press(keys[i])
      /\ \A i \in 1 .. n : u[n + i] = DueRelease(keys[n - i + 1])
  <2>1. /\ u \in Seq(Steps) /\ Len(u) = n + n
        /\ \A i \in 1 .. n : u[i] = front[i]
        /\ \A i \in 1 .. n : u[n + i] = Reverse(back)[i]
    <3> DEFINE rev == Reverse(back)
    <3> HIDE DEF rev
    <3>1. front \in Seq(Steps) /\ rev \in Seq(Steps) /\ u = front \o rev
      BY <1>3, <1>5, <1>6 DEF rev
    <3>2. /\ u \in Seq(Steps) /\ Len(u) = Len(front) + Len(rev)
          /\ \A i \in 1 .. Len(front) : u[i] = front[i]
          /\ \A i \in 1 .. Len(rev) : u[Len(front) + i] = rev[i]
      BY <3>1, TwoParts
    <3>3. Len(front) = n /\ Len(rev) = n
      BY <1>3, <1>6 DEF rev
    <3> QED
      BY <3>2, <3>3, Zenon DEF rev
  <2> QED
    BY <1>3, <1>4, <1>6, <1>9, <2>1
<1>8. \A i \in DOMAIN u : i \in 1 .. n \/ \E j \in 1 .. n : i = n + j
  <2> SUFFICES ASSUME NEW i \in DOMAIN u, i \notin 1 .. n
               PROVE  \E j \in 1 .. n : i = n + j
    OBVIOUS
  <2>1. i - n \in 1 .. n /\ i = n + (i - n)
    BY <1>1, <1>7
  <2> QED
    BY <2>1
<1>10. \A i \in DOMAIN u : u[i].does \in D /\ (u[i].due => u[i].does = "release")
  <2> SUFFICES ASSUME NEW i \in DOMAIN u
               PROVE  u[i].does \in D /\ (u[i].due => u[i].does = "release")
    OBVIOUS
  <2>1. CASE i \in 1 .. n
    BY <2>1, <1>2, <1>7, NamedSteps DEF Moving
  <2>2. CASE \E j \in 1 .. n : i = n + j
    BY <2>2, <1>2, <1>7, <1>9, NamedSteps DEF Moving
  <2> QED
    BY <1>8, <2>1, <2>2
<1>11. Closes(u)
  <2> SUFFICES ASSUME NEW i \in DOMAIN u, u[i].does = "press"
               PROVE  \E j \in DOMAIN u : j > i /\ LetsGo(u[j], u[i].key)
                                          /\ (j = i + 1 \/ u[j].due)
    BY DEF Closes
  <2>1. i \in 1 .. n
    BY <1>2, <1>7, <1>8, <1>9, NamedSteps
  <2> DEFINE j == n + (n - i + 1)
  <2>2. n - (n - i + 1) + 1 = i /\ n - i + 1 \in 1 .. n
    BY <1>1, <2>1
  <2>3. u[j] = DueRelease(keys[i])
    BY <1>7, <2>2
  <2>4. j \in DOMAIN u /\ j > i
    BY <1>1, <1>7, <2>1, <2>2
  <2>5. u[i] = Press(keys[i]) /\ keys[i] \in Codes
    BY <1>2, <1>7, <2>1
  <2> HIDE DEF j
  <2> QED
    BY <2>3, <2>4, <2>5, NamedSteps DEF LetsGo
<1>12. u \in Scripts(D)
  BY <1>7, <1>10, <1>11 DEF Scripts
<1> QED
  BY <1>12 DEF u

\* The old pointer's buttons first, then the new pointer.
LEMMA DesktopSteps ==
  LET n == Cardinality(Button)
  IN  /\ n \in Nat /\ SetDesktop \in Seq(Steps) /\ Len(SetDesktop) = n + 1
      /\ \A i \in 1 .. n :
           /\ SetDesktop[i].does = "release" /\ SetDesktop[i].key \in Button
           /\ ~SetDesktop[i].tells /\ ~SetDesktop[i].due
      /\ SetDesktop[n + 1].does = "replace" /\ SetDesktop[n + 1].key = None
      /\ ~SetDesktop[n + 1].due
<1> DEFINE n == Cardinality(Button)
           order == SetToSeq(Button)
           front == [i \in 1 .. n |-> Step(order[i], "release", FALSE, FALSE)]
           last == Step(None, "replace", FALSE, TRUE)
<1>1. n \in Nat
  BY InputAssumption, FS_CardinalityType
<1>2. order \in [1 .. n -> Button]
  <2>1. \E f \in [1 .. n -> Button] : IsInjective(f)
    <3>1. ExistsBijection(1 .. n, Button)
      BY InputAssumption, <1>1, FS_CardinalityType, FS_Bijection
    <3>2. PICK f \in Bijection(1 .. n, Button) : TRUE
      BY <3>1 DEF ExistsBijection
    <3>3. f \in [1 .. n -> Button] /\ \A a, b \in 1 .. n : f[a] = f[b] => a = b
      BY <3>2 DEF Bijection, Injection, IsInjective
    <3> QED
      BY <3>3 DEF IsInjective
  <2> QED
    BY <2>1 DEF SetToSeq
<1> HIDE DEF n, order
<1>3. \A i \in 1 .. n : order[i] \in Button /\ order[i] \in Codes
  BY <1>2 DEF Codes
<1>4. /\ front \in Seq(Steps) /\ Len(front) = n
      /\ \A i \in 1 .. n : front[i] = Step(order[i], "release", FALSE, FALSE)
  <2>1. \A i \in 1 .. n : front[i] = Step(order[i], "release", FALSE, FALSE)
    OBVIOUS
  <2>2. \A i \in 1 .. n : front[i] \in Steps
    BY <1>3, <2>1, InputAssumption DEF Step, Steps
  <2>3. DOMAIN front = 1 .. n /\ front = [i \in 1 .. n |-> front[i]]
    OBVIOUS
  <2> HIDE DEF front
  <2>4. front \in [1 .. n -> Steps]
    BY <2>2, <2>3, Zenon DEF AllOf
  <2>5. front \in Seq(Steps) /\ Len(front) = n
    BY <1>1, <2>3, <2>4
  <2> QED
    BY <2>1, <2>5
<1>5. last \in Steps
  BY DEF Step, Steps
<1>6. SetDesktop = front \o <<last>>
  BY DEF SetDesktop, n, order
<1> HIDE DEF front, last
<1>7. /\ SetDesktop \in Seq(Steps) /\ Len(SetDesktop) = n + 1
      /\ \A i \in 1 .. n : SetDesktop[i] = front[i]
      /\ SetDesktop[n + 1] = last
  <2>1. <<last>> \in Seq(Steps) /\ Len(<<last>>) = 1 /\ <<last>>[1] = last
    BY <1>5
  <2>2. /\ SetDesktop \in Seq(Steps) /\ Len(SetDesktop) = Len(front) + Len(<<last>>)
        /\ \A i \in 1 .. Len(front) : SetDesktop[i] = front[i]
        /\ \A i \in 1 .. Len(<<last>>) : SetDesktop[Len(front) + i] = <<last>>[i]
    BY <1>4, <1>6, <2>1, TwoParts
  <2> QED
    BY <1>1, <1>4, <2>1, <2>2
<1>8. \A i \in 1 .. n :
        /\ front[i].does = "release" /\ front[i].key \in Button
        /\ ~front[i].tells /\ ~front[i].due
  BY <1>3, <1>4 DEF Step
<1>9. last.does = "replace" /\ last.key = None /\ ~last.due
  BY DEF last, Step
<1> QED
  BY <1>1, <1>7, <1>8, <1>9 DEF n

\* Every script but that of a request to hold a key closes what it opens.
LEMMA ScriptOf ==
  ASSUME NEW r \in Request
  PROVE  /\ r.op # "press" => Script(r) \in Scripts(Staying)
         /\ r.op = "press" => Script(r) = <<Press(r.key)>>
         /\ r.op = "hold" => Script(r) = WithModifiers(r.mods, Times(r.n, <<Wait>>))
<1>1. /\ r.mods \in Seq(Key) /\ r.n \in Nat /\ r.key \in Codes \cup {None}
      /\ r.op \in {"press", "let", "click", "drag"} => r.key \in Codes
      /\ r.text \in Seq([key : Key \cup {None}, shift : BOOLEAN])
      /\ Shift \in Codes /\ Key \subseteq Codes
      /\ r.op \in {"press", "let", "click", "drag", "scroll", "move", "hold", "combo",
                   "type", "wake", "read", "status", "layout", "bad"}
  BY InputAssumption DEF Codes
<1>2. Moving \subseteq Staying /\ "wait" \in Staying /\ "sync" \in Staying
  BY DEF Moving, Staying
<1> DEFINE D == Staying
<1>3. /\ r.op = "let" => Script(r) \in Scripts(D)
      /\ r.op = "click" => Script(r) \in Scripts(D)
      /\ r.op = "drag" => Script(r) \in Scripts(D)
      /\ r.op = "scroll" => Script(r) \in Scripts(D)
      /\ r.op \in {"move", "wake", "combo", "bad"} => Script(r) \in Scripts(D)
  <2>0. Moving \subseteq D /\ "wait" \in D
    BY <1>2
  <2> HIDE DEF D
  <2>1. CASE r.op = "let"
    <3>1. <<Release(r.key)>> \in Scripts(D)
      BY <1>1, <2>0, <2>1, ScriptsShort
    <3> QED
      BY <2>1, <3>1 DEF Script
  <2>2. CASE r.op = "click"
    <3>2. /\ <<Motion, Press(r.key), Release(r.key)>> \in Scripts(D)
          /\ <<Wait, Press(r.key), Release(r.key)>> \in Scripts(D)
      BY <1>1, <2>0, <2>2, ScriptsShort
    <3>3. Times(r.n, <<Wait, Press(r.key), Release(r.key)>>) \in Scripts(D)
      BY <1>1, <3>2, ScriptsTimes
    <3>4. Click(r.key, r.n) \in Scripts(D)
      BY <3>2, <3>3, ScriptsConcat DEF Click
    <3>5. WithModifiers(r.mods, Click(r.key, r.n)) \in Scripts(D)
      BY <1>1, <2>0, <3>4, ScriptsWithModifiers
    <3> QED
      BY <2>2, <3>5 DEF Script
  <2>3. CASE r.op = "drag"
    <3>1. Drag(r.key) \in Scripts(D)
      BY <1>1, <2>0, <2>3, ScriptsShort DEF Drag
    <3>2. WithModifiers(r.mods, Drag(r.key)) \in Scripts(D)
      BY <1>1, <2>0, <3>1, ScriptsWithModifiers
    <3> QED
      BY <2>3, <3>2 DEF Script
  <2>4. CASE r.op = "scroll"
    <3>1. <<Motion>> \in Scripts(D)
      BY <2>0, ScriptsShort
    <3>2. Times(r.n, <<Motion>>) \in Scripts(D)
      BY <1>1, <3>1, ScriptsTimes
    <3>3. Scroll(r.n) \in Scripts(D)
      BY <3>1, <3>2, ScriptsConcat DEF Scroll
    <3>4. WithModifiers(r.mods, Scroll(r.n)) \in Scripts(D)
      BY <1>1, <2>0, <3>3, ScriptsWithModifiers
    <3> QED
      BY <2>4, <3>4 DEF Script
  <2>5. CASE r.op \in {"move", "bad"}
    <3>1. <<Motion>> \in Scripts(D) /\ <<Refusal>> \in Scripts(D)
      BY <2>0, ScriptsShort
    <3> QED
      BY <2>5, <3>1 DEF Script
  <2>6. CASE r.op = "wake"
    <3>1. Wake \in Seq(Steps) /\ DOMAIN Wake = 1 .. 3
      BY NamedSteps DEF Wake, Step, Steps
    <3>2. \A i \in 1 .. 3 : Wake[i].does = "move" /\ ~Wake[i].due
      BY NamedSteps DEF Wake, Step
    <3>3. Wake \in Scripts(D)
      BY <2>0, <3>1, <3>2 DEF Scripts, Closes, Moving
    <3> QED
      BY <2>6, <3>3 DEF Script
  <2>7. CASE r.op = "combo"
    <3>1. Combo(r.mods) \in Scripts(D)
      BY <1>1, <2>0, ScriptsCombo
    <3> QED
      BY <2>7, <3>1 DEF Script
  <2> QED
    BY <2>1, <2>2, <2>3, <2>4, <2>5, <2>6, <2>7
<1>4. \A n \in Nat : Times(n, <<Wait>>) \in Scripts(Staying)
  <2>1. <<Wait>> \in Scripts(Staying)
    BY <1>2, ScriptsShort
  <2> QED
    BY <2>1, ScriptsTimes
<1>5. r.op = "hold" => Script(r) \in Scripts(Staying)
  <2>1. WithModifiers(r.mods, Times(r.n, <<Wait>>)) \in Scripts(Staying)
    BY <1>1, <1>2, <1>4, ScriptsWithModifiers
  <2> QED
    BY <2>1 DEF Script
<1>6. r.op \in {"read", "status", "layout"} => Script(r) \in Scripts(Staying)
  <2>1. <<Answer>> \in Scripts(Staying) /\ <<Sync>> \in Scripts(Staying)
    BY <1>2, ScriptsShort
  <2>2. Ask(r.n) \in Scripts(Staying)
    BY <1>1, <1>4, <2>1, ScriptsConcat DEF Ask
  <2>3. Status(r.n) \in Scripts(Staying)
    BY <2>1, <2>2, ScriptsConcat DEF Status
  <2>4. SetDesktop \in Scripts(Staying)
    <3>1. PICK n \in Nat :
            /\ SetDesktop \in Seq(Steps) /\ Len(SetDesktop) = n + 1
            /\ \A i \in 1 .. n : SetDesktop[i].does = "release" /\ ~SetDesktop[i].due
            /\ SetDesktop[n + 1].does = "replace" /\ ~SetDesktop[n + 1].due
      BY DesktopSteps
    <3>2. \A i \in DOMAIN SetDesktop : i \in 1 .. n \/ i = n + 1
      BY <3>1
    <3> QED
      BY <3>1, <3>2 DEF Scripts, Closes, Staying, Moving
  <2>5. Ask(r.n) \o SetDesktop \o Status(r.n) \in Scripts(Staying)
    BY <2>2, <2>3, <2>4, ScriptsConcat
  <2> QED
    BY <2>2, <2>3, <2>5 DEF Script
<1>7. r.op = "type" => Script(r) \in Scripts(Staying)
  <2> DEFINE n == Len(r.text)
             parts == [i \in 1 .. n |-> TypeChar(r.text[i])]
  <2>1. n \in Nat /\ DOMAIN r.text = 1 .. n
        /\ \A i \in 1 .. n : r.text[i] \in [key : Key \cup {None}, shift : BOOLEAN]
    <3>1. PICK text \in Seq([key : Key \cup {None}, shift : BOOLEAN]) : text = r.text
      BY <1>1, Zenon
    <3>2. /\ Len(text) \in Nat /\ DOMAIN text = 1 .. Len(text)
          /\ \A i \in 1 .. Len(text) : text[i] \in [key : Key \cup {None}, shift : BOOLEAN]
      BY LenProperties, ElementOfSeq
    <3> QED
      BY <3>1, <3>2, Zenon
  <2>2. \A i \in 1 .. n : TypeChar(r.text[i]) \in Scripts(Staying)
    <3> SUFFICES ASSUME NEW i \in 1 .. n PROVE TypeChar(r.text[i]) \in Scripts(Staying)
      OBVIOUS
    <3>1. r.text[i].key \in Codes \cup {None}
      BY <1>1, <2>1
    <3>2. <<Refusal>> \in Scripts(Staying)
      BY <1>2, ScriptsShort
    <3>3. r.text[i].key \in Codes =>
            /\ <<Press(r.text[i].key), Release(r.text[i].key)>> \in Scripts(Staying)
            /\ <<Press(Shift), Press(r.text[i].key), Release(r.text[i].key),
                 QuietRelease(Shift)>> \in Scripts(Staying)
      BY <1>1, <1>2, ScriptsShort
    <3> QED
      BY <3>1, <3>2, <3>3 DEF TypeChar
  <2>3. parts \in [1 .. n -> Scripts(Staying)]
    BY <2>2
  <2>4. FlattenSeq(parts) \in Scripts(Staying)
    <3> HIDE DEF parts
    <3> QED
      BY <2>1, <2>3, FlattenIn, ScriptsConcat
  <2>5. FlattenSeq(parts) \o Times(r.n, <<Wait>>) \in Scripts(Staying)
    BY <1>1, <1>4, <2>4, ScriptsConcat
  <2>6. TypeText(r.text, r.n) = FlattenSeq(parts) \o Times(r.n, <<Wait>>)
    BY <2>1 DEF TypeText
  <2> QED
    BY <2>5, <2>6 DEF Script
<1>8. /\ r.op = "press" => Script(r) = <<Press(r.key)>>
      /\ r.op = "hold" => Script(r) = WithModifiers(r.mods, Times(r.n, <<Wait>>))
  BY DEF Script
<1> QED
  BY <1>1, <1>3, <1>5, <1>6, <1>7, <1>8

\* A hold waits as often as it was asked to, in one row.
LEMMA HoldWaits ==
  ASSUME NEW r \in Request, r.op = "hold",
         NEW i \in DOMAIN Script(r), NEW j \in DOMAIN Script(r),
         Script(r)[i].does = "wait", Script(r)[j].does = "wait"
  PROVE  j - i + 1 <= r.n
<1> DEFINE body == Times(r.n, <<Wait>>)
           u == Script(r)
           n == Len(r.mods)
<1>1. r.n \in Nat /\ r.mods \in Seq(Key)
  BY InputAssumption
<1>2. body \in Seq(Steps) /\ Len(body) = r.n
  <2>1. body = [k \in 1 .. r.n |-> Wait]
    BY <1>1, FlattenSingles DEF Times
  <2> QED
    BY <1>1, <2>1, NamedSteps
<1>3. u = WithModifiers(r.mods, body)
  BY ScriptOf
<1> HIDE DEF u, body
<1>4. Around(r.mods, body, u)
  BY <1>1, <1>2, <1>3, ModifierParts
<1>5. /\ n \in Nat /\ \A k \in 1 .. n : r.mods[k] \in Codes
      /\ Len(u) = n + r.n + n /\ u \in Seq(Steps)
      /\ \A k \in 1 .. n : u[k] = Press(r.mods[k])
      /\ \A k \in 1 .. n : u[n + r.n + k] = QuietRelease(r.mods[n - k + 1])
      /\ \A k \in DOMAIN u : \/ k \in 1 .. n
                             \/ k - n \in 1 .. r.n
                             \/ \E l \in 1 .. n : k = n + r.n + l
  BY <1>2, <1>4, Zenon DEF Around
<1> HIDE DEF n
<1>6. ASSUME NEW k \in DOMAIN u, u[k].does = "wait"
      PROVE  k - n \in 1 .. r.n
  <2>1. ASSUME k \in 1 .. n PROVE FALSE
    <3>1. u[k] = Press(r.mods[k]) /\ r.mods[k] \in Codes
      BY <1>5, <2>1
    <3> QED
      BY <1>6, <3>1, NamedSteps
  <2>2. ASSUME NEW l \in 1 .. n, k = n + r.n + l PROVE FALSE
    <3>1. n - l + 1 \in 1 .. n
      BY <1>5
    <3>2. u[k] = QuietRelease(r.mods[n - l + 1]) /\ r.mods[n - l + 1] \in Codes
      BY <1>5, <2>2, <3>1
    <3> QED
      BY <1>6, <3>2, NamedSteps
  <2> QED
    BY <1>5, <1>6, <2>1, <2>2
<1>7. i - n \in 1 .. r.n /\ j - n \in 1 .. r.n
  BY <1>6 DEF u
<1>8. i \in Int /\ j \in Int
  BY <1>5 DEF u
<1> QED
  BY <1>1, <1>5, <1>7, <1>8

\* What the steps that a request has left are for the invariant, and what all
\* its steps are.
Shape(t, r) ==
  /\ t \in Seq(Steps)
  /\ \A i \in DOMAIN t : t[i].due => t[i].does = "release"
  /\ IF r.op = "press"
     THEN \A i \in DOMAIN t : t[i].does = "press" => t[i].key = r.key
     ELSE Closes(t)
  /\ PointerOwn(t, Frees(r))

Sound(t, r) ==
  /\ Shape(t, r)
  /\ r.op = "hold" \/ ~Slow(r) =>
       \A i, j \in DOMAIN t : t[i].does = "wait" /\ t[j].does = "wait" =>
         r.op = "hold" /\ j - i + 1 <= r.n

LEMMA ScriptSound ==
  ASSUME NEW r \in Request
  PROVE  Sound(Script(r), r)
<1> DEFINE t == Script(r)
<1>1. CASE r.op = "press"
  <2>1. t = <<Press(r.key)>> /\ r.key \in Codes
    BY <1>1, ScriptOf, InputAssumption
  <2> HIDE DEF t
  <2>2. t \in Seq(Steps) /\ DOMAIN t = {1} /\ t[1].does = "press" /\ ~t[1].due /\ t[1].key = r.key
    BY <2>1, NamedSteps
  <2>3. Sound(t, r)
    BY <1>1, <2>2 DEF Sound, Shape, PointerOwn
  <2> QED
    BY <2>3 DEF t
<1>2. CASE r.op # "press"
  <2>1. t \in Scripts(Staying)
    BY <1>2, ScriptOf
  <2>2. ASSUME r.op = "hold" \/ ~Slow(r), NEW i \in DOMAIN t, NEW j \in DOMAIN t,
               t[i].does = "wait", t[j].does = "wait"
        PROVE  r.op = "hold" /\ j - i + 1 <= r.n
    <3>1. r.op = "hold"
      BY <2>2 DEF Slow
    <3> QED
      BY <2>2, <3>1, HoldWaits
  <2>3. \A i \in DOMAIN t : t[i].does = "release" => t[i].key \in Frees(r)
    <3> SUFFICES ASSUME NEW i \in DOMAIN t, t[i].does = "release" PROVE t[i].key \in Frees(r)
      OBVIOUS
    <3>1. t[i].key \in Codes
      <4>1. t[i] \in Steps
        BY <2>1 DEF Scripts
      <4> QED
        BY <4>1 DEF Steps
    <3>2. CASE r.op = "let"
      <4>1. t = <<Release(r.key)>> /\ r.key \in Codes
        BY <3>2, InputAssumption DEF Script
      <4> QED
        BY <3>2, <4>1, NamedSteps DEF Frees
    <3>3. CASE r.op # "let"
      BY <1>2, <3>1, <3>3 DEF Frees, Used
    <3> QED
      BY <3>2, <3>3
  <2> HIDE DEF t
  <2>4. PointerOwn(t, Frees(r))
    BY <2>3 DEF PointerOwn
  <2>5. Sound(t, r)
    BY <1>2, <2>1, <2>2, <2>4 DEF Sound, Shape, Scripts
  <2> QED
    BY <2>5 DEF t
<1> QED
  BY <1>1, <1>2

\* u is t after o steps that make the pointer follow.
Behind(u, t, o) ==
  /\ o \in Nat /\ t \in Seq(Steps) /\ u \in Seq(Steps)
  /\ \A i \in DOMAIN t : o + i \in DOMAIN u /\ u[o + i] = t[i]
  /\ \A i \in DOMAIN u :
       \/ i - o \in DOMAIN t /\ u[i] = t[i - o]
       \/ /\ u[i].does \in {"release", "replace"} /\ ~u[i].due
          /\ u[i].does = "release" => Replacing(u, i)

\* The new pointer first, then what the request asks for.
LEMMA AfterDesktop ==
  ASSUME NEW t \in Seq(Steps), NEW u, u = SetDesktop \o t
  PROVE  \E o \in Nat : Behind(u, t, o)
<1> DEFINE n == Cardinality(Button)
<1>1. /\ n \in Nat /\ SetDesktop \in Seq(Steps) /\ Len(SetDesktop) = n + 1
      /\ \A i \in 1 .. n :
           /\ SetDesktop[i].does = "release" /\ SetDesktop[i].key \in Button
           /\ ~SetDesktop[i].tells /\ ~SetDesktop[i].due
      /\ SetDesktop[n + 1].does = "replace" /\ ~SetDesktop[n + 1].due
  BY DesktopSteps
<1> HIDE DEF n
<1>2. PICK o \in Nat : o = n + 1
  BY <1>1
<1>3. /\ u \in Seq(Steps) /\ Len(u) = o + Len(t)
      /\ \A i \in 1 .. o : u[i] = SetDesktop[i]
      /\ \A i \in 1 .. Len(t) : u[o + i] = t[i]
  <2> PICK front : front = SetDesktop
    OBVIOUS
  <2>1. front \in Seq(Steps) /\ t \in Seq(Steps) /\ u = front \o t
    BY <1>1
  <2>2. /\ u \in Seq(Steps) /\ Len(u) = Len(front) + Len(t)
        /\ \A i \in 1 .. Len(front) : u[i] = front[i]
        /\ \A i \in 1 .. Len(t) : u[Len(front) + i] = t[i]
    BY <2>1, TwoParts, SMTT(30)
  <2>3. Len(front) = o
    BY <1>1, <1>2
  <2> QED
    BY <2>2, <2>3
<1>4. DOMAIN t = 1 .. Len(t) /\ Len(t) \in Nat /\ DOMAIN u = 1 .. o + Len(t)
  BY <1>3
<1>5. \A i \in DOMAIN u :
        i \in Nat \ {0} /\ (i <= o \/ (i - o \in DOMAIN t /\ u[i] = t[i - o]))
  <2>0. \A i \in DOMAIN u : i \in Nat \ {0}
    BY <1>3
  <2> SUFFICES ASSUME NEW i \in DOMAIN u, ~(i <= o)
               PROVE  i - o \in DOMAIN t /\ u[i] = t[i - o]
    BY <2>0
  <2>1. i - o \in 1 .. Len(t) /\ o + (i - o) = i
    BY <1>2, <1>4
  <2> QED
    BY <1>3, <1>4, <2>1
<1>6. o \in DOMAIN u /\ u[o].does = "replace" /\ ~u[o].due
  <2>1. o \in 1 .. o /\ o \in DOMAIN u
    BY <1>1, <1>2, <1>4
  <2> QED
    BY <1>1, <1>2, <1>3, <2>1
<1>7. ASSUME NEW i \in DOMAIN u, i < o
      PROVE  u[i].does = "release" /\ u[i].key \in Button /\ ~u[i].tells /\ ~u[i].due
  <2>1. i \in 1 .. n /\ i \in 1 .. o
    BY <1>1, <1>2, <1>5, <1>7
  <2> QED
    BY <1>1, <1>3, <2>1
<1>8. ASSUME NEW i \in DOMAIN u, i <= o
      PROVE  u[i].does \in {"release", "replace"} /\ ~u[i].due /\ Replacing(u, i)
  <2>1. Replacing(u, i)
    BY <1>6, <1>7, <1>8 DEF Replacing
  <2>2. i = o \/ i < o
    BY <1>2, <1>5, <1>8
  <2> QED
    BY <1>6, <1>7, <2>1, <2>2
<1>9. \A i \in DOMAIN t : o + i \in DOMAIN u /\ u[o + i] = t[i]
  <2> SUFFICES ASSUME NEW i \in DOMAIN t PROVE o + i \in DOMAIN u /\ u[o + i] = t[i]
    OBVIOUS
  <2> QED
    BY <1>2, <1>3, <1>4
<1> QED
  BY <1>3, <1>5, <1>8, <1>9 DEF Behind

\* So it is with sync_pointer, which may have nothing to do.
LEMMA AfterSync ==
  ASSUME NEW t \in Seq(Steps), NEW u, u = SyncPointer \o t
  PROVE  \E o \in Nat : Behind(u, t, o)
<1>1. CASE pending
  BY <1>1, AfterDesktop DEF SyncPointer
<1>2. CASE ~pending
  <2>1. u = t
    <3>1. u = <<>> \o t
      BY <1>2 DEF SyncPointer
    <3> QED
      BY <3>1
  <2>2. \A i \in DOMAIN t : 0 + i = i /\ i - 0 = i
    OBVIOUS
  <2>3. Behind(u, t, 0)
    BY <2>1, <2>2 DEF Behind
  <2> QED
    BY <2>3
<1> QED
  BY <1>1, <1>2

\* What is behind keeps its shape, and only it waits.
LEMMA BehindShape ==
  ASSUME NEW r, NEW t, Shape(t, r), NEW u, NEW o, Behind(u, t, o)
  PROVE  /\ Shape(u, r)
         /\ \A i \in DOMAIN u : u[i].does = "wait" =>
              i \in Nat /\ i - o \in DOMAIN t /\ t[i - o].does = "wait"
<1>1. /\ o \in Nat /\ t \in Seq(Steps) /\ u \in Seq(Steps)
      /\ \A i \in DOMAIN t : o + i \in DOMAIN u /\ u[o + i] = t[i]
      /\ \A i \in DOMAIN u :
           \/ i - o \in DOMAIN t /\ u[i] = t[i - o]
           \/ /\ u[i].does \in {"release", "replace"} /\ ~u[i].due
              /\ u[i].does = "release" => Replacing(u, i)
  BY Zenon DEF Behind
<1>2. /\ DOMAIN t = 1 .. Len(t) /\ Len(t) \in Nat
      /\ DOMAIN u = 1 .. Len(u) /\ Len(u) \in Nat
  BY <1>1
<1>3. \A i \in DOMAIN u : u[i].due => u[i].does = "release"
  BY <1>1 DEF Shape
<1>4. r.op = "press" => \A i \in DOMAIN u : u[i].does = "press" => u[i].key = r.key
  BY <1>1 DEF Shape
<1>5. r.op # "press" => Closes(u)
  <2> SUFFICES ASSUME r.op # "press", NEW i \in DOMAIN u, u[i].does = "press"
               PROVE  \E j \in DOMAIN u :
                        j > i /\ LetsGo(u[j], u[i].key) /\ (j = i + 1 \/ u[j].due)
    BY DEF Closes
  <2> PICK k : k = i - o
    OBVIOUS
  <2>1. k \in DOMAIN t /\ u[i] = t[k]
    BY <1>1
  <2>2. PICK j \in DOMAIN t : j > k /\ LetsGo(t[j], t[k].key) /\ (j = k + 1 \/ t[j].due)
    BY <2>1 DEF Shape, Closes
  <2>3. o + j > i /\ (j = k + 1 => o + j = i + 1)
    BY <1>1, <1>2, <2>2
  <2> QED
    BY <1>1, <2>1, <2>2, <2>3
<1>6. PointerOwn(u, Frees(r))
  <2> SUFFICES ASSUME NEW i \in DOMAIN u, u[i].does = "release", u[i].key \notin Frees(r)
               PROVE  Replacing(u, i)
    BY DEF PointerOwn
  <2>1. CASE i - o \in DOMAIN t /\ u[i] = t[i - o]
    <3> PICK k : k = i - o
      OBVIOUS
    <3>1. k \in DOMAIN t /\ Replacing(t, k)
      BY <2>1 DEF Shape, PointerOwn
    <3>2. PICK j \in DOMAIN t :
            /\ k <= j /\ t[j].does = "replace"
            /\ \A l \in DOMAIN t : k <= l /\ l < j =>
                 /\ t[l].does = "release" /\ t[l].key \in Button
                 /\ ~t[l].tells /\ ~t[l].due
      BY <3>1 DEF Replacing
    <3>3. o + j \in DOMAIN u /\ i <= o + j /\ u[o + j].does = "replace"
      BY <1>1, <1>2, <3>2
    <3>4. ASSUME NEW l \in DOMAIN u, i <= l, l < o + j
          PROVE  u[l].does = "release" /\ u[l].key \in Button /\ ~u[l].tells /\ ~u[l].due
      <4> PICK m : m = l - o
        OBVIOUS
      <4>1. m \in DOMAIN t /\ k <= m /\ m < j /\ o + m = l
        BY <1>1, <1>2, <3>1, <3>2, <3>4
      <4> QED
        BY <1>1, <3>2, <4>1
    <3> QED
      BY <3>3, <3>4 DEF Replacing
  <2>2. CASE ~(i - o \in DOMAIN t /\ u[i] = t[i - o])
    BY <1>1, <2>2
  <2> QED
    BY <2>1, <2>2
<1>7. \A i \in DOMAIN u : u[i].does = "wait" =>
        i \in Nat /\ i - o \in DOMAIN t /\ t[i - o].does = "wait"
  <2> SUFFICES ASSUME NEW i \in DOMAIN u, u[i].does = "wait"
               PROVE  i \in Nat /\ i - o \in DOMAIN t /\ t[i - o].does = "wait"
    OBVIOUS
  <2> QED
    BY <1>1, <1>2
<1>8. Shape(u, r)
  BY <1>1, <1>3, <1>4, <1>5, <1>6, Zenon DEF Shape
<1> QED
  BY <1>7, <1>8

-----------------------------------------------------------------------------
(* What is left of a script *)

LEMMA TailParts ==
  ASSUME NEW S, NEW t \in Seq(S), t # <<>>
  PROVE  /\ Head(t) = t[1] /\ 1 \in DOMAIN t /\ t[1] \in S
         /\ Tail(t) \in Seq(S) /\ Len(Tail(t)) = Len(t) - 1
         /\ \A i \in DOMAIN Tail(t) :
              i \in Nat \ {0} /\ i + 1 \in DOMAIN t /\ Tail(t)[i] = t[i + 1]
         /\ \A i \in DOMAIN t :
              /\ i \in Nat \ {0}
              /\ i # 1 => i - 1 \in DOMAIN Tail(t) /\ Tail(t)[i - 1] = t[i]
<1>1. Head(t) = t[1] /\ 1 \in DOMAIN t /\ t[1] \in S /\ Len(t) \in Nat \ {0}
  OBVIOUS
<1>2. Tail(t) \in Seq(S) /\ Len(Tail(t)) = Len(t) - 1
  OBVIOUS
<1>3. DOMAIN t = 1 .. Len(t) /\ DOMAIN Tail(t) = 1 .. Len(t) - 1
  BY <1>1, <1>2
<1>4. ASSUME NEW i \in DOMAIN Tail(t)
      PROVE  i \in Nat \ {0} /\ i + 1 \in DOMAIN t /\ Tail(t)[i] = t[i + 1]
  <2>1. i \in 1 .. Len(t) - 1
    BY <1>3
  <2> QED
    BY <1>1, <1>3, <2>1
<1>5. ASSUME NEW i \in DOMAIN t, i # 1
      PROVE  i - 1 \in DOMAIN Tail(t) /\ Tail(t)[i - 1] = t[i]
  <2>1. i \in 1 .. Len(t) /\ i - 1 \in 1 .. Len(t) - 1 /\ (i - 1) + 1 = i
    BY <1>1, <1>3, <1>5
  <2>2. i - 1 \in DOMAIN Tail(t)
    BY <1>3, <2>1
  <2> QED
    BY <1>4, <2>1, <2>2
<1>6. \A i \in DOMAIN t : i \in Nat \ {0}
  BY <1>1, <1>3
<1> QED
  BY <1>1, <1>2, <1>4, <1>5, <1>6

\* After a failure the releases that are due are left of the script, all those
\* of what the request holds.
Keeps(t, u) ==
  /\ u \in Seq(Steps)
  /\ \A j \in DOMAIN u : \E i \in DOMAIN t : u[j] = t[i] /\ t[i].due /\ t[i].key \in mine
  /\ \A i \in DOMAIN t : t[i].due /\ t[i].key \in mine => \E j \in DOMAIN u : u[j] = t[i]

LEMMA DueParts ==
  ASSUME NEW t \in Seq(Steps)
  PROVE  Keeps(t, OnlyDue(t))
<1> DEFINE n == Len(t)
           S == {s \in Steps : \E i \in DOMAIN t : s = t[i] /\ s.due /\ s.key \in mine}
           seqs == [i \in 1 .. n |-> IF t[i].due /\ t[i].key \in mine THEN <<t[i]>> ELSE <<>>]
<1>1. n \in Nat /\ DOMAIN t = 1 .. n /\ \A i \in 1 .. n : t[i] \in Steps
  OBVIOUS
<1>2. OnlyDue(t) = FlattenSeq(seqs)
  BY <1>1 DEF OnlyDue
<1>3. \A i \in 1 .. n : t[i].due /\ t[i].key \in mine => t[i] \in S
  BY <1>1
<1>4. \A i \in 1 .. n : seqs[i] = IF t[i].due /\ t[i].key \in mine THEN <<t[i]>> ELSE <<>>
  OBVIOUS
<1>5. S \subseteq Steps
  OBVIOUS
<1>6. \A s \in S : \E i \in DOMAIN t : s = t[i] /\ t[i].due /\ t[i].key \in mine
  OBVIOUS
<1> HIDE DEF S
<1>7. \A i \in 1 .. n : seqs[i] \in Seq(S)
  <2> SUFFICES ASSUME NEW i \in 1 .. n PROVE seqs[i] \in Seq(S)
    OBVIOUS
  <2>1. CASE t[i].due /\ t[i].key \in mine
    <3>1. seqs[i] = <<t[i]>> /\ t[i] \in S
      BY <1>3, <1>4, <2>1
    <3> QED
      BY <3>1
  <2>2. CASE ~(t[i].due /\ t[i].key \in mine)
    <3>1. seqs[i] = <<>>
      BY <1>4, <2>2
    <3> QED
      BY <3>1
  <2> QED
    BY <2>1, <2>2
<1>8. seqs \in [1 .. n -> Seq(S)]
  <2>1. DOMAIN seqs = 1 .. n /\ seqs = [i \in 1 .. n |-> seqs[i]]
    OBVIOUS
  <2> HIDE DEF seqs
  <2> QED
    BY <1>7, <2>1, Zenon
<1> HIDE DEF seqs, n
<1>9. PICK u : u = OnlyDue(t)
  OBVIOUS
<1>10. /\ u \in Seq(S)
       /\ \A i \in 1 .. n : \A j \in DOMAIN seqs[i] : \E m \in DOMAIN u : u[m] = seqs[i][j]
  <2>1. n \in Nat
    BY <1>1
  <2>2. FlattenSeq(seqs) \in Seq(S) /\ AllOf(seqs, n, FlattenSeq(seqs))
    BY <2>1, <1>8, FlattenElements
  <2>3. u = FlattenSeq(seqs)
    BY <1>2, <1>9
  <2> QED
    BY <2>2, <2>3, Zenon DEF AllOf
<1>11. u \in Seq(Steps)
  BY <1>5, <1>10
<1>12. \A j \in DOMAIN u : u[j] \in S
  BY <1>10
<1>13. ASSUME NEW i \in DOMAIN t, t[i].due /\ t[i].key \in mine
       PROVE  \E j \in DOMAIN u : u[j] = t[i]
  <2>1. i \in 1 .. n /\ seqs[i] = <<t[i]>>
    BY <1>1, <1>4, <1>13
  <2>2. 1 \in DOMAIN seqs[i] /\ seqs[i][1] = t[i]
    BY <2>1
  <2> QED
    BY <1>10, <2>1, <2>2
<1> QED
  BY <1>6, <1>9, <1>11, <1>12, <1>13 DEF Keeps

\* A step less.
LEMMA TailShape ==
  ASSUME NEW r, NEW t, Shape(t, r), t # <<>>
  PROVE  Shape(Tail(t), r)
<1> PICK u : u = Tail(t)
  OBVIOUS
<1>1. t \in Seq(Steps)
  BY DEF Shape
<1>2. /\ 1 \in DOMAIN t /\ u \in Seq(Steps)
      /\ \A i \in DOMAIN u : i \in Nat \ {0} /\ i + 1 \in DOMAIN t /\ u[i] = t[i + 1]
      /\ \A i \in DOMAIN t :
           i \in Nat \ {0} /\ (i # 1 => i - 1 \in DOMAIN u /\ u[i - 1] = t[i])
  BY <1>1, TailParts
<1>3. \A i \in DOMAIN u : u[i].due => u[i].does = "release"
  BY <1>2 DEF Shape
<1>4. r.op = "press" => \A i \in DOMAIN u : u[i].does = "press" => u[i].key = r.key
  BY <1>2 DEF Shape
<1>5. r.op # "press" => Closes(u)
  <2> SUFFICES ASSUME r.op # "press", NEW i \in DOMAIN u, u[i].does = "press"
               PROVE  \E j \in DOMAIN u :
                        j > i /\ LetsGo(u[j], u[i].key) /\ (j = i + 1 \/ u[j].due)
    BY DEF Closes
  <2>1. i \in Nat \ {0} /\ i + 1 \in DOMAIN t /\ u[i] = t[i + 1]
    BY <1>2
  <2>2. PICK j \in DOMAIN t :
          j > i + 1 /\ LetsGo(t[j], t[i + 1].key) /\ (j = (i + 1) + 1 \/ t[j].due)
    BY <2>1 DEF Shape, Closes
  <2>3. j \in Nat \ {0} /\ j - 1 \in DOMAIN u /\ u[j - 1] = t[j]
    BY <1>2, <2>1, <2>2
  <2>4. j - 1 > i /\ (j = (i + 1) + 1 => j - 1 = i + 1)
    BY <2>1, <2>2, <2>3
  <2> QED
    BY <2>1, <2>2, <2>3, <2>4
<1>6. PointerOwn(u, Frees(r))
  <2> SUFFICES ASSUME NEW i \in DOMAIN u, u[i].does = "release", u[i].key \notin Frees(r)
               PROVE  Replacing(u, i)
    BY DEF PointerOwn
  <2>1. i \in Nat \ {0} /\ i + 1 \in DOMAIN t /\ u[i] = t[i + 1]
    BY <1>2
  <2>2. Replacing(t, i + 1)
    BY <2>1 DEF Shape, PointerOwn
  <2>3. PICK j \in DOMAIN t :
          /\ i + 1 <= j /\ t[j].does = "replace"
          /\ \A l \in DOMAIN t : i + 1 <= l /\ l < j =>
               /\ t[l].does = "release" /\ t[l].key \in Button /\ ~t[l].tells /\ ~t[l].due
    BY <2>2 DEF Replacing
  <2>4. j - 1 \in DOMAIN u /\ i <= j - 1 /\ u[j - 1].does = "replace"
    BY <1>2, <2>1, <2>3
  <2>5. ASSUME NEW l \in DOMAIN u, i <= l, l < j - 1
        PROVE  u[l].does = "release" /\ u[l].key \in Button /\ ~u[l].tells /\ ~u[l].due
    <3>1. l + 1 \in DOMAIN t /\ u[l] = t[l + 1] /\ i + 1 <= l + 1 /\ l + 1 < j
      BY <1>2, <2>1, <2>5
    <3> QED
      BY <2>3, <3>1
  <2> QED
    BY <2>4, <2>5 DEF Replacing
<1>7. Shape(u, r)
  BY <1>2, <1>3, <1>4, <1>5, <1>6, Zenon DEF Shape
<1> QED
  BY <1>7

\* Only what is due.
LEMMA DueShape ==
  ASSUME NEW r, NEW t, Shape(t, r)
  PROVE  /\ Shape(OnlyDue(t), r)
         /\ \A i \in DOMAIN OnlyDue(t) : OnlyDue(t)[i].does = "release"
<1> PICK u : u = OnlyDue(t)
  OBVIOUS
<1>1. t \in Seq(Steps)
  BY DEF Shape
<1>2. u \in Seq(Steps) /\ \A j \in DOMAIN u : \E i \in DOMAIN t : u[j] = t[i] /\ t[i].due
  BY <1>1, DueParts DEF Keeps
<1>3. \A i \in DOMAIN u : u[i].does = "release"
  BY <1>2 DEF Shape
<1>4. \A i \in DOMAIN u : u[i].key \in Frees(r)
  <2> SUFFICES ASSUME NEW j \in DOMAIN u PROVE u[j].key \in Frees(r)
    OBVIOUS
  <2>1. PICK i \in DOMAIN t : u[j] = t[i] /\ t[i].due
    BY <1>2
  <2>2. t[i].does = "release"
    BY <2>1 DEF Shape
  <2>3. ~Replacing(t, i)
    <3> SUFFICES ASSUME NEW m \in DOMAIN t, i <= m, t[m].does = "replace",
                        \A l \in DOMAIN t : i <= l /\ l < m => ~t[l].due
                 PROVE  FALSE
      BY DEF Replacing
    <3>1. i < m /\ i <= i
      BY <1>1, <2>2
    <3> QED
      BY <2>1, <3>1
  <2>4. t[i].key \in Frees(r)
    BY <2>2, <2>3 DEF Shape, PointerOwn
  <2> QED
    BY <2>1, <2>4
<1>5. PointerOwn(u, Frees(r))
  BY <1>3, <1>4 DEF PointerOwn
<1>6. Shape(u, r)
  BY <1>2, <1>3, <1>5 DEF Shape, Closes
<1> QED
  BY <1>3, <1>6

\* Of what the request holds itself, m, a release is left.
Owed(t, r, m) ==
  IF r.op = "press" THEN m \subseteq {r.key}
  ELSE \A k \in m : \E j \in DOMAIN t : LetsGo(t[j], k) /\ (j = 1 \/ t[j].due)

LEMMA EmitOwes ==
  ASSUME NEW r, NEW t, Shape(t, r), t # <<>>, Owed(t, r, mine)
  PROVE  Owed(Tail(t), r, IF t[1].does = "press" THEN mine \cup {t[1].key} ELSE mine \ {t[1].key})
<1> PICK u : u = Tail(t)
  OBVIOUS
<1> PICK m : m = IF t[1].does = "press" THEN mine \cup {t[1].key} ELSE mine \ {t[1].key}
  OBVIOUS
<1>1. t \in Seq(Steps)
  BY DEF Shape
<1>2. /\ 1 \in DOMAIN t
      /\ \A i \in DOMAIN t :
           i \in Nat \ {0} /\ (i # 1 => i - 1 \in DOMAIN u /\ u[i - 1] = t[i])
  BY <1>1, TailParts
<1>3. r.op = "press" => m \subseteq {r.key}
  BY <1>2 DEF Shape, Owed
<1>4. ASSUME r.op # "press", NEW k \in m
      PROVE  \E j \in DOMAIN u : LetsGo(u[j], k) /\ (j = 1 \/ u[j].due)
  <2>1. \E j \in DOMAIN t : LetsGo(t[j], k) /\ j # 1 /\ (j = 2 \/ t[j].due)
    <3>1. CASE t[1].does = "press" /\ k = t[1].key
      <4>1. PICK j \in DOMAIN t : j > 1 /\ LetsGo(t[j], t[1].key) /\ (j = 1 + 1 \/ t[j].due)
        BY <1>2, <1>4, <3>1 DEF Shape, Closes
      <4> QED
        BY <3>1, <4>1
    <3>2. CASE k \in mine /\ (t[1].does = "press" \/ k # t[1].key)
      <4>1. PICK j \in DOMAIN t : LetsGo(t[j], k) /\ (j = 1 \/ t[j].due)
        BY <1>4, <3>2 DEF Owed
      <4>2. j # 1
        BY <3>2, <4>1 DEF LetsGo
      <4> QED
        BY <4>1, <4>2
    <3> QED
      BY <1>4, <3>1, <3>2
  <2>2. PICK j \in DOMAIN t : LetsGo(t[j], k) /\ j # 1 /\ (j = 2 \/ t[j].due)
    BY <2>1
  <2>3. j - 1 \in DOMAIN u /\ u[j - 1] = t[j] /\ (j = 2 => j - 1 = 1)
    BY <1>2, <2>2
  <2> QED
    BY <2>2, <2>3
<1>5. Owed(u, r, m)
  BY <1>3, <1>4 DEF Owed
<1> QED
  BY <1>5

LEMMA FailOwes ==
  ASSUME NEW r, NEW t, Shape(t, r), t # <<>>, Owed(t, r, mine), NEW m,
         m = IF t[1].does = "release" THEN mine \ {t[1].key} ELSE mine
  PROVE  Owed(Tail(t), r, m) /\ Owed(OnlyDue(Tail(t)), r, m)
<1> PICK u : u = Tail(t)
  OBVIOUS
<1> PICK v : v = OnlyDue(u)
  OBVIOUS
<1>1. t \in Seq(Steps)
  BY DEF Shape
<1>2. /\ 1 \in DOMAIN t /\ u \in Seq(Steps)
      /\ \A i \in DOMAIN t :
           i \in Nat \ {0} /\ (i # 1 => i - 1 \in DOMAIN u /\ u[i - 1] = t[i])
  BY <1>1, TailParts
<1>3. \A i \in DOMAIN u : u[i].due /\ u[i].key \in mine => \E j \in DOMAIN v : v[j] = u[i]
  <2>1. Keeps(u, v)
    BY <1>2, DueParts
  <2> QED
    BY <2>1, Zenon DEF Keeps
<1>4. \A j \in DOMAIN v : v[j].due
  <2>1. Keeps(u, v)
    BY <1>2, DueParts
  <2> QED
    BY <2>1, Zenon DEF Keeps
<1>5. m \subseteq mine
  OBVIOUS
<1>6. r.op = "press" => m \subseteq {r.key}
  BY <1>5 DEF Owed
<1>7. ASSUME r.op # "press", NEW k \in m
      PROVE  /\ \E j \in DOMAIN u : LetsGo(u[j], k) /\ u[j].due
             /\ \E j \in DOMAIN v : LetsGo(v[j], k) /\ v[j].due
  <2>1. PICK j \in DOMAIN t : LetsGo(t[j], k) /\ (j = 1 \/ t[j].due)
    BY <1>5, <1>7 DEF Owed
  <2>2. j # 1
    BY <1>7, <2>1 DEF LetsGo
  <2>3. j - 1 \in DOMAIN u /\ u[j - 1] = t[j]
    BY <1>2, <2>2
  <2>4. LetsGo(u[j - 1], k) /\ u[j - 1].due
    BY <2>1, <2>2, <2>3
  <2>5. u[j - 1].key \in mine
    BY <1>5, <2>4 DEF LetsGo
  <2>6. PICK i \in DOMAIN v : v[i] = u[j - 1]
    BY <1>3, <2>3, <2>4, <2>5
  <2> QED
    BY <2>3, <2>4, <2>6
<1>8. Owed(u, r, m) /\ Owed(v, r, m)
  BY <1>6, <1>7 DEF Owed
<1> QED
  BY <1>8

-----------------------------------------------------------------------------
(* The queue of connections *)

QueueOK(q) ==
  /\ q \in Seq(Conns)
  /\ \A i \in DOMAIN q : q[i].sent <=> q[i].req # None
  /\ \A i, j \in DOMAIN q : i < j /\ q[i].by = q[j].by => ~q[i].live

LiveIn(q, c) == {i \in DOMAIN q : q[i].by = c /\ q[i].live}

\* A client has one live connection at most.
LEMMA OneLive ==
  ASSUME NEW q, QueueOK(q), NEW c
  PROVE  /\ \A i, j \in LiveIn(q, c) : i = j
         /\ Cardinality(LiveIn(q, c)) <= 1
<1>1. ASSUME NEW i \in LiveIn(q, c), NEW j \in LiveIn(q, c) PROVE i = j
  <2>1. i \in Nat /\ j \in Nat
    BY DEF QueueOK, LiveIn
  <2>2. ~(i < j) /\ ~(j < i)
    BY DEF QueueOK, LiveIn
  <2> QED
    BY <2>1, <2>2
<1>2. Cardinality(LiveIn(q, c)) <= 1
  <2>1. CASE LiveIn(q, c) = {}
    BY <2>1, FS_EmptySet
  <2>2. CASE LiveIn(q, c) # {}
    <3>1. PICK i \in LiveIn(q, c) : LiveIn(q, c) = {i}
      BY <1>1, <2>2
    <3>2. Cardinality({i}) = 1
      BY FS_Singleton
    <3> QED
      BY <3>1, <3>2
  <2> QED
    BY <2>1, <2>2
<1> QED
  BY <1>1, <1>2

\* A connection more, of a client that has no live one.
Longer(q, c, u) ==
  /\ QueueOK(u) /\ u # <<>>
  /\ q # <<>> => Head(u) = Head(q)
  /\ \A i \in DOMAIN u : u[i].by = c \/ (i \in DOMAIN q /\ u[i] = q[i])

LEMMA QueueAppend ==
  ASSUME NEW q, QueueOK(q), NEW c \in Client, LiveIn(q, c) = {}
  PROVE  Longer(q, c, Append(q, [by |-> c, req |-> None, sent |-> FALSE, live |-> TRUE]))
<1> PICK u : u = Append(q, [by |-> c, req |-> None, sent |-> FALSE, live |-> TRUE])
  OBVIOUS
<1> PICK conn : conn = [by |-> c, req |-> None, sent |-> FALSE, live |-> TRUE]
  OBVIOUS
<1>1. conn \in Conns /\ conn.by = c /\ conn.req = None /\ ~conn.sent
  BY DEF Conns
<1>2. q \in Seq(Conns) /\ u = Append(q, conn)
  BY DEF QueueOK
<1>3. u \in Seq(Conns) /\ Len(u) = Len(q) + 1 /\ Len(q) \in Nat
      /\ (\A i \in 1 .. Len(q) : u[i] = q[i]) /\ u[Len(q) + 1] = conn
  BY <1>1, <1>2
<1>4. DOMAIN q = 1 .. Len(q) /\ DOMAIN u = 1 .. Len(q) + 1
  BY <1>2, <1>3
<1>5. \A i \in DOMAIN u : (i \in DOMAIN q /\ u[i] = q[i]) \/ (i = Len(q) + 1 /\ u[i] = conn)
  BY <1>3, <1>4
<1>6. \A i \in DOMAIN u : u[i].sent <=> u[i].req # None
  BY <1>1, <1>5 DEF QueueOK
<1>7. ASSUME NEW i \in DOMAIN u, NEW j \in DOMAIN u, i < j, u[i].by = u[j].by
      PROVE  ~u[i].live
  <2>1. i \in DOMAIN q /\ u[i] = q[i]
    BY <1>3, <1>4, <1>5, <1>7
  <2>2. CASE j \in DOMAIN q /\ u[j] = q[j]
    BY <1>7, <2>1, <2>2 DEF QueueOK
  <2>3. CASE u[j] = conn
    BY <1>1, <1>7, <2>1, <2>3 DEF LiveIn
  <2> QED
    BY <1>5, <2>2, <2>3
<1>8. QueueOK(u)
  BY <1>3, <1>6, <1>7 DEF QueueOK
<1>9. u # <<>> /\ (q # <<>> => Head(u) = Head(q))
  <2>1. Head(u) = u[1] /\ u # <<>>
    BY <1>3
  <2>2. q # <<>> => 1 \in 1 .. Len(q) /\ Head(q) = q[1]
    BY <1>2
  <2> QED
    BY <1>3, <2>1, <2>2
<1>10. \A i \in DOMAIN u : u[i].by = c \/ (i \in DOMAIN q /\ u[i] = q[i])
  BY <1>1, <1>5
<1> QED
  BY <1>8, <1>9, <1>10 DEF Longer

\* A connection that brings its request, or is given up.
Marked(q, i, conn, u) ==
  /\ QueueOK(u) /\ u # <<>> /\ DOMAIN u = DOMAIN q
  /\ \A j \in DOMAIN q : u[j].by = q[j].by /\ (j # i => u[j] = q[j])
  /\ u[i] = conn /\ Head(u) = u[1] /\ Head(q) = q[1] /\ q # <<>> /\ 1 \in DOMAIN q

LEMMA QueueMark ==
  ASSUME NEW q, QueueOK(q), NEW i \in DOMAIN q, NEW conn \in Conns,
         conn.by = q[i].by, conn.live => q[i].live, conn.sent <=> conn.req # None
  PROVE  Marked(q, i, conn, [q EXCEPT ![i] = conn])
<1> PICK u : u = [q EXCEPT ![i] = conn]
  OBVIOUS
<1>1. q \in Seq(Conns)
  BY DEF QueueOK
<1>2. u \in Seq(Conns) /\ DOMAIN u = DOMAIN q /\ Len(u) = Len(q)
  BY <1>1
<1>3. \A j \in DOMAIN q : u[j] = IF j = i THEN conn ELSE q[j]
  BY <1>1
<1>4. \A j \in DOMAIN q : u[j].by = q[j].by /\ (u[j].live => q[j].live)
                          /\ (u[j].sent <=> u[j].req # None)
  BY <1>3 DEF QueueOK
<1>5. QueueOK(u)
  BY <1>2, <1>4 DEF QueueOK
<1>6. u # <<>> /\ Head(u) = u[1] /\ Head(q) = q[1] /\ q # <<>> /\ 1 \in DOMAIN q
  <2>1. Len(q) > 0 /\ Len(u) > 0
    BY <1>1, <1>2
  <2> QED
    BY <1>1, <1>2, <2>1
<1> QED
  BY <1>2, <1>3, <1>4, <1>5, <1>6 DEF Marked

\* The first connection is done with; of its client there is no live one before.
Shorter(q, u) ==
  /\ QueueOK(u) /\ Head(q) = q[1] /\ q[1] \in Conns
  /\ \A i \in DOMAIN u : \E j \in DOMAIN q : u[i] = q[j]
  /\ q[1].live => \A i \in DOMAIN u : u[i].by # q[1].by

LEMMA QueueTail ==
  ASSUME NEW q, QueueOK(q), q # <<>>
  PROVE  Shorter(q, Tail(q))
<1> PICK u : u = Tail(q)
  OBVIOUS
<1>1. q \in Seq(Conns)
  BY DEF QueueOK
<1>2. /\ Head(q) = q[1] /\ 1 \in DOMAIN q /\ q[1] \in Conns /\ u \in Seq(Conns)
      /\ \A i \in DOMAIN u : i \in Nat \ {0} /\ i + 1 \in DOMAIN q /\ u[i] = q[i + 1]
  BY <1>1, TailParts
<1>3. \A i \in DOMAIN u : u[i].sent <=> u[i].req # None
  BY <1>2 DEF QueueOK
<1>4. \A i, j \in DOMAIN u : i < j /\ u[i].by = u[j].by => ~u[i].live
  <2> SUFFICES ASSUME NEW i \in DOMAIN u, NEW j \in DOMAIN u, i < j, u[i].by = u[j].by
               PROVE  ~u[i].live
    OBVIOUS
  <2>1. i + 1 < j + 1
    BY <1>2
  <2> QED
    BY <1>2, <2>1 DEF QueueOK
<1>5. q[1].live => \A i \in DOMAIN u : u[i].by # q[1].by
  <2> SUFFICES ASSUME q[1].live, NEW i \in DOMAIN u PROVE u[i].by # q[1].by
    OBVIOUS
  <2>1. 1 < i + 1 /\ i + 1 \in DOMAIN q /\ u[i] = q[i + 1]
    BY <1>2
  <2> QED
    BY <1>2, <2>1 DEF QueueOK
<1> QED
  BY <1>2, <1>3, <1>4, <1>5 DEF QueueOK, Shorter

-----------------------------------------------------------------------------
(* The invariant *)

\* What the invariant says of a queue, and what follows for its clients.
LEMMA QueueKnown == InputInv => QueueOK(queue)
BY DEF InputInv, ClientsTold, TypeOK, QueueInv, QueueOK

LEMMA QueueTyped ==
  ASSUME QueueOK(queue')
  PROVE  /\ QueueInv' /\ queue' \in Seq(Conns)
         /\ \A i \in DOMAIN queue' : queue'[i].sent <=> queue'[i].req # None
         /\ \A c \in Client : Cardinality(Live(c)') <= 1
<1>1. \A c \in Client : Cardinality(LiveIn(queue', c)) <= 1
  BY OneLive
<1>2. \A c \in Client : Live(c)' = LiveIn(queue', c)
  BY DEF Live, LiveIn
<1> QED
  BY <1>1, <1>2 DEF QueueOK, QueueInv

\* The request that is carried out.
LEMMA Asked ==
  ASSUME InputInv, phase = "running"
  PROVE  /\ queue # <<>> /\ Head(queue) = queue[1] /\ 1 \in DOMAIN queue
         /\ Head(queue) \in Conns /\ Head(queue).sent
         /\ asked \in Request /\ asked # None
<1>1. queue \in Seq(Conns) /\ queue # <<>> /\ Head(queue).sent
      /\ \A i \in DOMAIN queue : queue[i].sent <=> queue[i].req # None
  BY DEF InputInv, ClientsTold, TypeOK
<1>2. Head(queue) = queue[1] /\ 1 \in DOMAIN queue /\ Head(queue) \in Conns
  BY <1>1
<1>3. asked # None /\ asked \in Request \cup {None}
  BY <1>1, <1>2 DEF asked, Conns
<1> QED
  BY <1>1, <1>2, <1>3

\* Who is begun in time is told in time.
LEMMA Timely ==
  ASSUME TypeOK', TimeInv'
  PROVE  InTime'
<1> SUFFICES ASSUME phase' = "running", Head(queue').live, since' <= 1,
                    Head(queue').req.op = "hold" \/ ~Slow(Head(queue').req)
             PROVE  age'[Head(queue').by] < Patience(Head(queue').req)
  BY DEF InTime
<1>1. /\ queue' \in Seq(Conns) /\ queue' # <<>> /\ Head(queue').sent
      /\ \A i \in DOMAIN queue' : queue'[i].sent <=> queue'[i].req # None
      /\ age' \in [Client -> Nat] /\ since' \in Nat
  BY DEF TypeOK
<1>2. Head(queue') = queue'[1] /\ 1 \in DOMAIN queue' /\ Head(queue') \in Conns
  BY <1>1
<1>3. Head(queue').by \in Client /\ Head(queue').req \in Request
  BY <1>1, <1>2 DEF Conns
<1>4. age'[Head(queue').by] \in Nat /\ Head(queue').req.n \in Nat
  BY <1>1, <1>3, InputAssumption
<1>5. age'[Head(queue').by] <=
        since' + (IF Head(queue').req.op = "hold" THEN Head(queue').req.n ELSE 0)
  BY DEF TimeInv, asked
<1> QED
  BY <1>1, <1>4, <1>5 DEF Patience

\* A daemon that carries out no request.
LEMMA NotRunning ==
  ASSUME TypeOK', QueueInv', OkIsLast', phase' # "running"
  PROVE  InputInv'
<1>1. todo' = <<>>
  BY DEF TypeOK
<1>2. ScriptInv' /\ PointerInv' /\ DownInv' /\ TimeInv' /\ InTime'
  BY <1>1 DEF ScriptInv, PointerInv, PointerOwn, DownInv, TimeInv, InTime
<1> QED
  BY <1>2 DEF InputInv, ClientsTold

\* A step of a client or of the desktop leaves the daemon where it is.
LEMMA Aside ==
  ASSUME InputInv, UNCHANGED <<phase, request, devices>>, TypeOK', QueueInv', OkIsLast',
         phase = "running" =>
           /\ Head(queue').by = Head(queue).by /\ Head(queue').req = Head(queue).req
           /\ Head(queue').live =>
                Head(queue).live /\ age'[Head(queue).by] = age[Head(queue).by]
  PROVE  InputInv'
<1>1. CASE phase # "running"
  BY <1>1, NotRunning
<1>2. CASE phase = "running"
  <2>1. UNCHANGED <<phase, todo, mine, before, since, down, stuck>>
    BY DEF request, devices
  <2>2. asked' = asked
    BY <1>2 DEF asked
  <2>3. ScriptInv' /\ PointerInv' /\ DownInv'
    BY <2>1, <2>2 DEF InputInv, ScriptInv, PointerInv, DownInv
  <2>4. TimeInv'
    BY <1>2, <2>1, <2>2 DEF InputInv, TimeInv
  <2>5. InTime'
    BY <2>4, Timely
  <2> QED
    BY <2>3, <2>4, <2>5 DEF InputInv, ClientsTold
<1> QED
  BY <1>1, <1>2

\* The daemon is left at what it is at.
Undisturbed ==
  /\ UNCHANGED <<phase, request, devices>>
  /\ phase = "running" => Head(queue').req = Head(queue).req

\* A new connection is the last, its client has no other live one.
LEMMA ConnectStep ==
  ASSUME InputInv, NEW c \in Client, Connect(c)
  PROVE  InputInv' /\ Undisturbed
<1>1. /\ QueueOK(queue) /\ TypeOK /\ OkIsLast
      /\ UNCHANGED <<phase, request, slept, devices, pending, age, faults, moves>>
      /\ calls < MaxCalls /\ calls' = calls + 1
      /\ answer' = [answer EXCEPT ![c] = "none"]
      /\ queue' = Append(queue, [by |-> c, req |-> None, sent |-> FALSE, live |-> TRUE])
      /\ LiveIn(queue, c) = {}
  BY QueueKnown DEF Connect, Enqueue, Live, LiveIn, InputInv, ClientsTold
<1>2. /\ QueueOK(queue') /\ queue' # <<>>
      /\ queue # <<>> => Head(queue') = Head(queue)
      /\ \A i \in DOMAIN queue' : queue'[i].by = c \/ (i \in DOMAIN queue /\ queue'[i] = queue[i])
  <2>1. Longer(queue, c, queue')
    BY <1>1, QueueAppend
  <2> QED
    BY <2>1 DEF Longer
<1>3. TypeOK' /\ QueueInv'
  <2>1. calls' \in 0 .. MaxCalls /\ answer' \in [Client -> {"none", "ok", "error"}]
    BY <1>1, InputAssumption DEF TypeOK
  <2>2. phase' = "running" => Head(queue').sent
    BY <1>1, <1>2 DEF TypeOK
  <2> QED
    BY <1>1, <1>2, <2>1, <2>2, QueueTyped DEF TypeOK, request, devices
<1>4. OkIsLast'
  <2>1. answer'[c] = "none" /\ \A d \in Client \ {c} : answer'[d] = answer[d]
    BY <1>1 DEF TypeOK
  <2> QED
    BY <1>1, <1>2, <2>1 DEF OkIsLast
<1>5. phase = "running" => Head(queue') = Head(queue)
  BY <1>1, <1>2 DEF TypeOK
<1> QED
  BY <1>1, <1>3, <1>4, <1>5, Aside DEF Undisturbed

LEMMA Changed ==
  ASSUME NEW conn \in Conns
  PROVE  /\ \A r \in Request :
              LET u == [conn EXCEPT !.sent = TRUE, !.req = r]
              IN  u \in Conns /\ u.by = conn.by /\ u.sent /\ u.req = r /\ u.live = conn.live
         /\ LET u == [conn EXCEPT !.live = FALSE]
            IN  u \in Conns /\ u.by = conn.by /\ u.sent = conn.sent /\ u.req = conn.req
                /\ ~u.live
BY DEF Conns

\* What a client writes is on its one live connection.
LEMMA WriteStep ==
  ASSUME InputInv, NEW c \in Client, NEW r \in Request, Write(c, r)
  PROVE  InputInv' /\ Undisturbed
<1>1. PICK i \in LiveIn(queue, c) :
        /\ ~queue[i].sent
        /\ queue' = [queue EXCEPT ![i].sent = TRUE, ![i].req = r]
        /\ age' = [age EXCEPT ![c] = 0]
        /\ UNCHANGED <<phase, request, slept, devices, pending, answer, calls, faults, moves>>
  BY DEF Write, Live, LiveIn
<1>2. QueueOK(queue) /\ TypeOK /\ OkIsLast /\ queue \in Seq(Conns)
  BY QueueKnown DEF InputInv, ClientsTold, TypeOK
<1>3. i \in DOMAIN queue /\ queue[i].by = c /\ queue[i].live /\ queue[i] \in Conns
  BY <1>1, <1>2 DEF LiveIn
<1>4. PICK conn \in Conns :
        /\ conn.by = c /\ conn.req = r /\ conn.sent /\ conn.live
        /\ queue' = [queue EXCEPT ![i] = conn]
  <2> DEFINE u == [queue[i] EXCEPT !.sent = TRUE, !.req = r]
  <2>1. u \in Conns /\ u.by = queue[i].by /\ u.sent /\ u.req = r /\ u.live = queue[i].live
    BY <1>3, Changed
  <2>2. queue' = [queue EXCEPT ![i] = u]
    BY <1>1, <1>2, <1>3
  <2> HIDE DEF u
  <2> QED
    BY <1>3, <2>1, <2>2
<1>5. Marked(queue, i, conn, queue')
  <2>1. conn.by = queue[i].by /\ (conn.live => queue[i].live) /\ (conn.sent <=> conn.req # None)
    BY <1>3, <1>4, InputAssumption
  <2> QED
    BY <1>2, <1>3, <1>4, <2>1, QueueMark
<1>6. phase = "running" => i # 1 /\ Head(queue') = Head(queue)
                           /\ (Head(queue).live => Head(queue).by # c)
  <2> SUFFICES ASSUME phase = "running"
               PROVE  i # 1 /\ Head(queue') = Head(queue)
                      /\ (Head(queue).live => Head(queue).by # c)
    OBVIOUS
  <2>1. Head(queue) = queue[1] /\ 1 \in DOMAIN queue /\ queue[1].sent
    BY Asked
  <2>2. i # 1
    BY <1>1, <2>1
  <2>3. Head(queue') = Head(queue)
    BY <1>5, <2>1, <2>2 DEF Marked
  <2>4. queue[1].live => queue[1].by # c
    BY <1>1, <1>2, <2>1, <2>2, OneLive DEF LiveIn
  <2> QED
    BY <2>1, <2>2, <2>3, <2>4
<1>7. TypeOK' /\ QueueInv'
  <2>1. age' \in [Client -> Nat]
    BY <1>1, <1>2 DEF TypeOK
  <2>2. phase' = "running" => Head(queue').sent
    BY <1>1, <1>2, <1>6 DEF TypeOK
  <2>3. QueueOK(queue') /\ queue' # <<>>
    BY <1>5 DEF Marked
  <2> QED
    BY <1>1, <1>2, <2>1, <2>2, <2>3, QueueTyped DEF TypeOK, request, devices
<1>8. OkIsLast'
  BY <1>1, <1>2, <1>5 DEF OkIsLast, Marked
<1>9. \A d \in Client \ {c} : age'[d] = age[d]
  BY <1>1, <1>2 DEF TypeOK
<1>10. phase = "running" => Head(queue).by \in Client
  BY Asked DEF Conns
<1> QED
  BY <1>1, <1>6, <1>7, <1>8, <1>9, <1>10, Aside DEF Undisturbed

\* A connection that is given up is not live.
LEMMA LeavesStep ==
  ASSUME InputInv, NEW c \in Client, Leaves(c), faults' \in 0 .. MaxFaults
  PROVE  InputInv' /\ Undisturbed
<1>1. PICK i \in LiveIn(queue, c) :
        /\ queue' = [queue EXCEPT ![i].live = FALSE]
        /\ answer' = [answer EXCEPT ![c] = "error"]
        /\ age' = [age EXCEPT ![c] = 0]
        /\ UNCHANGED <<phase, request, slept, devices, pending, calls, moves>>
  BY DEF Leaves, Live, LiveIn
<1>2. QueueOK(queue) /\ TypeOK /\ OkIsLast /\ queue \in Seq(Conns)
  BY QueueKnown DEF InputInv, ClientsTold, TypeOK
<1>3. i \in DOMAIN queue /\ queue[i].by = c /\ queue[i].live /\ queue[i] \in Conns
      /\ (queue[i].sent <=> queue[i].req # None)
  BY <1>1, <1>2 DEF LiveIn, QueueOK
<1>4. PICK conn \in Conns :
        /\ conn.by = c /\ conn.req = queue[i].req /\ conn.sent = queue[i].sent /\ ~conn.live
        /\ queue' = [queue EXCEPT ![i] = conn]
  <2> DEFINE u == [queue[i] EXCEPT !.live = FALSE]
  <2>1. /\ u \in Conns /\ u.by = queue[i].by /\ u.sent = queue[i].sent
        /\ u.req = queue[i].req /\ ~u.live
    BY <1>3, Changed
  <2>2. queue' = [queue EXCEPT ![i] = u]
    BY <1>1, <1>2, <1>3
  <2> HIDE DEF u
  <2> QED
    BY <1>3, <2>1, <2>2
<1>5. Marked(queue, i, conn, queue')
  <2>1. conn.by = queue[i].by /\ ~conn.live /\ (conn.sent <=> conn.req # None)
    BY <1>3, <1>4
  <2> QED
    BY <1>2, <1>3, <1>4, <2>1, QueueMark
<1>6. phase = "running" =>
        /\ Head(queue').by = Head(queue).by /\ Head(queue').req = Head(queue).req
        /\ Head(queue').sent
        /\ Head(queue').live => Head(queue).live /\ Head(queue).by # c
  <2> SUFFICES ASSUME phase = "running"
               PROVE  /\ Head(queue').by = Head(queue).by /\ Head(queue').req = Head(queue).req
                      /\ Head(queue').sent
                      /\ Head(queue').live => Head(queue).live /\ Head(queue).by # c
    OBVIOUS
  <2>1. Head(queue) = queue[1] /\ 1 \in DOMAIN queue /\ queue[1].sent
    BY Asked
  <2>2. Head(queue') = queue'[1]
    BY <1>5 DEF Marked
  <2>3. CASE i = 1
    <3>1. queue'[1] = conn
      BY <1>5, <2>3 DEF Marked
    <3> QED
      BY <1>3, <1>4, <2>1, <2>2, <2>3, <3>1
  <2>4. CASE i # 1
    <3>1. queue'[1] = queue[1]
      BY <1>5, <2>1, <2>4 DEF Marked
    <3>2. queue[1].live => queue[1].by # c
      <4> SUFFICES ASSUME 1 \in LiveIn(queue, c) PROVE FALSE
        BY <2>1 DEF LiveIn
      <4> QED
        BY <1>1, <1>2, <2>4, OneLive
    <3> QED
      BY <2>1, <2>2, <3>1, <3>2
  <2> QED
    BY <2>3, <2>4
<1>7. TypeOK' /\ QueueInv'
  <2>1. age' \in [Client -> Nat] /\ answer' \in [Client -> {"none", "ok", "error"}]
    BY <1>1, <1>2 DEF TypeOK
  <2>2. phase' = "running" => Head(queue').sent
    BY <1>1, <1>6
  <2>3. QueueOK(queue') /\ queue' # <<>>
    BY <1>5 DEF Marked
  <2> QED
    BY <1>1, <1>2, <2>1, <2>2, <2>3, QueueTyped DEF TypeOK, request, devices
<1>8. OkIsLast'
  <2>1. answer'[c] = "error" /\ \A d \in Client \ {c} : answer'[d] = answer[d]
    BY <1>1, <1>2 DEF TypeOK
  <2> QED
    BY <1>2, <1>5, <2>1 DEF OkIsLast, Marked
<1>9. \A d \in Client \ {c} : age'[d] = age[d]
  BY <1>1, <1>2 DEF TypeOK
<1>10. phase = "running" => Head(queue).by \in Client
  BY Asked DEF Conns
<1> QED
  BY <1>1, <1>6, <1>7, <1>8, <1>9, <1>10, Aside DEF Undisturbed

LEMMA DesktopStep ==
  ASSUME InputInv, DesktopChanges
  PROVE  InputInv'
<1>1. /\ TypeOK /\ QueueInv /\ OkIsLast /\ moves < MaxMoves /\ moves' = moves + 1
      /\ pending' = TRUE
      /\ UNCHANGED <<queue, phase, request, slept, devices, clients, faults>>
  BY DEF DesktopChanges, InputInv, ClientsTold
<1>2. moves' \in 0 .. MaxMoves
  BY <1>1, InputAssumption DEF TypeOK
<1>3. TypeOK' /\ QueueInv' /\ OkIsLast'
  BY <1>1, <1>2 DEF TypeOK, QueueInv, OkIsLast, request, devices, clients, Live
<1> QED
  BY <1>1, <1>3, Aside DEF clients

\* The steps of a daemon that is between requests, or comes to be.
LEMMA IdleStep ==
  ASSUME InputInv, Accept \/ Restart
  PROVE  InputInv'
<1>1. /\ TypeOK /\ QueueInv /\ OkIsLast /\ phase # "running"
      /\ phase' \in {"idle", "reading"} /\ (phase' = "reading" => queue # <<>>)
      /\ slept' \in 0 .. 1
      /\ UNCHANGED <<queue, request, devices, pending, clients, faults, moves>>
  BY DEF Accept, Restart, InputInv, ClientsTold, TypeOK
<1>2. TypeOK' /\ QueueInv' /\ OkIsLast'
  BY <1>1 DEF TypeOK, QueueInv, OkIsLast, request, devices, clients, Live
<1> QED
  BY <1>1, <1>2, NotRunning

\* The end of the daemon.
LEMMA CrashStep ==
  ASSUME InputInv, Crash
  PROVE  InputInv'
<1>1. /\ TypeOK /\ queue' = <<>> /\ phase' = "dead" /\ todo' = <<>> /\ failed' = FALSE
      /\ mine' = {} /\ before' = {} /\ since' = 0 /\ slept' = 0 /\ down' = {} /\ stuck' = {}
      /\ pending' = FALSE /\ faults < MaxFaults /\ faults' = faults + 1
      /\ answer' = [c \in Client |-> IF Live(c) # {} THEN "error" ELSE answer[c]]
      /\ age' = [c \in Client |-> 0] /\ UNCHANGED <<calls, moves>>
  BY DEF Crash, InputInv, ClientsTold
<1>2. /\ faults' \in 0 .. MaxFaults /\ age' \in [Client -> Nat]
      /\ answer' \in [Client -> {"none", "ok", "error"}]
  BY <1>1, InputAssumption DEF TypeOK
<1>3. QueueOK(queue')
  BY <1>1 DEF QueueOK
<1>4. QueueInv' /\ OkIsLast'
  BY <1>1 DEF QueueInv, OkIsLast
<1>5. TypeOK'
  <2>1. /\ queue' \in Seq(Conns) /\ \A c \in Client : Cardinality(Live(c)') <= 1
        /\ \A i \in DOMAIN queue' : queue'[i].sent <=> queue'[i].req # None
    BY <1>3, QueueTyped
  <2>2. phase' \notin {"reading", "running"} /\ phase' \in {"idle", "reading", "running", "dead"}
    BY <1>1
  <2>3. /\ todo' \in Seq(Steps) /\ failed' \in BOOLEAN /\ mine' \subseteq Codes /\ slept' \in 0 .. 1
        /\ down' \subseteq Codes /\ stuck' \subseteq down' /\ before' \subseteq Codes
        /\ pending' \in BOOLEAN /\ since' \in Nat
        /\ calls' \in 0 .. MaxCalls /\ moves' \in 0 .. MaxMoves
    <3>1. calls' \in 0 .. MaxCalls /\ moves' \in 0 .. MaxMoves
      BY <1>1, Zenon DEF TypeOK
    <3>2. todo' \in Seq(Steps)
      BY <1>1
    <3>3. /\ mine' \subseteq Codes /\ slept' \in 0 .. 1
          /\ down' \subseteq Codes /\ stuck' \subseteq down' /\ before' \subseteq Codes
          /\ since' \in Nat
      BY <1>1
    <3>4. failed' \in BOOLEAN /\ pending' \in BOOLEAN
      BY <1>1, Zenon
    <3> QED
      BY <3>1, <3>2, <3>3, <3>4
  <2> QED
    BY <1>1, <1>2, <2>1, <2>2, <2>3 DEF TypeOK
<1> QED
  BY <1>1, <1>4, <1>5, NotRunning

\* The connection that is answered is the first, and who is told "ok" has no other.
LEMMA CloseStep ==
  ASSUME InputInv, NEW told \in {"ok", "error"}, Close(told), phase \in {"reading", "running"},
         todo' = <<>>, failed' \in BOOLEAN, mine' = {}, before' \subseteq Codes, since' \in Nat,
         slept' \in 0 .. 1, UNCHANGED <<devices, pending, calls, faults, moves>>
  PROVE  InputInv'
<1>1. /\ TypeOK /\ OkIsLast /\ QueueOK(queue) /\ queue # <<>>
      /\ phase' = "idle" /\ queue' = Tail(queue)
  BY QueueKnown DEF InputInv, ClientsTold, TypeOK, Close
<1>2. Shorter(queue, queue')
  BY <1>1, QueueTail
<1>3. PICK conn \in Conns : conn = Head(queue) /\ conn = queue[1]
  BY <1>2 DEF Shorter
<1>4. /\ conn.live => /\ answer' = [answer EXCEPT ![conn.by] = told]
                      /\ age' = [age EXCEPT ![conn.by] = 0]
      /\ ~conn.live => UNCHANGED <<answer, age>>
  BY <1>3 DEF Close
<1>5. answer' \in [Client -> {"none", "ok", "error"}] /\ age' \in [Client -> Nat]
  <2>1. answer \in [Client -> {"none", "ok", "error"}] /\ age \in [Client -> Nat]
    BY <1>1 DEF TypeOK
  <2>2. CASE conn.live
    <3>1. /\ answer' = [answer EXCEPT ![conn.by] = told]
          /\ age' = [age EXCEPT ![conn.by] = 0]
      BY <1>4, <2>2
    <3>2. told \in {"none", "ok", "error"}
      OBVIOUS
    <3> QED
      BY <2>1, <3>1, <3>2
  <2>3. CASE ~conn.live
    BY <1>4, <2>1, <2>3
  <2> QED
    BY <2>2, <2>3
<1>6. QueueInv' /\ TypeOK'
  <2>1. QueueOK(queue')
    BY <1>2 DEF Shorter
  <2> QED
    BY <1>1, <1>5, <2>1, QueueTyped DEF TypeOK, devices
<1>7. OkIsLast'
  <2> SUFFICES ASSUME NEW c \in Client, answer'[c] = "ok", NEW i \in DOMAIN queue'
               PROVE  queue'[i].by # c
    BY DEF OkIsLast
  <2>1. CASE conn.live /\ conn.by = c
    BY <1>2, <1>3, <2>1 DEF Shorter
  <2>2. CASE ~(conn.live /\ conn.by = c)
    <3>1. answer[c] = "ok"
      BY <1>1, <1>4, <2>2 DEF TypeOK
    <3>2. \A j \in DOMAIN queue : queue[j].by # c
      BY <1>1, <3>1 DEF OkIsLast
    <3> QED
      BY <1>2, <3>2 DEF Shorter
  <2> QED
    BY <2>1, <2>2
<1> QED
  BY <1>1, <1>6, <1>7, NotRunning

LEMMA AnswerStep ==
  ASSUME InputInv, HangsUp \/ ReadTimesOut \/ Reply
  PROVE  InputInv'
<1>1. TypeOK
  BY DEF InputInv, ClientsTold
<1>2. CASE HangsUp \/ ReadTimesOut
  <2>1. /\ Close("error") /\ phase = "reading" /\ slept' = 0
        /\ UNCHANGED <<request, devices, pending, calls, faults, moves>>
    BY <1>2 DEF HangsUp, ReadTimesOut
  <2>2. /\ todo' = <<>> /\ failed' \in BOOLEAN /\ mine' = {} /\ before' \subseteq Codes
        /\ since' \in Nat
    BY <1>1, <2>1 DEF TypeOK, request
  <2> QED
    BY <2>1, <2>2, CloseStep
<1>3. CASE Reply
  <2>1. \E told \in {"ok", "error"} : Close(told)
    BY <1>3 DEF Reply
  <2>2. /\ phase = "running" /\ todo' = <<>> /\ failed' \in BOOLEAN /\ mine' = {}
        /\ before' \subseteq Codes /\ since' \in Nat /\ slept' \in 0 .. 1
        /\ UNCHANGED <<devices, pending, calls, faults, moves>>
    BY <1>1, <1>3 DEF Reply, Ended, TypeOK
  <2> QED
    BY <2>1, <2>2, CloseStep
<1> QED
  BY <1>2, <1>3

-----------------------------------------------------------------------------
(* A request is carried out. *)

\* What the invariant says of the steps left, and the other way.
LEMMA ShapeKnown ==
  ASSUME InputInv, phase = "running"
  PROVE  Shape(todo, asked) /\ Owed(todo, asked, mine)
BY DEF InputInv, ClientsTold, TypeOK, ScriptInv, PointerInv, Shape, Owed

LEMMA RunStep ==
  ASSUME InputInv, phase' = "running", UNCHANGED <<queue, answer>>, TypeOK',
         Shape(todo', asked), Owed(todo', asked, mine'), DownInv', TimeInv'
  PROVE  InputInv'
<1>1. asked' = asked
  BY DEF asked
<1>2. ScriptInv' /\ PointerInv'
  BY <1>1 DEF Shape, Owed, ScriptInv, PointerInv
<1>3. QueueInv' /\ OkIsLast'
  BY DEF InputInv, ClientsTold, QueueInv, OkIsLast
<1>4. InTime'
  BY Timely
<1> QED
  BY <1>2, <1>3, <1>4 DEF InputInv, ClientsTold

\* What is read is a request's script, perhaps with a new pointer first.
LEMMA ReadSteps ==
  ASSUME NEW r \in Request, NEW t,
         t = IF r.op = "bad" THEN <<Refusal>> ELSE SyncPointer \o Script(r)
  PROVE  Sound(t, r)
<1>1. Sound(Script(r), r)
  BY ScriptSound
<1>2. CASE r.op = "bad"
  <2>1. Script(r) = <<Refusal>>
    BY <1>2 DEF Script
  <2> QED
    BY <1>1, <1>2, <2>1
<1>3. CASE r.op # "bad"
  <2> PICK s \in Seq(Steps) : s = Script(r)
    BY <1>1 DEF Sound, Shape
  <2>1. PICK o \in Nat : Behind(t, s, o)
    BY <1>3, AfterSync
  <2>2. /\ Shape(t, r)
        /\ \A i \in DOMAIN t : t[i].does = "wait" =>
             i \in Nat /\ i - o \in DOMAIN s /\ s[i - o].does = "wait"
    BY <1>1, <2>1, BehindShape DEF Sound
  <2>3. ASSUME r.op = "hold" \/ ~Slow(r), NEW i \in DOMAIN t, NEW j \in DOMAIN t,
               t[i].does = "wait", t[j].does = "wait"
        PROVE  r.op = "hold" /\ j - i + 1 <= r.n
    <3>1. r.op = "hold" /\ (j - o) - (i - o) + 1 <= r.n
      BY <1>1, <2>2, <2>3 DEF Sound
    <3>2. (j - o) - (i - o) = j - i
      BY <2>2, <2>3
    <3> QED
      BY <3>1, <3>2
  <2> QED
    BY <2>2, <2>3 DEF Sound
<1> QED
  BY <1>2, <1>3

LEMMA ReadStep ==
  ASSUME InputInv, ReadRequest
  PROVE  InputInv'
<1>1. /\ TypeOK /\ OkIsLast /\ QueueInv /\ phase = "reading" /\ phase' = "running"
      /\ Head(queue).sent /\ queue # <<>>
      /\ todo' = IF Head(queue).req.op = "bad" THEN <<Refusal>>
                 ELSE SyncPointer \o Script(Head(queue).req)
      /\ pending' = (pending /\ Head(queue).req.op = "bad")
      /\ failed' = FALSE /\ mine' = {} /\ before' = down \ stuck /\ slept' = 0
      /\ since' = IF Head(queue).live THEN age[Head(queue).by] ELSE 0
      /\ UNCHANGED <<queue, devices, clients, faults, moves>>
  BY DEF ReadRequest, InputInv, ClientsTold, TypeOK
<1>2. PICK conn \in Conns : conn = Head(queue) /\ conn = queue[1] /\ conn.req \in Request
  <2>1. /\ queue \in Seq(Conns) /\ Head(queue) = queue[1] /\ 1 \in DOMAIN queue
        /\ queue[1].req # None /\ queue[1] \in Conns
    BY <1>1 DEF TypeOK
  <2> QED
    BY <2>1 DEF Conns
<1>3. Sound(todo', asked)
  BY <1>1, <1>2, ReadSteps DEF asked
<1>4. asked = conn.req
  BY <1>2 DEF asked
<1>5. TypeOK'
  <2>1. todo' \in Seq(Steps)
    BY <1>3 DEF Sound, Shape
  <2>2. since' \in Nat
    BY <1>1, <1>2 DEF TypeOK, Conns
  <2>3. before' \subseteq Codes /\ mine' \subseteq Codes /\ slept' \in 0 .. 1
    BY <1>1 DEF TypeOK
  <2>4. failed' \in BOOLEAN /\ pending' \in BOOLEAN
    BY <1>1, Zenon
  <2>5. \A c \in Client : Live(c)' = Live(c)
    BY <1>1 DEF Live
  <2> QED
    BY <1>1, <2>1, <2>2, <2>3, <2>4, <2>5 DEF TypeOK, devices, clients
<1>6. Owed(todo', asked, mine')
  BY <1>1 DEF Owed
<1>7. DownInv'
  BY <1>1 DEF DownInv, TypeOK, devices
<1>8. TimeInv'
  <2> SUFFICES ASSUME conn.live, asked.op = "hold" \/ ~Slow(asked)
               PROVE  /\ age[conn.by] <= since' + (IF asked.op = "hold" THEN asked.n ELSE 0)
                      /\ \A i, j \in DOMAIN todo' :
                           todo'[i].does = "wait" /\ todo'[j].does = "wait" =>
                             asked.op = "hold" /\ age[conn.by] + j - i + 1 <= since' + asked.n
    BY <1>1, <1>2, <1>4, Zenon DEF TimeInv, asked, clients
  <2>1. since' = age[conn.by] /\ since' \in Nat
    BY <1>1, <1>2 DEF TypeOK, Conns
  <2>2. asked.n \in Nat
    BY <1>2, <1>4, InputAssumption
  <2>3. ASSUME NEW i \in DOMAIN todo', NEW j \in DOMAIN todo',
               todo'[i].does = "wait", todo'[j].does = "wait"
        PROVE  asked.op = "hold" /\ age[conn.by] + j - i + 1 <= since' + asked.n
    <3>1. asked.op = "hold" /\ j - i + 1 <= asked.n
      BY <1>3, <2>3 DEF Sound
    <3>2. i \in Int /\ j \in Int
      BY <1>3 DEF Sound, Shape
    <3> QED
      BY <2>1, <2>2, <3>1, <3>2
  <2> QED
    BY <2>1, <2>2, <2>3
<1> QED
  BY <1>1, <1>3, <1>5, <1>6, <1>7, <1>8, RunStep DEF Sound, clients

\* What is known of the first step that is left, and of what comes after it.
Known(s, u) ==
  /\ s \in Steps
  /\ s.does \notin {"press", "release"} => s.key \notin Codes
  /\ s.does \in {"press", "release"} => s.key \in Codes
  /\ s.does = "replace" => Replacing(todo, 1)
  /\ s.does \notin {"replace", "release"} => ~Replacing(todo, 1)
  /\ s.does = "release" /\ Replacing(todo, 1) =>
       s.key \in Button /\ ~s.tells /\ Replacing(u, 1)
  /\ s.does = "release" /\ ~Replacing(todo, 1) => s.key \in Frees(asked)

LEMMA FirstStep ==
  ASSUME InputInv, phase = "running", todo # <<>>
  PROVE  /\ Head(todo) = todo[1] /\ todo \in Seq(Steps)
         /\ Shape(todo, asked) /\ Owed(todo, asked, mine)
         /\ Shape(Tail(todo), asked) /\ Shape(OnlyDue(Tail(todo)), asked)
         /\ Known(todo[1], Tail(todo))
<1> PICK s : s = todo[1]
  OBVIOUS
<1> PICK u : u = Tail(todo)
  OBVIOUS
<1>1. Shape(todo, asked) /\ Owed(todo, asked, mine) /\ todo \in Seq(Steps)
  BY ShapeKnown DEF Shape
<1>2. /\ Head(todo) = s /\ 1 \in DOMAIN todo /\ s \in Steps
      /\ \A i \in DOMAIN u : i \in Nat \ {0} /\ i + 1 \in DOMAIN todo /\ u[i] = todo[i + 1]
      /\ \A i \in DOMAIN todo :
           i \in Nat \ {0} /\ (i # 1 => i - 1 \in DOMAIN u /\ u[i - 1] = todo[i])
  BY <1>1, TailParts
<1>3. Shape(u, asked)
  BY <1>1, TailShape
<1>4. Shape(OnlyDue(u), asked)
  BY <1>3, DueShape
<1>5. /\ s.does \notin {"press", "release"} => s.key \notin Codes
      /\ s.does \in {"press", "release"} => s.key \in Codes
  BY <1>2, InputAssumption DEF Steps
<1>6. s.does = "replace" => Replacing(todo, 1)
  <2>1. 1 <= 1 /\ \A k \in DOMAIN todo : ~(1 <= k /\ k < 1)
    BY <1>2
  <2> QED
    BY <1>2, <2>1 DEF Replacing
<1>7. ASSUME Replacing(todo, 1), s.does # "replace"
      PROVE  s.does = "release" /\ s.key \in Button /\ ~s.tells /\ Replacing(u, 1)
  <2>1. PICK j \in DOMAIN todo :
          /\ 1 <= j /\ todo[j].does = "replace"
          /\ \A k \in DOMAIN todo : 1 <= k /\ k < j =>
               /\ todo[k].does = "release" /\ todo[k].key \in Button
               /\ ~todo[k].tells /\ ~todo[k].due
    BY <1>7 DEF Replacing
  <2>2. j # 1 /\ j \in Nat \ {0} /\ 1 < j /\ 1 <= 1
    BY <1>2, <1>7, <2>1
  <2>3. s.does = "release" /\ s.key \in Button /\ ~s.tells
    BY <1>2, <2>1, <2>2
  <2>4. j - 1 \in DOMAIN u /\ 1 <= j - 1 /\ u[j - 1].does = "replace"
    BY <1>2, <2>1, <2>2
  <2>5. ASSUME NEW k \in DOMAIN u, 1 <= k, k < j - 1
        PROVE  u[k].does = "release" /\ u[k].key \in Button /\ ~u[k].tells /\ ~u[k].due
    <3>1. k + 1 \in DOMAIN todo /\ u[k] = todo[k + 1] /\ 1 <= k + 1 /\ k + 1 < j
      BY <1>2, <2>2, <2>5
    <3> QED
      BY <2>1, <3>1
  <2> QED
    BY <2>3, <2>4, <2>5 DEF Replacing
<1>8. s.does = "release" /\ ~Replacing(todo, 1) => s.key \in Frees(asked)
  BY <1>1, <1>2 DEF Shape, PointerOwn
<1>9. Known(s, u)
  BY <1>2, <1>5, <1>6, <1>7, <1>8 DEF Known
<1> QED
  BY <1>1, <1>2, <1>3, <1>4, <1>9

\* No step takes time, and what is left of the waiting comes one step sooner.
LEMMA TimeKept ==
  ASSUME InputInv, phase = "running", todo # <<>>, UNCHANGED <<queue, phase, age, since>>,
         todo' \in {Tail(todo), OnlyDue(Tail(todo))}
  PROVE  TimeInv'
<1>1. /\ Head(queue) \in Conns /\ asked \in Request /\ asked' = asked
      /\ Head(queue') = Head(queue)
  BY Asked DEF asked
<1>2. age[Head(queue).by] \in Nat /\ since \in Nat /\ asked.n \in Nat
  BY <1>1, InputAssumption DEF InputInv, ClientsTold, TypeOK, Conns
<1> SUFFICES ASSUME Head(queue).live, asked.op = "hold" \/ ~Slow(asked),
                    NEW i \in DOMAIN todo', NEW j \in DOMAIN todo',
                    todo'[i].does = "wait", todo'[j].does = "wait"
             PROVE  asked.op = "hold" /\ age[Head(queue).by] + j - i + 1 <= since + asked.n
  BY <1>1, Zenon DEF InputInv, TimeInv
<1>3. todo \in Seq(Steps) /\ Shape(Tail(todo), asked)
  BY FirstStep
<1>4. CASE todo' = OnlyDue(Tail(todo))
  <2>1. \A l \in DOMAIN todo' : todo'[l].does = "release"
    BY <1>3, <1>4, DueShape
  <2> QED
    BY <2>1
<1>5. CASE todo' = Tail(todo)
  <2>1. /\ i \in Nat \ {0} /\ i + 1 \in DOMAIN todo /\ todo'[i] = todo[i + 1]
        /\ j \in Nat \ {0} /\ j + 1 \in DOMAIN todo /\ todo'[j] = todo[j + 1]
    BY <1>3, <1>5, TailParts
  <2>2. asked.op = "hold" /\ age[Head(queue).by] + (j + 1) - (i + 1) + 1 <= since + asked.n
    BY <2>1 DEF InputInv, TimeInv
  <2> QED
    BY <1>2, <2>1, <2>2
<1> QED
  BY <1>4, <1>5

\* An event that is emitted.
LEMMA EmitStep ==
  ASSUME InputInv, Emit
  PROVE  InputInv'
<1> PICK s : s = todo[1]
  OBVIOUS
<1> PICK u : u = Tail(todo)
  OBVIOUS
<1>1. /\ TypeOK /\ phase = "running" /\ todo # <<>> /\ DownInv
      /\ UNCHANGED <<queue, phase, failed, since, slept, pending, clients, faults, moves>>
  BY DEF Emit, InputInv, ClientsTold
<1>2. /\ Head(todo) = s /\ Shape(todo, asked) /\ Owed(todo, asked, mine) /\ Shape(u, asked)
      /\ Known(s, u)
  BY <1>1, FirstStep
<1>3. /\ todo' = u
      /\ down' = CASE s.does = "press" -> down \cup {s.key}
                   [] s.does = "release" -> down \ {s.key}
                   [] s.does = "replace" -> down \ Button
                   [] s.does \in {"move", "answer"} -> down
      /\ stuck' = (stuck \ {s.key}) \cap down'
      /\ mine' = IF s.does = "press" THEN mine \cup {s.key} ELSE mine \ {s.key}
      /\ before' = IF s.does = "replace" THEN before \ Button ELSE before
      /\ s.does \in {"press", "release", "replace", "move", "answer"}
  BY <1>2 DEF Emit, Known, Steps
<1>4. /\ down \subseteq Codes /\ stuck \subseteq down /\ before \subseteq Codes
      /\ mine \subseteq Codes
  BY <1>1 DEF TypeOK
<1>5. /\ down' \subseteq Codes /\ stuck' \subseteq down' /\ before' \subseteq Codes
      /\ mine' \subseteq Codes
  BY <1>2, <1>3, <1>4 DEF Known
<1>6. TypeOK'
  <2>1. todo' \in Seq(Steps)
    BY <1>2, <1>3 DEF Shape
  <2>2. \A c \in Client : Live(c)' = Live(c)
    BY <1>1 DEF Live
  <2> QED
    BY <1>1, <1>5, <2>1, <2>2 DEF TypeOK, clients
<1>7. Owed(todo', asked, mine')
  BY <1>1, <1>2, <1>3, EmitOwes
<1>8. DownInv'
  <2> DEFINE P == Replacing(todo, 1)
             Q == Replacing(u, 1)
             F == Frees(asked)
  <2>1. /\ down \ stuck \subseteq before \cup mine
        /\ stuck \cap (before \cup mine) = {}
        /\ before \ down \subseteq F \cup Button
        /\ ~P => before \ down \subseteq F
    BY <1>1 DEF DownInv
  <2>2. /\ s.does \notin {"press", "release"} => s.key \notin Codes
        /\ s.does \notin {"replace", "release"} => ~P
        /\ s.does = "release" /\ P => s.key \in Button /\ Q
        /\ s.does = "release" /\ ~P => s.key \in F
    BY <1>2 DEF Known
  <2> HIDE DEF P, Q, F
  <2>4. /\ down' \ stuck' \subseteq before' \cup mine'
        /\ stuck' \cap (before' \cup mine') = {}
    <3>1. CASE s.does = "press"
      BY <1>3, <2>1, <3>1
    <3>2. CASE s.does = "release"
      BY <1>3, <2>1, <3>2
    <3>3. CASE s.does = "replace"
      BY <1>3, <1>4, <2>1, <2>2, <3>3
    <3>4. CASE s.does \in {"move", "answer"}
      BY <1>3, <1>4, <2>1, <2>2, <3>4
    <3> QED
      BY <1>3, <3>1, <3>2, <3>3, <3>4
  <2>5. /\ before' \ down' \subseteq F \cup Button
        /\ ~Q => before' \ down' \subseteq F
    <3>1. CASE s.does = "press"
      BY <1>3, <2>1, <2>2, <3>1
    <3>2. CASE s.does = "release"
      BY <1>3, <2>1, <2>2, <3>2
    <3>3. CASE s.does = "replace"
      <4>1. before' \ down' = (before \ down) \ Button
        BY <1>3, <3>3
      <4> QED
        BY <2>1, <4>1
    <3>4. CASE s.does \in {"move", "answer"}
      BY <1>3, <2>1, <2>2, <3>4
    <3> QED
      BY <1>3, <3>1, <3>2, <3>3, <3>4
  <2>6. asked' = asked
    BY <1>1 DEF asked
  <2>7. F = Frees(asked')
    BY <2>6 DEF F
  <2> QED
    BY <1>3, <2>4, <2>5, <2>6, <2>7 DEF DownInv, Q
<1>9. TimeInv'
  BY <1>1, <1>3, TimeKept DEF clients
<1> QED
  BY <1>1, <1>2, <1>3, <1>6, <1>7, <1>8, <1>9, RunStep DEF clients

\* An event that is not, or a request that is refused.
LEMMA EmitFailsStep ==
  ASSUME InputInv, EmitFails
  PROVE  InputInv'
<1> PICK s : s = todo[1]
  OBVIOUS
<1> PICK u : u = Tail(todo)
  OBVIOUS
<1>1. /\ TypeOK /\ phase = "running" /\ todo # <<>> /\ DownInv
      /\ UNCHANGED <<queue, phase, since, slept, down, pending, clients, moves>>
  BY DEF EmitFails, InputInv, ClientsTold
<1>2. /\ Head(todo) = s /\ Shape(todo, asked) /\ Owed(todo, asked, mine)
      /\ Shape(u, asked) /\ Shape(OnlyDue(u), asked) /\ Known(s, u)
  BY <1>1, FirstStep
<1>3. /\ s.does \notin {"wait", "sync"}
      /\ IF s.does = "refuse" THEN UNCHANGED faults
         ELSE faults < MaxFaults /\ faults' = faults + 1
      /\ todo' = IF s.tells THEN OnlyDue(u) ELSE u
      /\ failed' = (failed \/ s.tells)
      /\ mine' = IF s.does = "release" THEN mine \ {s.key} ELSE mine
      /\ stuck' = IF s.does = "release" THEN stuck \cup ((down \cap {s.key}) \ before) ELSE stuck
      /\ before' = IF s.does = "replace" THEN before \ (Button \ down) ELSE before
  BY <1>2, Zenon DEF EmitFails
<1>4. /\ down \subseteq Codes /\ stuck \subseteq down /\ before \subseteq Codes
      /\ mine \subseteq Codes /\ s \in Steps
  BY <1>1, <1>2 DEF TypeOK, Known
<1>5. Shape(todo', asked)
  BY <1>2, <1>3
<1>6. TypeOK'
  <2>1. todo' \in Seq(Steps)
    BY <1>5 DEF Shape
  <2>2. \A c \in Client : Live(c)' = Live(c)
    BY <1>1 DEF Live
  <2>3. failed' \in BOOLEAN
    BY <1>3, Zenon
  <2>4. faults' \in 0 .. MaxFaults
    BY <1>1, <1>3, InputAssumption DEF TypeOK
  <2>5. /\ down' \subseteq Codes /\ stuck' \subseteq down' /\ before' \subseteq Codes
        /\ mine' \subseteq Codes
    BY <1>1, <1>3, <1>4
  <2> QED
    BY <1>1, <2>1, <2>2, <2>3, <2>4, <2>5 DEF TypeOK, clients
<1>7. Owed(todo', asked, mine')
  BY <1>1, <1>2, <1>3, FailOwes
<1>8. DownInv'
  <2> DEFINE P == Replacing(todo, 1)
             Q == Replacing(todo', 1)
             F == Frees(asked)
  <2>1. /\ down \ stuck \subseteq before \cup mine
        /\ stuck \cap (before \cup mine) = {}
        /\ before \ down \subseteq F \cup Button
        /\ ~P => before \ down \subseteq F
    BY <1>1 DEF DownInv
  <2>2. P => s.does = "replace" \/ Q
    <3>1. P /\ s.does # "replace" => ~s.tells /\ Replacing(u, 1)
      BY <1>2 DEF Known
    <3> HIDE DEF P
    <3> QED
      BY <1>3, <3>1
  <2> HIDE DEF P, Q, F
  <2>4. /\ down \ stuck' \subseteq before' \cup mine'
        /\ stuck' \cap (before' \cup mine') = {}
    <3>1. CASE s.does = "release"
      BY <1>3, <2>1, <3>1
    <3>2. CASE s.does = "replace"
      BY <1>3, <1>4, <2>1, <3>2
    <3>3. CASE s.does \notin {"release", "replace"}
      BY <1>3, <2>1, <3>3
    <3> QED
      BY <3>1, <3>2, <3>3
  <2>5. /\ before' \ down \subseteq F \cup Button
        /\ ~Q => before' \ down \subseteq F
    <3>1. CASE s.does = "replace"
      <4>1. before' \ down \subseteq (before \ down) \ Button
        BY <1>3, <3>1
      <4> QED
        BY <2>1, <4>1
    <3>2. CASE s.does # "replace"
      BY <1>3, <2>1, <2>2, <3>2
    <3> QED
      BY <3>1, <3>2
  <2>6. asked' = asked /\ down' = down
    BY <1>1 DEF asked
  <2>7. F = Frees(asked')
    BY <2>6 DEF F
  <2> QED
    BY <2>4, <2>5, <2>6, <2>7 DEF DownInv, Q
<1>9. TimeInv'
  BY <1>1, <1>3, TimeKept DEF clients
<1> QED
  BY <1>1, <1>5, <1>6, <1>7, <1>8, <1>9, RunStep DEF clients

\* The pointer follows: the steps for it come before what is left.
LEMMA FollowsStep ==
  ASSUME InputInv, Follows
  PROVE  InputInv'
<1> PICK u : u = Tail(todo)
  OBVIOUS
<1>1. /\ TypeOK /\ DownInv /\ phase = "running" /\ todo # <<>> /\ Head(todo).does = "sync"
      /\ todo' = SyncPointer \o u /\ pending' = FALSE
      /\ UNCHANGED <<queue, phase, failed, mine, before, since, slept, devices, clients, faults,
                     moves>>
  BY DEF Follows, InputInv, ClientsTold
<1>2. /\ todo[1].does = "sync" /\ todo \in Seq(Steps) /\ Shape(u, asked)
      /\ Owed(todo, asked, mine) /\ ~Replacing(todo, 1)
  BY <1>1, FirstStep DEF Known
<1>3. /\ u \in Seq(Steps)
      /\ \A i \in DOMAIN u : i \in Nat \ {0} /\ i + 1 \in DOMAIN todo /\ u[i] = todo[i + 1]
      /\ \A i \in DOMAIN todo :
           i \in Nat \ {0} /\ (i # 1 => i - 1 \in DOMAIN u /\ u[i - 1] = todo[i])
  BY <1>1, <1>2, TailParts
<1>4. PICK o \in Nat : Behind(todo', u, o)
  BY <1>1, <1>3, AfterSync
<1>5. /\ Shape(todo', asked)
      /\ \A i \in DOMAIN todo' : todo'[i].does = "wait" =>
           i \in Nat /\ i - o \in DOMAIN u /\ u[i - o].does = "wait"
      /\ \A i \in DOMAIN u : o + i \in DOMAIN todo' /\ todo'[o + i] = u[i]
  <2>1. \A i \in DOMAIN u : o + i \in DOMAIN todo' /\ todo'[o + i] = u[i]
    BY <1>4 DEF Behind
  <2>2. /\ Shape(todo', asked)
        /\ \A i \in DOMAIN todo' : todo'[i].does = "wait" =>
             i \in Nat /\ i - o \in DOMAIN u /\ u[i - o].does = "wait"
    BY <1>2, <1>4, BehindShape, Zenon
  <2> QED
    BY <2>1, <2>2
<1>6. asked' = asked /\ UNCHANGED <<down, stuck>>
  BY <1>1 DEF asked, devices
<1>7. Owed(todo', asked, mine')
  <2> SUFFICES ASSUME asked.op # "press", NEW k \in mine
               PROVE  \E j \in DOMAIN todo' : LetsGo(todo'[j], k) /\ (j = 1 \/ todo'[j].due)
    BY <1>1, <1>2 DEF Owed
  <2>1. PICK j \in DOMAIN todo : LetsGo(todo[j], k) /\ (j = 1 \/ todo[j].due)
    BY <1>2 DEF Owed
  <2>2. j # 1
    BY <1>2, <2>1 DEF LetsGo
  <2>3. j - 1 \in DOMAIN u /\ u[j - 1] = todo[j]
    BY <1>3, <2>2
  <2>4. o + (j - 1) \in DOMAIN todo' /\ todo'[o + (j - 1)] = todo[j]
    BY <1>5, <2>3
  <2> QED
    BY <2>1, <2>2, <2>4
<1>8. TypeOK'
  <2>1. todo' \in Seq(Steps) /\ pending' \in BOOLEAN
    BY <1>1, <1>5 DEF Shape
  <2>2. \A c \in Client : Live(c)' = Live(c)
    BY <1>1 DEF Live
  <2> QED
    BY <1>1, <2>1, <2>2 DEF TypeOK, devices, clients
<1>9. DownInv'
  BY <1>1, <1>2, <1>6 DEF DownInv
<1>10. TimeInv'
  <2>1. /\ Head(queue) \in Conns /\ asked \in Request
    BY <1>1, Asked
  <2>2. age[Head(queue).by] \in Nat /\ since \in Nat /\ asked.n \in Nat
    BY <1>1, <2>1, InputAssumption DEF TypeOK, Conns
  <2> SUFFICES ASSUME Head(queue).live, asked.op = "hold" \/ ~Slow(asked),
                      NEW i \in DOMAIN todo', NEW j \in DOMAIN todo',
                      todo'[i].does = "wait", todo'[j].does = "wait"
               PROVE  asked.op = "hold" /\ age[Head(queue).by] + j - i + 1 <= since + asked.n
    BY <1>1, <1>6, Zenon DEF InputInv, TimeInv, clients
  <2> PICK k, l : k = (i - o) + 1 /\ l = (j - o) + 1
    OBVIOUS
  <2>3. /\ i \in Nat /\ k \in DOMAIN todo /\ todo[k].does = "wait"
        /\ j \in Nat /\ l \in DOMAIN todo /\ todo[l].does = "wait"
    BY <1>3, <1>5
  <2>4. asked.op = "hold" /\ age[Head(queue).by] + l - k + 1 <= since + asked.n
    BY <1>1, <2>3 DEF InputInv, TimeInv
  <2> QED
    BY <2>2, <2>3, <2>4
<1> QED
  BY <1>1, <1>5, <1>7, <1>8, <1>9, <1>10, RunStep DEF clients

\* Time passes.
LEMMA PassStep ==
  ASSUME InputInv, Pass
  PROVE  InputInv'
<1>1. /\ TypeOK /\ QueueInv /\ OkIsLast /\ DownInv /\ TimeInv
      /\ age' = [c \in Client |-> IF Waits(c) THEN age[c] + 1 ELSE age[c]]
      /\ UNCHANGED <<queue, phase, failed, mine, before, since, devices, pending, answer, calls,
                     faults, moves>>
  BY DEF Pass, InputInv, ClientsTold
<1>2. age' \in [Client -> Nat] /\ \A c \in Client : Live(c)' = Live(c)
  BY <1>1 DEF TypeOK, Live
<1>3. CASE phase = "reading" /\ slept < 1 /\ slept' = slept + 1 /\ UNCHANGED todo
  <2>1. slept' \in 0 .. 1
    BY <1>1, <1>3 DEF TypeOK
  <2>2. TypeOK' /\ QueueInv' /\ OkIsLast'
    BY <1>1, <1>2, <1>3, <2>1 DEF TypeOK, QueueInv, OkIsLast, devices
  <2> QED
    BY <1>1, <1>3, <2>2, NotRunning
<1>4. CASE /\ phase = "running" /\ todo # <<>> /\ Head(todo).does = "wait"
           /\ todo' = Tail(todo) /\ UNCHANGED slept
  <2>1. /\ todo[1].does = "wait" /\ todo \in Seq(Steps)
        /\ Shape(todo, asked) /\ Owed(todo, asked, mine) /\ Shape(todo', asked)
        /\ Known(todo[1], todo')
    BY <1>4, FirstStep
  <2>2. Owed(todo', asked, mine')
    <3>1. mine' = mine /\ todo' = Tail(todo)
      BY <1>1, <1>4
    <3> QED
      BY <1>4, <2>1, <3>1, FailOwes
  <2>3. TypeOK'
    <3>1. todo' \in Seq(Steps)
      BY <2>1 DEF Shape
    <3> QED
      BY <1>1, <1>2, <1>4, <3>1 DEF TypeOK, devices
  <2>4. DownInv'
    <3>1. ~Replacing(todo, 1)
      BY <2>1 DEF Known
    <3>2. asked' = asked /\ UNCHANGED <<down, stuck, before, mine>>
      BY <1>1 DEF asked, devices
    <3> QED
      BY <1>1, <1>4, <3>1, <3>2 DEF DownInv
  <2>5. TimeInv'
    <3>1. /\ Head(queue) \in Conns /\ asked \in Request /\ asked' = asked
          /\ Head(queue') = Head(queue)
      BY <1>1, <1>4, Asked DEF asked
    <3> DEFINE c == Head(queue).by
    <3>2. /\ age[c] \in Nat /\ age'[c] \in Nat /\ age'[c] <= age[c] + 1
          /\ since \in Nat /\ asked.n \in Nat
      BY <1>1, <3>1, InputAssumption DEF TypeOK, Conns
    <3>3. /\ 1 \in DOMAIN todo
          /\ \A i \in DOMAIN todo' :
               i \in Nat \ {0} /\ i + 1 \in DOMAIN todo /\ todo'[i] = todo[i + 1]
      BY <1>4, <2>1, TailParts
    <3> HIDE DEF c
    <3> SUFFICES ASSUME Head(queue).live, asked.op = "hold" \/ ~Slow(asked)
                 PROVE  /\ age'[c] <= since + (IF asked.op = "hold" THEN asked.n ELSE 0)
                        /\ \A i, j \in DOMAIN todo' :
                             todo'[i].does = "wait" /\ todo'[j].does = "wait" =>
                               asked.op = "hold" /\ age'[c] + j - i + 1 <= since + asked.n
      <4>1. since' = since
        BY <1>1
      <4> QED
        BY <3>1, <4>1, Zenon DEF TimeInv, c
    <3>4. \A i, j \in DOMAIN todo : todo[i].does = "wait" /\ todo[j].does = "wait" =>
            asked.op = "hold" /\ age[c] + j - i + 1 <= since + asked.n
      BY <1>1, <1>4 DEF TimeInv, c
    <3>5. age'[c] <= since + (IF asked.op = "hold" THEN asked.n ELSE 0)
      <4>1. asked.op = "hold" /\ age[c] + 1 - 1 + 1 <= since + asked.n
        BY <2>1, <3>3, <3>4
      <4> QED
        BY <3>2, <4>1
    <3>6. ASSUME NEW i \in DOMAIN todo', NEW j \in DOMAIN todo',
                 todo'[i].does = "wait", todo'[j].does = "wait"
          PROVE  asked.op = "hold" /\ age'[c] + j - i + 1 <= since + asked.n
      <4>1. i \in Nat \ {0} /\ j \in Nat \ {0} /\ j + 1 \in DOMAIN todo /\ todo'[j] = todo[j + 1]
        BY <3>3
      <4>2. asked.op = "hold" /\ age[c] + (j + 1) - 1 + 1 <= since + asked.n
        BY <2>1, <3>3, <3>4, <3>6, <4>1
      <4> QED
        BY <3>2, <4>1, <4>2
    <3> QED
      BY <3>5, <3>6
  <2> QED
    BY <1>1, <1>4, <2>1, <2>2, <2>3, <2>4, <2>5, RunStep
<1> QED
  BY <1>3, <1>4 DEF Pass

LEMMA InitInput == Init => InputInv
<1> SUFFICES ASSUME Init PROVE InputInv
  OBVIOUS
<1>1. QueueOK(queue)
  BY DEF Init, QueueOK
<1>2. \A c \in Client : Cardinality(Live(c)) <= 1
  <2>1. \A c \in Client : LiveIn(queue, c) = Live(c)
    BY DEF Live, LiveIn
  <2> QED
    BY <1>1, <2>1, OneLive
<1>3. TypeOK
  <2>1. todo \in Seq(Steps) /\ failed \in BOOLEAN /\ pending \in BOOLEAN
    BY Zenon, EmptySeq DEF Init
  <2>2. /\ age \in [Client -> Nat] /\ answer \in [Client -> {"none", "ok", "error"}]
        /\ calls \in 0 .. MaxCalls /\ faults \in 0 .. MaxFaults /\ moves \in 0 .. MaxMoves
    BY InputAssumption DEF Init
  <2> QED
    BY <1>1, <1>2, <2>1, <2>2 DEF Init, TypeOK, QueueOK
<1>4. InTime /\ OkIsLast /\ QueueInv /\ ScriptInv /\ PointerInv /\ DownInv /\ TimeInv
  BY DEF Init, InTime, OkIsLast, QueueInv, ScriptInv, PointerInv, PointerOwn, DownInv, TimeInv
<1> QED
  BY <1>3, <1>4 DEF InputInv, ClientsTold

LEMMA NextInput == InputInv /\ [Next]_vars => InputInv'
<1> SUFFICES ASSUME InputInv, [Next]_vars PROVE InputInv'
  OBVIOUS
<1>1. ASSUME NEW c \in Client, TimesOut(c) PROVE InputInv'
  <2>1. faults' \in 0 .. MaxFaults
    BY <1>1 DEF TimesOut, InputInv, ClientsTold, TypeOK
  <2> QED
    BY <1>1, <2>1, LeavesStep DEF TimesOut
<1>2. ASSUME NEW c \in Client, Killed(c) PROVE InputInv'
  <2>1. faults' \in 0 .. MaxFaults
    BY <1>2, InputAssumption DEF Killed, InputInv, ClientsTold, TypeOK
  <2> QED
    BY <1>2, <2>1, LeavesStep DEF Killed
<1>3. CASE UNCHANGED vars
  <2>1. /\ UNCHANGED <<queue, phase, todo, failed, mine, before, since, slept, down, stuck>>
        /\ UNCHANGED <<pending, age, answer, calls, faults, moves>>
    BY <1>3 DEF vars, request, devices, clients
  <2>2. TypeOK' /\ QueueInv' /\ OkIsLast'
    BY <2>1 DEF InputInv, ClientsTold, TypeOK, QueueInv, OkIsLast, Live
  <2> QED
    BY <2>1, <2>2, Aside DEF request, devices
<1> QED
  BY <1>1, <1>2, <1>3, ConnectStep, WriteStep, IdleStep, ReadStep, AnswerStep, EmitStep,
     EmitFailsStep, FollowsStep, PassStep, DesktopStep, CrashStep
     DEF Next, Daemon, Finished

\* input.rs, server.rs: the invariant of the requests, of which the others are
\* parts: what is pressed is owed a release that no failure takes away, and
\* what is down was held before or is the request's own.
THEOREM Inputs == Spec => []InputInv
<1> QED
  BY InitInput, NextInput, PTL DEF Spec

\* input.rs, server.rs: the types, for every set of clients, keys, requests and
\* however long they are.
THEOREM TypeCorrect == Spec => []TypeOK
<1>1. InputInv => TypeOK
  BY DEF InputInv, ClientsTold
<1> QED
  BY <1>1, Inputs, PTL

\* mcp.rs:585-593, server.rs:476-485: a client whose turn comes within 10 s is
\* told before it gives up, unless its request is no hold and takes 10 s or more,
\* and who is told "ok" has nothing pending.
THEOREM Told == Spec => []ClientsTold
<1>1. InputInv => ClientsTold
  BY DEF InputInv
<1> QED
  BY <1>1, Inputs, PTL

-----------------------------------------------------------------------------
(* What is held *)

\* What the abstract back end is at.
Doing == IF phase = "running" THEN Kind(asked) ELSE "nothing"

LEMMA HeldSame ==
  ASSUME UNCHANGED <<phase, before, down, stuck>>,
         phase = "running" => Head(queue').req = Head(queue).req
  PROVE  HeldNow' = HeldNow /\ Doing' = Doing
BY DEF HeldNow, Doing, asked

\* An answer ends a request: what it only used is up, but for keys whose own
\* release failed.
LEMMA ReplyHeld ==
  ASSUME InputInv, Reply
  PROVE  Held!Next
<1>1. /\ phase = "running" /\ todo = <<>> /\ phase' = "idle" /\ UNCHANGED <<down, stuck>>
  BY DEF Reply, Ended, Close, devices
<1>2. /\ down \ stuck \subseteq before \cup mine /\ stuck \cap (before \cup mine) = {}
      /\ before \ down \subseteq Frees(asked)
  <2>1. ~Replacing(todo, 1)
    BY <1>1 DEF Replacing
  <2> QED
    BY <1>1, <2>1 DEF InputInv, DownInv
<1>3. IF asked.op = "press" THEN mine \subseteq {asked.key} ELSE mine = {}
  BY <1>1, ShapeKnown DEF Owed
<1>4. /\ asked \in Request /\ HeldNow = before /\ HeldNow' = down \ stuck
      /\ Doing = Kind(asked) /\ Doing' = "nothing"
  BY <1>1, Asked DEF HeldNow, Doing
<1>5. CASE asked.op = "press"
  <2>1. Frees(asked) = {} /\ asked.key \in Codes
    BY <1>4, <1>5, InputAssumption DEF Frees, Used
  <2>2. HeldNow' \in {HeldNow, HeldNow \cup {asked.key}}
    BY <1>2, <1>3, <1>4, <1>5, <2>1
  <2>3. Held!Hold(asked.key)
    BY <1>4, <1>5, <2>2 DEF Held!Hold, Held!End, Kind, Doing, asked
  <2> QED
    BY <2>1, <2>3 DEF Held!Next
<1>6. CASE asked.op = "let"
  <2>1. Frees(asked) = {asked.key} /\ asked.key \in Codes
    BY <1>4, <1>6, InputAssumption DEF Frees, Used
  <2>2. HeldNow' \in {HeldNow, HeldNow \ {asked.key}}
    BY <1>2, <1>3, <1>4, <1>6, <2>1
  <2>3. Held!LetGo(asked.key)
    BY <1>4, <1>6, <2>2 DEF Held!LetGo, Held!End, Kind, Doing, asked
  <2> QED
    BY <2>1, <2>3 DEF Held!Next
<1>7. CASE asked.op \notin {"press", "let"}
  <2>1. Frees(asked) = Used(asked) /\ Used(asked) \in AllUses
    BY <1>4, <1>7 DEF Frees, AllUses
  <2>2. HeldNow' = HeldNow \ (before \ down)
    BY <1>2, <1>3, <1>4, <1>7
  <2>3. before \ down \in SUBSET Used(asked)
    BY <1>2, <2>1
  <2>4. Held!Use(Used(asked))
    BY <1>4, <1>7, <2>2, <2>3 DEF Held!Use, Held!End, Kind, Doing, asked
  <2> QED
    BY <2>1, <2>4 DEF Held!Next
<1> QED
  BY <1>5, <1>6, <1>7

\* Every other step begins a request, takes a new pointer, lets go of all with
\* the daemon, or is none of the abstract back end.
LEMMA HeldSteps ==
  ASSUME InputInv, [Next]_vars
  PROVE  [Held!Next]_<<HeldNow, Doing>>
<1>1. ASSUME Undisturbed PROVE UNCHANGED <<HeldNow, Doing>>
  BY <1>1, HeldSame DEF Undisturbed, request, devices
<1>2. ASSUME NEW c \in Client,
             Connect(c) \/ TimesOut(c) \/ Killed(c) \/ \E r \in Request : Write(c, r)
      PROVE  UNCHANGED <<HeldNow, Doing>>
  <2>1. Undisturbed
    <3>1. TimesOut(c) \/ Killed(c) => Leaves(c) /\ faults' \in 0 .. MaxFaults
      BY InputAssumption DEF TimesOut, Killed, InputInv, ClientsTold, TypeOK
    <3> QED
      BY <1>2, <3>1, ConnectStep, WriteStep, LeavesStep
  <2> QED
    BY <1>1, <2>1
<1>3. CASE ReadRequest
  <2>1. phase = "reading" /\ phase' = "running" /\ before' = down \ stuck
    BY <1>3 DEF ReadRequest
  <2>2. /\ HeldNow' = HeldNow /\ Doing = "nothing"
        /\ Doing' \in {"hold", "let", "use"}
    BY <2>1 DEF HeldNow, Doing, Kind
  <2>3. Held!Begin
    BY <2>2 DEF Held!Begin, Doing, asked
  <2> QED
    BY <2>3 DEF Held!Next
<1>4. CASE Emit \/ EmitFails \/ Follows
  <2> PICK s : s = Head(todo)
    OBVIOUS
  <2>1. /\ phase = "running" /\ todo # <<>> /\ UNCHANGED <<queue, phase>>
        /\ s.does # "replace" => before' = before
        /\ s.does = "replace" => before' \in {before \ Button, before \ (Button \ down)}
    BY <1>4 DEF Emit, EmitFails, Follows
  <2>2. HeldNow = before /\ HeldNow' = before' /\ Doing' = Doing
    BY <2>1 DEF HeldNow, Doing, asked
  <2>3. CASE s.does = "replace"
    <3>1. \E gone \in SUBSET Button : HeldNow' = HeldNow \ gone
      BY <2>1, <2>2, <2>3
    <3>2. Held!NewPointer
      BY <2>2, <3>1 DEF Held!NewPointer, Doing, asked
    <3> QED
      BY <3>2 DEF Held!Next
  <2>4. CASE s.does # "replace"
    BY <2>1, <2>2, <2>4
  <2> QED
    BY <2>3, <2>4
<1>5. CASE Reply
  BY <1>5, ReplyHeld
<1>6. CASE HangsUp \/ ReadTimesOut
  <2>1. phase = "reading" /\ phase' = "idle" /\ UNCHANGED <<down, stuck>>
    BY <1>6 DEF HangsUp, ReadTimesOut, Close, devices
  <2> QED
    BY <2>1 DEF HeldNow, Doing
<1>7. CASE Accept \/ Restart
  <2>1. phase # "running" /\ phase' # "running" /\ UNCHANGED <<down, stuck>>
    BY <1>7 DEF Accept, Restart, devices
  <2> QED
    BY <2>1 DEF HeldNow, Doing
<1>8. CASE Pass \/ DesktopChanges \/ UNCHANGED vars
  <2>1. UNCHANGED <<queue, phase, before, down, stuck>>
    BY <1>8 DEF Pass, DesktopChanges, vars, request, devices
  <2> QED
    BY <2>1, HeldSame
<1>9. CASE Crash
  <2>1. HeldNow' = {} /\ Doing' = "nothing"
    BY <1>9 DEF Crash, HeldNow, Doing
  <2>2. Held!LetAllGo
    BY <2>1 DEF Held!LetAllGo, Doing, asked
  <2> QED
    BY <2>2 DEF Held!Next
<1> QED
  BY <1>2, <1>3, <1>4, <1>5, <1>6, <1>7, <1>8, <1>9 DEF Next, Daemon, Finished

\* input.rs:14-16: the daemon implements HeldKeys: whatever a request presses
\* it has released when it is answered, failed or not, but for keys whose own
\* release failed; for every set of requests and of faults.
THEOREM HoldsKeys == Spec => HeldSpec
<1>1. Init => Held!Init
  BY DEF Init, Held!Init, HeldNow
<1>2. InputInv /\ [Next]_vars => [Held!Next]_<<HeldNow, Doing>>
  BY HeldSteps
<1>3. InputInv /\ [Next]_vars =>
        [Held!Next]_<<HeldNow, IF phase = "running" THEN Kind(Head(queue).req) ELSE "nothing">>
  BY <1>2, Zenon DEF Doing, asked
<1> QED
  BY <1>1, <1>3, Inputs, PTL DEF Spec, HeldSpec, Held!Spec
=============================================================================
