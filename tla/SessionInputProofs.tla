--------------------------- MODULE SessionInputProofs ---------------------------
(***************************************************************************)
(* SessionInput: a prompt enters the transcript once and in the order of   *)
(* admission, and an accepted one is kept, for any clients, prompts,       *)
(* nudges and bounds. The tables, the clients and their notes (IInv) need  *)
(* to know of the runner's selection its type only; the order needs that a *)
(* selected prompt had no older one before it (RInv). The query that       *)
(* selects is a recursive function: its lemmas come first, by induction    *)
(* over sets.                                                              *)
(***************************************************************************)
EXTENDS SessionInput, SequenceTheorems, FiniteSetTheorems, TLAPS

USE InputAssumption

Known(i) == IsPending(i) \/ IsPromoted(i) \/ i \in hist.withdrawn

\* A row is pending once, and not in the transcript.
Tables ==
  /\ pending \in Seq(Ids) /\ IsInjective(pending)
  /\ transcript \in Seq(Ids) /\ ToSet(pending) \cap ToSet(transcript) = {}

\* A client that admitted a prompt knows of a row, a message or a withdrawal.
ClientOK(c) ==
  /\ clients[c] \in ClientRec
  /\ clients[c].at # "idle" => clients[c].id \in Prompts
  /\ clients[c].at = "kept" => Known(clients[c].id)

IInv ==
  /\ Tables /\ EntersOnce
  /\ hist \in Histories
  /\ clients = [c \in Clients |-> clients[c]]
  /\ \A c \in Clients : ClientOK(c)
  /\ \A p \in hist.accepted : Known(p)

\* No prompt is pending before q.
IsNext(q) == \A i, j \in DOMAIN pending : i < j /\ pending[j] = q => pending[i] \notin Prompts

\* The runner's selection: a prompt in it has no older one before it, but in the excused cases.
Selected(q) == Known(q) /\ (IsNext(q) \/ hist.human \/ q \in hist.again)

RInv ==
  /\ mode \in Modes /\ (mode = "human" => hist.human)
  /\ runner \in RunnerRec
  /\ \A q \in ToSet(runner.todo) \cap Prompts : Selected(q)

KeepsKnown == \A p \in Prompts : Known(p) => Known(p)'

------------------------------------------------------------------------------
\* Numbers and sequences.
LEMMA LeastExists ==
  ASSUME NEW I, I \subseteq Nat, I # {}
  PROVE  \E j \in I : \A k \in I : j <= k
<1> DEFINE R == StrictSubsetOrdering(Nat)
           W == {1..m : m \in I}
<1>1. W \subseteq FiniteSubsetsOf(Nat)
  <2>1. ASSUME NEW w \in W PROVE w \in FiniteSubsetsOf(Nat)
    <3>1. PICK m \in I : w = 1..m
      OBVIOUS
    <3>2. m \in Nat /\ 1..m \subseteq Nat
      OBVIOUS
    <3>3. IsFiniteSet(1..m)
      BY <3>2, FS_Interval
    <3> QED BY <3>1, <3>2, <3>3 DEF FiniteSubsetsOf
  <2> QED BY <2>1
<1>2. W # {}
  <2>1. PICK m \in I : TRUE
    OBVIOUS
  <2>2. 1..m \in W
    OBVIOUS
  <2> QED BY <2>2
<1>3. IsWellFoundedOn(R, FiniteSubsetsOf(Nat))
  BY FS_StrictSubsetOrderingWellFounded
<1> HIDE DEF R
<1>4. PICK x \in W : \A y \in W : <<y, x>> \notin R
  BY <1>1, <1>2, <1>3, WFMin
<1>5. PICK m \in I : x = 1..m
  BY <1>4
<1>6. ASSUME NEW k \in I, ~(m <= k) PROVE FALSE
  <2>1. m \in Nat /\ k \in Nat /\ k < m
    BY <1>6
  <2>2. 1..k \in SUBSET Nat /\ 1..m \in SUBSET Nat /\ 1..k \subseteq 1..m /\ 1..k # 1..m
    BY <2>1
  <2>3. <<1..k, 1..m>> \in R
    BY <2>2 DEF R, StrictSubsetOrdering
  <2> QED BY <1>4, <1>5, <2>3
<1> QED BY <1>6

\* Induction over the natural numbers, for a set of them.
LEMMA SetInduction ==
  ASSUME NEW S, S \subseteq Nat, 0 \in S, \A n \in S : n + 1 \in S
  PROVE  \A n \in Nat : n \in S
<1> DEFINE T == Nat \ S
<1>1. CASE T = {}
  BY <1>1
<1>2. CASE T # {}
  <2>1. PICK j \in T : \A k \in T : j <= k
    BY <1>2, LeastExists
  <2>2. j \in Nat /\ j # 0
    BY <2>1
  <2>3. j - 1 \in Nat /\ j - 1 \notin T
    BY <2>1, <2>2
  <2>4. (j - 1) + 1 \in S
    BY <2>3
  <2>5. (j - 1) + 1 = j
    BY <2>2
  <2> QED BY <2>1, <2>4, <2>5
<1> QED BY <1>1, <1>2

LEMMA AppendFacts ==
  ASSUME NEW S, NEW s \in Seq(S), NEW e \in S
  PROVE  /\ Append(s, e) \in Seq(S) /\ Len(Append(s, e)) = Len(s) + 1 /\ Len(s) \in Nat
         /\ DOMAIN s = 1..Len(s) /\ DOMAIN Append(s, e) = 1..(Len(s) + 1)
         /\ \A i \in 1..Len(s) : Append(s, e)[i] = s[i]
         /\ Append(s, e)[Len(s) + 1] = e
<1>1. /\ Append(s, e) \in Seq(S) /\ Len(Append(s, e)) = Len(s) + 1
      /\ \A i \in 1..Len(s) : Append(s, e)[i] = s[i]
      /\ Append(s, e)[Len(s) + 1] = e
  BY AppendProperties
<1> QED BY <1>1, LenProperties

\* Where the elements of RemoveAt(s, k) are from.
From(k, i) == IF i < k THEN i ELSE i + 1

LEMMA RemoveFacts ==
  ASSUME NEW S, NEW s \in Seq(S), NEW k \in DOMAIN s
  PROVE  /\ RemoveAt(s, k) \in Seq(S) /\ Len(RemoveAt(s, k)) = Len(s) - 1
         /\ Len(s) \in Nat /\ DOMAIN s = 1..Len(s) /\ DOMAIN RemoveAt(s, k) = 1..(Len(s) - 1)
         /\ \A i \in 1..(Len(s) - 1) : RemoveAt(s, k)[i] = s[From(k, i)]
         /\ \A i \in 1..(Len(s) - 1) : From(k, i) \in DOMAIN s /\ From(k, i) # k
<1> DEFINE r == RemoveAt(s, k)
           a == SubSeq(s, 1, k - 1)
           b == SubSeq(s, k + 1, Len(s))
<1>0. Len(s) \in Nat /\ DOMAIN s = 1..Len(s) /\ k \in 1..Len(s)
  BY LenProperties
<1>1. /\ a \in Seq(S) /\ Len(a) = k - 1 /\ \A i \in 1..(k - 1) : a[i] = s[i]
  BY <1>0, SubSeqProperties
<1>2. /\ b \in Seq(S) /\ Len(b) = Len(s) - k /\ \A i \in 1..(Len(s) - k) : b[i] = s[k + i]
  BY <1>0, SubSeqProperties
<1>3. r = a \o b
  BY DEF RemoveAt
<1> HIDE DEF r, a, b
<1>4. /\ r \in Seq(S) /\ Len(r) = Len(a) + Len(b)
      /\ \A i \in 1..(Len(a) + Len(b)) : r[i] = IF i <= Len(a) THEN a[i] ELSE b[i - Len(a)]
  BY <1>1, <1>2, <1>3, ConcatProperties
<1>5. Len(r) = Len(s) - 1 /\ DOMAIN r = 1..(Len(s) - 1)
  BY <1>0, <1>1, <1>2, <1>4, LenProperties
<1>6. ASSUME NEW i \in 1..(Len(s) - 1)
      PROVE  r[i] = s[From(k, i)] /\ From(k, i) \in DOMAIN s /\ From(k, i) # k
  <2>1. CASE i < k
    <3>1. i \in 1..(k - 1) /\ i \in 1..(Len(a) + Len(b)) /\ i <= Len(a)
      BY <1>0, <1>1, <1>2, <2>1
    <3>2. r[i] = a[i] /\ a[i] = s[i]
      BY <1>1, <1>4, <3>1
    <3> QED BY <1>0, <2>1, <3>1, <3>2 DEF From
  <2>2. CASE ~(i < k)
    <3> DEFINE j == i - Len(a)
    <3>1. i \in 1..(Len(a) + Len(b)) /\ ~(i <= Len(a)) /\ j \in 1..(Len(s) - k) /\ k + j = i + 1
      BY <1>0, <1>1, <1>2, <2>2
    <3>2. r[i] = b[j]
      BY <1>4, <3>1
    <3> HIDE DEF j
    <3>3. b[j] = s[k + j]
      BY <1>2, <3>1
    <3> QED BY <1>0, <2>2, <3>1, <3>2, <3>3 DEF From
  <2> QED BY <2>1, <2>2
<1> QED BY <1>0, <1>4, <1>5, <1>6 DEF r

\* RemoveFirst takes one element away, if it is there, and keeps the order of the others.
LEMMA RemoveFirstIs ==
  ASSUME NEW S, NEW s \in Seq(S), NEW e
  PROVE  \/ e \notin ToSet(s) /\ RemoveFirst(s, e) = s
         \/ \E k \in DOMAIN s : s[k] = e /\ RemoveFirst(s, e) = RemoveAt(s, k)
<1> DEFINE I == {i \in 1..Len(s) : s[i] = e}
<1>0. Len(s) \in Nat /\ DOMAIN s = 1..Len(s)
  BY LenProperties
<1>1. CASE ~\E i \in 1..Len(s) : s[i] = e
  BY <1>0, <1>1 DEF RemoveFirst, ToSet
<1>2. CASE \E i \in 1..Len(s) : s[i] = e
  <2>1. I \subseteq Nat /\ I # {}
    BY <1>0, <1>2
  <2>2. PICK k \in I : \A j \in I : k <= j
    BY <2>1, LeastExists
  <2>3. Min(I) \in I
    BY <2>2 DEF Min
  <2>4. RemoveFirst(s, e) = RemoveAt(s, Min(I))
    BY <1>2 DEF RemoveFirst, SelectInSeq
  <2> QED BY <1>0, <2>3, <2>4
<1> QED BY <1>1, <1>2

LEMMA RemoveKeeps ==
  ASSUME NEW S, NEW s \in Seq(S), NEW e
  PROVE  LET r == RemoveFirst(s, e) IN
         /\ r \in Seq(S) /\ ToSet(r) \subseteq ToSet(s)
         /\ \A x \in ToSet(s) : x # e => x \in ToSet(r)
         /\ IsInjective(s) => IsInjective(r) /\ e \notin ToSet(r)
         /\ \A i, j \in DOMAIN r : i < j =>
              \E a, b \in DOMAIN s : a < b /\ s[a] = r[i] /\ s[b] = r[j]
<1> DEFINE r == RemoveFirst(s, e)
<1>1. CASE e \notin ToSet(s) /\ r = s
  BY <1>1
<1>2. CASE \E k \in DOMAIN s : s[k] = e /\ r = RemoveAt(s, k)
  <2>1. PICK k \in DOMAIN s : s[k] = e /\ r = RemoveAt(s, k)
    BY <1>2
  <2> HIDE DEF r
  <2>2. /\ r \in Seq(S) /\ Len(r) = Len(s) - 1
        /\ Len(s) \in Nat /\ DOMAIN s = 1..Len(s) /\ DOMAIN r = 1..(Len(s) - 1)
        /\ \A i \in 1..(Len(s) - 1) : r[i] = s[From(k, i)]
        /\ \A i \in 1..(Len(s) - 1) : From(k, i) \in DOMAIN s /\ From(k, i) # k
    BY <2>1, RemoveFacts
  <2>3. PICK n \in Nat : n = Len(s)
    BY <2>2
  <2>4. \A i, j \in 1..(n - 1) : i < j => From(k, i) < From(k, j)
    BY <2>2, <2>3 DEF From
  <2>5. \A i \in 1..n : i # k => \E j \in 1..(n - 1) : From(k, j) = i
    <3>1. ASSUME NEW i \in 1..n, i < k PROVE i \in 1..(n - 1) /\ From(k, i) = i
      BY <2>2, <2>3, <3>1 DEF From
    <3>2. ASSUME NEW i \in 1..n, i > k PROVE i - 1 \in 1..(n - 1) /\ From(k, i - 1) = i
      BY <2>2, <2>3, <3>2 DEF From
    <3> QED BY <2>2, <2>3, <3>1, <3>2
  <2>6. ToSet(r) \subseteq ToSet(s)
    BY <2>2 DEF ToSet
  <2>7. ASSUME NEW x \in ToSet(s), x # e PROVE x \in ToSet(r)
    <3>1. PICK i \in 1..n : s[i] = x
      BY <2>2, <2>3 DEF ToSet
    <3>2. PICK j \in 1..(n - 1) : From(k, j) = i
      BY <2>1, <2>5, <2>7, <3>1
    <3> QED BY <2>2, <2>3, <3>1, <3>2 DEF ToSet
  <2>8. ASSUME IsInjective(s) PROVE IsInjective(r) /\ e \notin ToSet(r)
    <3>1. \A i, j \in DOMAIN s : s[i] = s[j] => i = j
      BY <2>8 DEF IsInjective
    <3>2. ASSUME NEW i \in 1..(n - 1), NEW j \in 1..(n - 1), r[i] = r[j] PROVE i = j
      <4>1. From(k, i) = From(k, j)
        BY <2>2, <2>3, <3>1, <3>2
      <4> QED BY <2>4, <4>1, <3>2, <2>2 DEF From
    <3>3. \A i \in 1..(n - 1) : r[i] # e
      BY <2>1, <2>2, <2>3, <3>1
    <3> QED BY <2>2, <2>3, <3>2, <3>3 DEF IsInjective, ToSet
  <2>9. \A i, j \in DOMAIN r : i < j =>
          \E a, b \in DOMAIN s : a < b /\ s[a] = r[i] /\ s[b] = r[j]
    BY <2>2, <2>3, <2>4
  <2> QED BY <2>2, <2>6, <2>7, <2>8, <2>9 DEF r
<1> QED BY <1>1, <1>2, RemoveFirstIs

\* Append adds its element, at the end.
LEMMA AppendKeeps ==
  ASSUME NEW S, NEW s \in Seq(S), NEW e \in S
  PROVE  /\ Append(s, e) \in Seq(S) /\ ToSet(Append(s, e)) = ToSet(s) \cup {e}
         /\ IsInjective(s) /\ e \notin ToSet(s) => IsInjective(Append(s, e))
<1> DEFINE h == Append(s, e)
<1>1. /\ h \in Seq(S) /\ Len(s) \in Nat /\ DOMAIN s = 1..Len(s) /\ DOMAIN h = 1..(Len(s) + 1)
      /\ \A i \in 1..Len(s) : h[i] = s[i]
      /\ h[Len(s) + 1] = e
  BY AppendFacts
<1> HIDE DEF h
<1>2. PICK n \in Nat : n = Len(s)
  BY <1>1
<1>3. \A i \in 1..(n + 1) : i \in 1..n \/ i = n + 1
  OBVIOUS
<1>4. n + 1 \in 1..(n + 1) /\ 1..n \subseteq 1..(n + 1)
  OBVIOUS
<1>5. ToSet(h) = ToSet(s) \cup {e}
  BY <1>1, <1>2, <1>3, <1>4 DEF ToSet
<1>6. ASSUME IsInjective(s), e \notin ToSet(s) PROVE IsInjective(h)
  <2>1. \A i \in 1..n : h[i] # e
    BY <1>1, <1>2, <1>6 DEF ToSet
  <2> QED BY <1>1, <1>2, <1>3, <1>6, <2>1 DEF IsInjective
<1> QED BY <1>1, <1>5, <1>6 DEF h

\* The rows of a query, found one after the other.
Rows(f, s, X, m) ==
  f = [n \in 0..m |-> IF n = 0 THEN <<>>
                      ELSE IF s[n] \in X THEN Append(f[n - 1], s[n]) ELSE f[n - 1]]

LEMMA RowsExist == ASSUME NEW s, NEW X PROVE \A m \in Nat : \E f : Rows(f, s, X, m)
<1> DEFINE M == {m \in Nat : \E f : Rows(f, s, X, m)}
<1>1. 0 \in M
  <2> DEFINE f == [n \in 0..0 |-> <<>>]
  <2>1. Rows(f, s, X, 0)
    BY DEF Rows
  <2> HIDE DEF f
  <2> QED BY <2>1
<1>2. ASSUME NEW m \in M PROVE m + 1 \in M
  <2>1. PICK f : Rows(f, s, X, m)
    OBVIOUS
  <2> DEFINE e == [n \in 0..(m + 1) |->
                     IF n <= m THEN f[n] ELSE IF s[n] \in X THEN Append(f[m], s[n]) ELSE f[m]]
             R(n) == IF n = 0 THEN <<>>
                     ELSE IF s[n] \in X THEN Append(e[n - 1], s[n]) ELSE e[n - 1]
  <2>2. ASSUME NEW n \in 0..(m + 1) PROVE e[n] = R(n)
    <3>1. CASE n = 0
      BY <2>1, <3>1 DEF Rows
    <3>2. CASE n # 0 /\ n <= m
      <4>1. n \in 0..m /\ n - 1 \in 0..m /\ n - 1 \in 0..(m + 1) /\ n - 1 <= m
        BY <3>2
      <4>2. e[n] = f[n] /\ e[n - 1] = f[n - 1]
        BY <3>2, <4>1
      <4>3. f[n] = IF s[n] \in X THEN Append(f[n - 1], s[n]) ELSE f[n - 1]
        BY <2>1, <3>2, <4>1 DEF Rows
      <4> HIDE DEF e
      <4> QED BY <3>2, <4>2, <4>3
    <3>3. CASE n = m + 1
      <4>1. n - 1 = m /\ m \in 0..(m + 1) /\ ~(n <= m) /\ n # 0
        BY <3>3
      <4>2. e[m] = f[m] /\ e[n] = IF s[n] \in X THEN Append(f[m], s[n]) ELSE f[m]
        BY <4>1
      <4> HIDE DEF e
      <4> QED BY <4>1, <4>2
    <3> QED BY <3>1, <3>2, <3>3
  <2>3. e = [n \in 0..(m + 1) |-> e[n]]
    OBVIOUS
  <2> HIDE DEF e
  <2>4. Rows(e, s, X, m + 1)
    BY <2>2, <2>3 DEF Rows
  <2> QED BY <2>4
<1> HIDE DEF M
<1>3. M \subseteq Nat
  BY DEF M
<1>4. \A m \in Nat : m \in M
  BY <1>1, <1>2, <1>3, SetInduction
<1> QED BY <1>4 DEF M

\* A query returns the rows of the set; the first it returns has no other before it.
LEMMA OnlyFacts ==
  ASSUME NEW S, NEW s \in Seq(S), NEW X
  PROVE  /\ Only(s, X) \in Seq(S) /\ ToSet(Only(s, X)) = ToSet(s) \cap X
         /\ Only(s, X) # <<>> =>
              \E k \in DOMAIN s : Only(s, X)[1] = s[k] /\ \A i \in 1..(k - 1) : s[i] \notin X
<1>0. DOMAIN s = 1..Len(s) /\ Len(s) \in Nat /\ \A i \in DOMAIN s : s[i] \in S
  BY LenProperties, ElementOfSeq
<1>1. Only(s, X) = (CHOOSE f : Rows(f, s, X, Len(s)))[Len(s)]
  BY DEF Only, Rows
<1>2. PICK f : Rows(f, s, X, Len(s)) /\ Only(s, X) = f[Len(s)]
  BY <1>0, <1>1, RowsExist
<1>3. PICK N \in Nat : N = Len(s)
  BY <1>0
<1> DEFINE Good(n) ==
             /\ f[n] \in Seq(S) /\ ToSet(f[n]) = {s[i] : i \in 1..n} \cap X
             /\ f[n] # <<>> => \E k \in 1..n : f[n][1] = s[k] /\ \A i \in 1..(k - 1) : s[i] \notin X
           M == {n \in Nat : n <= N => Good(n)}
<1>4. 0 \in M
  <2>1. f[0] = <<>>
    BY <1>2, <1>3 DEF Rows
  <2>2. <<>> \in Seq(S) /\ ToSet(<<>>) = {} /\ {s[i] : i \in 1..0} = {}
    BY DEF ToSet
  <2>3. Good(0)
    BY <2>1, <2>2
  <2> QED BY <2>3
<1>5. ASSUME NEW n \in M PROVE n + 1 \in M
  <2> SUFFICES ASSUME n + 1 <= N PROVE Good(n + 1)
    OBVIOUS
  <2>1. n \in Nat /\ n <= N /\ n + 1 \in 0..N /\ n + 1 # 0 /\ (n + 1) - 1 = n /\ n + 1 \in 1..N
    OBVIOUS
  <2>2. Good(n)
    BY <2>1
  <2> DEFINE g == f[n]
             x == s[n + 1]
  <2>3. f[n + 1] = IF x \in X THEN Append(g, x) ELSE g
    BY <1>2, <1>3, <2>1 DEF Rows
  <2>4. x \in S
    BY <1>0, <1>3, <2>1
  <2>5. {s[i] : i \in 1..(n + 1)} = {s[i] : i \in 1..n} \cup {x}
    <3>1. \A i \in 1..(n + 1) : i \in 1..n \/ i = n + 1
      BY <2>1
    <3>2. 1..n \subseteq 1..(n + 1) /\ n + 1 \in 1..(n + 1)
      BY <2>1
    <3> QED BY <3>1, <3>2
  <2>6. /\ g \in Seq(S) /\ ToSet(g) = {s[i] : i \in 1..n} \cap X
        /\ g # <<>> => \E k \in 1..n : g[1] = s[k] /\ \A i \in 1..(k - 1) : s[i] \notin X
    BY <2>2
  <2> HIDE DEF g, x
  <2>7. CASE x \in X
    <3>1. f[n + 1] = Append(g, x)
      BY <2>3, <2>7
    <3>2. Append(g, x) \in Seq(S) /\ ToSet(Append(g, x)) = ToSet(g) \cup {x}
      BY <2>4, <2>6, AppendKeeps
    <3>3. ToSet(Append(g, x)) = {s[i] : i \in 1..(n + 1)} \cap X
      BY <2>5, <2>6, <2>7, <3>2
    <3>4. /\ Len(g) \in Nat /\ \A i \in 1..Len(g) : Append(g, x)[i] = g[i]
          /\ Append(g, x)[Len(g) + 1] = x
      BY <2>4, <2>6, AppendFacts
    <3>5. \E k \in 1..(n + 1) : Append(g, x)[1] = s[k] /\ \A i \in 1..(k - 1) : s[i] \notin X
      <4>1. CASE g = <<>>
        <5>1. Append(g, x)[1] = x
          BY <3>4, <4>1
        <5>2. \A i \in 1..n : s[i] \notin X
          BY <2>6, <4>1 DEF ToSet
        <5> QED BY <2>1, <5>1, <5>2 DEF x
      <4>2. CASE g # <<>>
        <5>1. PICK k \in 1..n : g[1] = s[k] /\ \A i \in 1..(k - 1) : s[i] \notin X
          BY <2>6, <4>2
        <5>2. Len(g) # 0
          BY <2>6, <4>2, EmptySeq
        <5>3. Append(g, x)[1] = g[1] /\ k \in 1..(n + 1)
          BY <2>1, <3>4, <5>2
        <5> QED BY <5>1, <5>3
      <4> QED BY <4>1, <4>2
    <3> QED BY <3>1, <3>2, <3>3, <3>5
  <2>8. CASE x \notin X
    <3>1. f[n + 1] = g
      BY <2>3, <2>8
    <3>2. ToSet(g) = {s[i] : i \in 1..(n + 1)} \cap X
      BY <2>5, <2>6, <2>8
    <3>3. 1..n \subseteq 1..(n + 1)
      BY <2>1
    <3> QED BY <2>6, <3>1, <3>2, <3>3
  <2> QED BY <2>7, <2>8
<1> HIDE DEF Good
<1>6. N \in M
  <2> HIDE DEF M
  <2>1. M \subseteq Nat
    BY DEF M
  <2> QED BY <1>4, <1>5, <2>1, SetInduction
<1>7. Good(N)
  BY <1>6
<1>8. ToSet(s) = {s[i] : i \in 1..N} /\ DOMAIN s = 1..N
  BY <1>0, <1>3 DEF ToSet
<1>9. f[N] = Only(s, X)
  BY <1>2, <1>3
<1> HIDE DEF M
<1>10. /\ f[N] \in Seq(S) /\ ToSet(f[N]) = {s[i] : i \in 1..N} \cap X
       /\ f[N] # <<>> => \E k \in 1..N : f[N][1] = s[k] /\ \A i \in 1..(k - 1) : s[i] \notin X
  BY <1>7 DEF Good
<1> QED BY <1>8, <1>9, <1>10

------------------------------------------------------------------------------
\* What a step does to the tables: it loses no row but the ones it names.
Keeps(X) == \A i : IsPending(i) \/ IsPromoted(i) => (IsPending(i) \/ IsPromoted(i))' \/ i \in X

\* projectPrompted() moves a row, and adds no message that is there.
LEMMA PromotedKeeps ==
  ASSUME Tables, EntersOnce, NEW i \in Ids, ~Conflicts(i), Promoted(i)
  PROVE  /\ Tables' /\ EntersOnce' /\ Keeps({}) /\ IsPromoted(i)'
         /\ \A x : IsPromoted(x)' => IsPromoted(x) \/ x = i
<1>1. transcript' = Append(transcript, i) /\ pending' = RemoveFirst(pending, i)
  BY DEF Promoted
<1>2. i \notin ToSet(transcript) /\ transcript \in Seq(Ids) /\ pending \in Seq(Ids)
  BY DEF Conflicts, IsPromoted, Tables
<1>3. transcript' \in Seq(Ids) /\ ToSet(transcript') = ToSet(transcript) \cup {i}
  BY <1>1, <1>2, AppendKeeps
<1>4. /\ pending' \in Seq(Ids) /\ ToSet(pending') \subseteq ToSet(pending)
      /\ \A x \in ToSet(pending) : x # i => x \in ToSet(pending')
      /\ IsInjective(pending') /\ i \notin ToSet(pending')
  BY <1>1, <1>2, RemoveKeeps DEF Tables
<1>5. Tables'
  BY <1>3, <1>4 DEF Tables
<1>6. EntersOnce'
  <2>1. /\ Len(transcript) \in Nat /\ DOMAIN transcript = 1..Len(transcript)
        /\ Len(transcript') = Len(transcript) + 1 /\ transcript'[Len(transcript) + 1] = i
        /\ \A k \in 1..Len(transcript) : transcript'[k] = transcript[k]
    BY <1>1, <1>2, AppendFacts
  <2>2. \A k \in 1..Len(transcript) : transcript[k] # i
    BY <1>2, <2>1 DEF ToSet
  <2>3. \A k \in 1..(Len(transcript) + 1) : k \in 1..Len(transcript) \/ k = Len(transcript) + 1
    BY <2>1
  <2> QED BY <2>1, <2>2, <2>3 DEF EntersOnce
<1>7. Keeps({}) /\ IsPromoted(i)' /\ \A x : IsPromoted(x)' => IsPromoted(x) \/ x = i
  BY <1>3, <1>4 DEF Keeps, IsPending, IsPromoted
<1> QED BY <1>5, <1>6, <1>7

\* projectCancelled() takes one row away.
LEMMA CancelledKeeps ==
  ASSUME Tables, EntersOnce, NEW i, Cancelled(i)
  PROVE  Tables' /\ EntersOnce' /\ Keeps({i})
<1>1. transcript' = transcript /\ pending' = RemoveFirst(pending, i)
  BY DEF Cancelled
<1>2. /\ pending' \in Seq(Ids) /\ ToSet(pending') \subseteq ToSet(pending)
      /\ \A x \in ToSet(pending) : x # i => x \in ToSet(pending')
      /\ IsInjective(pending')
  BY <1>1, RemoveKeeps DEF Tables
<1> QED BY <1>1, <1>2 DEF Tables, EntersOnce, Keeps, IsPending, IsPromoted

\* projectAdmitted() adds a row.
LEMMA AdmittedKeeps ==
  ASSUME Tables, EntersOnce, NEW i \in Ids, Admissible(i), pending' = Append(pending, i),
         UNCHANGED transcript
  PROVE  Tables' /\ EntersOnce' /\ Keeps({}) /\ IsPending(i)'
<1>1. /\ pending' \in Seq(Ids) /\ ToSet(pending') = ToSet(pending) \cup {i}
      /\ IsInjective(pending')
  BY AppendKeeps DEF Tables, Admissible, IsPending
<1> QED BY <1>1 DEF Tables, EntersOnce, Keeps, IsPending, IsPromoted, Admissible

LEMMA StutterKeeps ==
  ASSUME Tables, EntersOnce, UNCHANGED <<pending, transcript>>
  PROVE  Tables' /\ EntersOnce' /\ Keeps({})
  BY DEF Tables, EntersOnce, Keeps, IsPending, IsPromoted

\* The notes of a step: a withdrawal is forgotten only for a prompt that is admitted again.
Noted ==
  /\ hist' \in Histories
  /\ \A i \in hist.withdrawn : i \in hist'.withdrawn \/ IsPending(i)'

\* A step of the tables, the clients and the notes keeps the invariant, if it loses no row but
\* those of nudges and of withdrawn prompts.
LEMMA StepKeeps ==
  ASSUME IInv, NEW X, Tables', EntersOnce', Keeps(X), Noted,
         X \subseteq hist'.withdrawn \cup Nudges,
         clients' = [c \in Clients |-> clients'[c]],
         \A c \in Clients : clients'[c] = clients[c] \/ ClientOK(c)',
         \A p \in hist'.accepted : p \in hist.accepted \/ Known(p)'
  PROVE  IInv' /\ KeepsKnown
<1>1. \A p \in Prompts : Known(p) => Known(p)'
  BY DEF Keeps, Noted, Known
<1>2. hist.accepted \subseteq Prompts
  BY DEF IInv, Histories
<1>3. \A p \in hist'.accepted : Known(p)'
  BY <1>1, <1>2 DEF IInv
<1>4. ASSUME NEW c \in Clients PROVE ClientOK(c)'
  <2>1. CASE clients'[c] = clients[c]
    <3>1. ClientOK(c)
      BY DEF IInv
    <3> QED BY <1>1, <2>1, <3>1 DEF ClientOK
  <2> QED BY <2>1
<1> QED BY <1>1, <1>3, <1>4 DEF IInv, Noted, KeepsKnown

\* A client that rests names some prompt.
LEMMA IdleIs == Idle \in ClientRec /\ Idle.at = "idle"
BY DEF Idle, ClientRec, Ids

LEMMA Unmoved ==
  ASSUME IInv, UNCHANGED clients
  PROVE  /\ clients' = [c \in Clients |-> clients'[c]]
         /\ \A c \in Clients : clients'[c] = clients[c]
  BY DEF IInv

\* A client that goes on.
LEMMA Moved ==
  ASSUME IInv, NEW c \in Clients, NEW at \in {"idle", "admit", "kept", "wake", "cancel"},
         NEW i \in Prompts, Goes(c, at, i)
  PROVE  /\ clients' = [d \in Clients |-> clients'[d]]
         /\ \A d \in Clients : d # c => clients'[d] = clients[d]
         /\ clients'[c] \in ClientRec /\ clients'[c].at = at /\ clients'[c].id = i
<1> DEFINE e == [at |-> at, id |-> i]
<1>1. e \in ClientRec /\ e.at = at /\ e.id = i
  BY DEF ClientRec, Ids
<1>2. clients' = [clients EXCEPT ![c] = e]
  BY DEF Goes
<1> HIDE DEF e
<1> QED BY <1>1, <1>2 DEF IInv

LEMMA Rested ==
  ASSUME IInv, NEW c \in Clients, Done(c)
  PROVE  /\ clients' = [d \in Clients |-> clients'[d]]
         /\ \A d \in Clients : clients'[d] = clients[d] \/ ClientOK(d)'
<1>1. clients' = [clients EXCEPT ![c] = Idle] /\ Idle.at = "idle" /\ Idle \in ClientRec
  BY IdleIs DEF Done
<1>2. clients'[c] = Idle /\ \A d \in Clients : d # c => clients'[d] = clients[d]
  BY <1>1 DEF IInv
<1>3. ClientOK(c)'
  BY <1>1, <1>2 DEF ClientOK
<1> QED BY <1>1, <1>2, <1>3 DEF IInv

LEMMA Unnoted ==
  ASSUME IInv, UNCHANGED hist
  PROVE  Noted /\ \A p \in hist'.accepted : p \in hist.accepted
  BY DEF IInv, Noted

------------------------------------------------------------------------------
LEMMA InitIInv == Init => IInv
<1> SUFFICES ASSUME Init PROVE IInv
  OBVIOUS
<1>1. Tables /\ EntersOnce
  BY EmptySeq DEF Init, Tables, EntersOnce, IsInjective, ToSet
<1>2. hist \in Histories
  BY DEF Init, Histories
<1>3. clients = [c \in Clients |-> clients[c]] /\ \A c \in Clients : clients[c] = Idle
  BY DEF Init
<1>4. \A c \in Clients : ClientOK(c)
  BY <1>3, IdleIs DEF ClientOK
<1>5. \A p \in hist.accepted : Known(p)
  BY DEF Init
<1> QED BY <1>1, <1>2, <1>3, <1>4, <1>5 DEF IInv

LEMMA SendIInv == ASSUME IInv, NEW c \in Clients, NEW p \in Prompts, Send(c, p) PROVE IInv' /\ KeepsKnown
<1>1. Tables' /\ EntersOnce' /\ Keeps({})
  BY StutterKeeps DEF IInv, Send
<1>2. /\ hist' \in Histories /\ hist'.withdrawn = hist.withdrawn /\ hist'.accepted = hist.accepted
  BY DEF IInv, Send, Histories
<1>3. PICK at \in {"admit", "kept"} :
        Goes(c, at, p) /\ (at = "kept" => IsPending(p) \/ IsPromoted(p))
  BY DEF Send
<1>4. ClientOK(c)'
  <2>1. clients'[c] \in ClientRec /\ clients'[c].at = at /\ clients'[c].id = p
    BY <1>3, Moved
  <2> QED BY <1>1, <1>3, <2>1 DEF ClientOK, Known, Keeps
<1>5. Noted
  BY <1>2 DEF Noted
<1> QED BY <1>1, <1>2, <1>3, <1>4, <1>5, Moved, StepKeeps

LEMMA AdmitIInv == ASSUME IInv, NEW c \in Clients, Admit(c) PROVE IInv' /\ KeepsKnown
<1>p. PICK p \in Prompts : p = clients[c].id
  BY DEF IInv, ClientOK, Admit
<1>0. p \in Ids /\ Goes(c, "kept", p) /\ UNCHANGED transcript
  BY <1>p DEF Admit, Ids
<1>1. CASE Admissible(p)
  <2>1. /\ pending' = Append(pending, p)
        /\ hist' = [hist EXCEPT !.withdrawn = @ \ {p}, !.again = @ \cup ({p} \cap hist.withdrawn)]
    BY <1>p, <1>1 DEF Admit
  <2>2. Tables' /\ EntersOnce' /\ Keeps({}) /\ IsPending(p)'
    BY <1>0, <1>1, <2>1, AdmittedKeeps DEF IInv
  <2>3. /\ hist' \in Histories /\ hist'.withdrawn = hist.withdrawn \ {p}
        /\ hist'.accepted = hist.accepted
    BY <2>1 DEF IInv, Histories
  <2>4. Noted
    BY <1>0, <2>2, <2>3 DEF Noted
  <2>5. ClientOK(c)'
    <3>1. clients'[c] \in ClientRec /\ clients'[c].at = "kept" /\ clients'[c].id = p
      BY <1>0, Moved
    <3> QED BY <1>0, <2>2, <3>1 DEF ClientOK, Known
  <2> QED BY <1>0, <2>2, <2>3, <2>4, <2>5, Moved, StepKeeps
<1>2. CASE ~Admissible(p)
  <2>1. UNCHANGED <<pending, hist>>
    BY <1>p, <1>2 DEF Admit
  <2>2. IsPending(p) \/ IsPromoted(p)
    BY <1>2 DEF Admissible
  <2>3. Tables' /\ EntersOnce' /\ Keeps({})
    BY <1>0, <2>1, StutterKeeps DEF IInv
  <2>4. Noted /\ hist' = hist
    BY <2>1, Unnoted
  <2>5. ClientOK(c)'
    <3>1. clients'[c] \in ClientRec /\ clients'[c].at = "kept" /\ clients'[c].id = p
      BY <1>0, Moved
    <3> QED BY <1>0, <2>2, <2>3, <3>1 DEF ClientOK, Known, Keeps
  <2> QED BY <1>0, <2>3, <2>4, <2>5, Moved, StepKeeps
<1> QED BY <1>1, <1>2

LEMMA MaterializeIInv == ASSUME IInv, NEW c \in Clients, Materialize(c) PROVE IInv' /\ KeepsKnown
<1>p. PICK p \in Prompts : p = clients[c].id
  BY DEF IInv, ClientOK, Materialize
<1>0. /\ Known(p) /\ Goes(c, "wake", p)
      /\ hist' = [hist EXCEPT !.accepted = @ \cup {p}]
      /\ IF mode = "human" /\ ~Conflicts(p) THEN Promoted(p) ELSE UNCHANGED <<pending, transcript>>
  BY <1>p DEF IInv, ClientOK, Materialize
<1>1. Tables' /\ EntersOnce' /\ Keeps({})
  BY <1>0, PromotedKeeps, StutterKeeps DEF IInv, Ids
<1>2. /\ hist' \in Histories /\ hist'.withdrawn = hist.withdrawn
      /\ hist'.accepted = hist.accepted \cup {p}
  BY <1>0 DEF IInv, Histories
<1>3. Known(p)'
  BY <1>0, <1>1, <1>2 DEF Known, Keeps
<1>4. ClientOK(c)'
  <2>1. clients'[c] \in ClientRec /\ clients'[c].at = "wake" /\ clients'[c].id = p
    BY <1>0, Moved
  <2> QED BY <1>0, <2>1 DEF ClientOK
<1>5. Noted
  BY <1>2 DEF Noted
<1> QED BY <1>0, <1>1, <1>2, <1>3, <1>4, <1>5, Moved, StepKeeps

LEMMA WithdrawIInv == ASSUME IInv, NEW c \in Clients, NEW p \in Prompts, Withdraw(c, p) PROVE IInv' /\ KeepsKnown
<1>1. Tables' /\ EntersOnce' /\ Keeps({})
  BY StutterKeeps DEF IInv, Withdraw
<1>2. /\ hist' \in Histories /\ hist'.withdrawn = hist.withdrawn /\ hist'.accepted = hist.accepted
  BY DEF IInv, Withdraw, Histories
<1>3. Goes(c, "cancel", p)
  BY DEF Withdraw
<1>4. ClientOK(c)'
  <2>1. clients'[c] \in ClientRec /\ clients'[c].at = "cancel" /\ clients'[c].id = p
    BY <1>3, Moved
  <2> QED BY <2>1 DEF ClientOK
<1>5. Noted
  BY <1>2 DEF Noted
<1> QED BY <1>1, <1>2, <1>3, <1>4, <1>5, Moved, StepKeeps

LEMMA CancelIInv == ASSUME IInv, NEW c \in Clients, Cancel(c) PROVE IInv' /\ KeepsKnown
<1>p. PICK p \in Prompts : p = clients[c].id
  BY DEF IInv, ClientOK, Cancel
<1>0. Done(c)
  BY DEF Cancel
<1>1. CASE IsPending(p)
  <2>1. Cancelled(p) /\ hist' = [hist EXCEPT !.withdrawn = @ \cup {p}]
    BY <1>p, <1>1 DEF Cancel
  <2>2. Tables' /\ EntersOnce' /\ Keeps({p})
    BY <2>1, CancelledKeeps DEF IInv
  <2>3. /\ hist' \in Histories /\ hist'.withdrawn = hist.withdrawn \cup {p}
        /\ hist'.accepted = hist.accepted
    BY <1>0, <2>1 DEF IInv, Histories
  <2>4. Noted /\ {p} \subseteq hist'.withdrawn \cup Nudges
    BY <2>3 DEF Noted
  <2> QED BY <1>0, <2>2, <2>3, <2>4, Rested, StepKeeps
<1>2. CASE ~IsPending(p)
  <2>1. UNCHANGED <<pending, transcript, hist>>
    BY <1>p, <1>2 DEF Cancel
  <2>2. Tables' /\ EntersOnce' /\ Keeps({})
    BY <2>1, StutterKeeps DEF IInv
  <2>3. Noted /\ hist' = hist
    BY <2>1, Unnoted
  <2> QED BY <1>0, <2>2, <2>3, Rested, StepKeeps
<1> QED BY <1>1, <1>2

LEMMA WakeIInv == ASSUME IInv, NEW c \in Clients, Wake(c) PROVE IInv' /\ KeepsKnown
<1>1. Tables' /\ EntersOnce' /\ Keeps({}) /\ UNCHANGED hist /\ Done(c)
  BY StutterKeeps DEF IInv, Wake
<1> QED BY <1>1, Unnoted, Rested, StepKeeps

LEMMA PublishIInv == ASSUME IInv, RInv, Publish \/ Dismiss PROVE IInv' /\ KeepsKnown
<1>i. PICK i \in Ids : i = Head(runner.todo)
  <2>1. runner.todo \in Seq(Ids) /\ runner.todo # <<>>
    BY DEF RInv, RunnerRec, Publish, Dismiss
  <2> QED BY <2>1, HeadTailProperties
<1>0. UNCHANGED clients /\ UNCHANGED hist
  BY DEF Publish, Dismiss
<1>1. \/ Automated(i) /\ Cancelled(i)
      \/ ~Conflicts(i) /\ Promoted(i)
      \/ UNCHANGED <<pending, transcript>>
  BY <1>i DEF Publish, Dismiss, Unwelcome
<1>2. Noted /\ hist' = hist
  BY <1>0, Unnoted
<1>3. PICK X : X \subseteq Nudges /\ Tables' /\ EntersOnce' /\ Keeps(X)
  <2>1. CASE Automated(i) /\ Cancelled(i)
    <3>1. {i} \subseteq Nudges
      BY <2>1 DEF Automated
    <3> QED BY <2>1, <3>1, CancelledKeeps DEF IInv
  <2>2. CASE ~Conflicts(i) /\ Promoted(i)
    BY <2>2, PromotedKeeps DEF IInv
  <2>3. CASE UNCHANGED <<pending, transcript>>
    BY <2>3, StutterKeeps DEF IInv
  <2> QED BY <1>1, <2>1, <2>2, <2>3
<1> QED BY <1>0, <1>2, <1>3, Unmoved, StepKeeps

LEMMA NudgeIInv == ASSUME IInv, NEW n \in Nudges, Nudge(n) PROVE IInv' /\ KeepsKnown
<1>1. /\ UNCHANGED clients /\ UNCHANGED hist /\ Admissible(n)
      /\ pending' = Append(pending, n) /\ UNCHANGED transcript
  BY DEF Nudge
<1>2. Tables' /\ EntersOnce' /\ Keeps({})
  BY <1>1, AdmittedKeeps DEF IInv, Ids
<1>3. Noted /\ hist' = hist
  BY <1>1, Unnoted
<1> QED BY <1>1, <1>2, <1>3, Unmoved, StepKeeps

\* A step of the runner or the mode between two commits.
LEMMA QuietIInv ==
  ASSUME IInv, UNCHANGED <<pending, transcript, clients>>, hist' \in Histories,
         hist'.withdrawn = hist.withdrawn, hist'.accepted = hist.accepted
  PROVE  IInv' /\ KeepsKnown
<1>1. Tables' /\ EntersOnce' /\ Keeps({})
  BY StutterKeeps DEF IInv
<1>2. Noted
  BY DEF Noted
<1> QED BY <1>1, <1>2, Unmoved, StepKeeps

LEMMA CrashIInv == ASSUME IInv, Crash PROVE IInv' /\ KeepsKnown
<1>1. Tables' /\ EntersOnce' /\ Keeps({})
  BY StutterKeeps DEF IInv, Crash
<1>2. /\ hist' \in Histories /\ hist'.withdrawn = hist.withdrawn /\ hist'.accepted = hist.accepted
  BY DEF IInv, Crash, Histories
<1>3. clients' = [c \in Clients |-> clients'[c]] /\ \A c \in Clients : clients'[c] = Idle
  BY DEF Crash
<1>4. \A c \in Clients : ClientOK(c)'
  BY <1>3, IdleIs DEF ClientOK
<1>5. Noted
  BY <1>2 DEF Noted
<1> QED BY <1>1, <1>2, <1>3, <1>4, <1>5, StepKeeps

LEMMA NextIInv == ASSUME IInv, RInv, [Next]_vars PROVE IInv' /\ KeepsKnown
<1>1. ASSUME NEW c \in Clients, Client(c) PROVE IInv' /\ KeepsKnown
  BY <1>1, AdmitIInv, MaterializeIInv, WakeIInv, CancelIInv DEF Client
<1>2. ASSUME NEW c \in Clients, NEW p \in Prompts, Send(c, p) \/ Withdraw(c, p) PROVE IInv' /\ KeepsKnown
  BY <1>2, SendIInv, WithdrawIInv
<1>3. ASSUME Step PROVE IInv' /\ KeepsKnown
  <2>1. CASE Publish \/ Dismiss
    BY <2>1, PublishIInv
  <2>2. CASE ~(Publish \/ Dismiss)
    <3>1. UNCHANGED <<pending, transcript, clients>> /\ UNCHANGED hist
      BY <1>3, <2>2 DEF Step, Begin, Settle, Choose, Prepare, SelectSteers, Published, Boundary,
                        Halt, Boot
    <3> QED BY <3>1, QuietIInv DEF IInv
  <2> QED BY <2>1, <2>2
<1>4. ASSUME NEW n \in Nudges, Nudge(n) PROVE IInv' /\ KeepsKnown
  BY <1>4, NudgeIInv
<1>5. ASSUME NEW m \in Modes, Switch(m) PROVE IInv' /\ KeepsKnown
  <2>1. /\ hist' \in Histories /\ hist'.withdrawn = hist.withdrawn
        /\ hist'.accepted = hist.accepted
    <3> DEFINE h == hist.human \/ m = "human"
               n == hist.switches + 1
    <3>1. hist' = [hist EXCEPT !.switches = n, !.human = h]
      BY <1>5 DEF Switch
    <3>2. h \in BOOLEAN
      OBVIOUS
    <3>3. n \in 0..MaxSwitches /\ hist \in Histories
      BY <1>5 DEF IInv, Switch, Histories
    <3> HIDE DEF h, n
    <3> QED BY <3>1, <3>2, <3>3 DEF Histories
  <2> QED BY <1>5, <2>1, QuietIInv DEF Switch
<1>6. CASE Lose
  <2>1. /\ hist' \in Histories /\ hist'.withdrawn = hist.withdrawn
        /\ hist'.accepted = hist.accepted
    BY <1>6 DEF IInv, Lose, Histories
  <2> QED BY <1>6, <2>1, QuietIInv DEF Lose
<1>7. CASE Crash
  BY <1>7, CrashIInv
<1>8. CASE UNCHANGED vars
  BY <1>8, QuietIInv DEF vars, IInv
<1> QED BY <1>1, <1>2, <1>3, <1>4, <1>5, <1>6, <1>7, <1>8 DEF Next

------------------------------------------------------------------------------
\* The selection of the runner.

RowsMove ==
  \/ pending' = pending
  \/ \E e : pending' = RemoveFirst(pending, e)
  \/ \E x : /\ pending' = Append(pending, x) /\ x \in Ids /\ Admissible(x)
            /\ x \in hist.withdrawn => x \in hist'.again

HistGrows == (hist.human => hist'.human) /\ hist.again \subseteq hist'.again

\* A selected prompt gets no older one before it: rows come at the end, and one that is gone
\* comes back as a prompt that is admitted again.
LEMMA SelectionStays ==
  ASSUME IInv, KeepsKnown, RowsMove, HistGrows, NEW q \in Prompts, Selected(q)
  PROVE  Selected(q)'
<1>0. /\ Known(q)' /\ pending \in Seq(Ids)
      /\ hist.human => hist'.human
      /\ q \in hist.again => q \in hist'.again
  BY DEF Selected, KeepsKnown, HistGrows, IInv, Tables
<1>1. CASE ~IsNext(q)
  BY <1>0, <1>1 DEF Selected
<1>2. CASE IsNext(q) /\ pending' = pending
  <2>1. IsNext(q)'
    BY <1>2 DEF IsNext
  <2> QED BY <1>0, <2>1 DEF Selected
<1>3. ASSUME IsNext(q), NEW e, pending' = RemoveFirst(pending, e) PROVE Selected(q)'
  <2>1. \A i, j \in DOMAIN pending' : i < j =>
          \E a, b \in DOMAIN pending : a < b /\ pending[a] = pending'[i] /\ pending[b] = pending'[j]
    BY <1>0, <1>3, RemoveKeeps
  <2>2. IsNext(q)'
    BY <1>3, <2>1 DEF IsNext
  <2> QED BY <1>0, <2>2 DEF Selected
<1>4. ASSUME IsNext(q), NEW x \in Ids, pending' = Append(pending, x), Admissible(x),
             x \in hist.withdrawn => x \in hist'.again
      PROVE  Selected(q)'
  <2>1. CASE x = q
    <3>1. q \in hist.withdrawn
      BY <1>4, <2>1 DEF Admissible, Selected, Known
    <3> QED BY <1>0, <1>4, <2>1, <3>1 DEF Selected
  <2>2. CASE x # q
    <3>1. /\ Len(pending) \in Nat /\ DOMAIN pending = 1..Len(pending)
          /\ DOMAIN pending' = 1..(Len(pending) + 1)
          /\ \A i \in 1..Len(pending) : pending'[i] = pending[i]
          /\ pending'[Len(pending) + 1] = x
      BY <1>0, <1>4, AppendFacts
    <3>2. PICK n \in Nat : n = Len(pending)
      BY <3>1
    <3>3. ASSUME NEW i \in 1..(n + 1), NEW j \in 1..(n + 1), i < j, pending'[j] = q
          PROVE  pending'[i] \notin Prompts
      <4>1. j # n + 1
        BY <2>2, <3>1, <3>2, <3>3
      <4>2. i \in 1..n /\ j \in 1..n
        BY <3>3, <4>1
      <4> QED BY <1>4, <3>1, <3>2, <3>3, <4>2 DEF IsNext
    <3>4. IsNext(q)'
      BY <3>1, <3>2, <3>3 DEF IsNext
    <3> QED BY <1>0, <3>4 DEF Selected
  <2> QED BY <2>1, <2>2
<1> QED BY <1>1, <1>2, <1>3, <1>4 DEF RowsMove

\* A step of others, and of a runner that selects nothing new.
LEMMA Unselected ==
  ASSUME IInv, RInv, KeepsKnown, RowsMove, HistGrows, mode' \in Modes,
         mode' = "human" => hist'.human, runner' \in RunnerRec,
         ToSet(runner'.todo) \subseteq ToSet(runner.todo)
  PROVE  RInv'
<1>1. \A q \in ToSet(runner'.todo) \cap Prompts : Selected(q)'
  BY SelectionStays DEF RInv
<1> QED BY <1>1 DEF RInv

LEMMA AsleepIs == /\ Asleep \in RunnerRec /\ Asleep.todo = <<>> /\ ToSet(<<>>) = {}
                  /\ [Asleep EXCEPT !.at = "down"] \in RunnerRec
                  /\ [Asleep EXCEPT !.at = "queued"] \in RunnerRec
                  /\ [Asleep EXCEPT !.at = "down"].todo = <<>>
                  /\ [Asleep EXCEPT !.at = "queued"].todo = <<>>
<1>1. <<>> \in Seq(Ids)
  BY EmptySeq
<1>2. ToSet(<<>>) = {}
  BY DEF ToSet
<1>3. Asleep \in RunnerRec /\ Asleep.todo = <<>>
  BY <1>1 DEF Asleep, RunnerRec, RunnerPhases
<1> HIDE DEF Asleep
<1> QED BY <1>2, <1>3 DEF RunnerRec, RunnerPhases

LEMMA EndedIs ==
  ASSUME NEW r \in RunnerRec, NEW halted \in BOOLEAN
  PROVE  Ended(r, halted) \in RunnerRec /\ Ended(r, halted).todo = <<>>
<1>1. <<>> \in Seq(Ids)
  BY EmptySeq
<1> QED BY <1>1 DEF Ended, Asleep, RunnerRec, RunnerPhases

LEMMA LostIs ==
  ASSUME NEW r \in RunnerRec
  PROVE  Lost(r) \in RunnerRec /\ Lost(r).todo = <<>>
<1>1. <<>> \in Seq(Ids)
  BY EmptySeq
<1> QED BY <1>1 DEF Lost, Asleep, RunnerRec, RunnerPhases

LEMMA PublishingIs ==
  ASSUME NEW r \in RunnerRec, NEW rows \in Seq(Ids),
         NEW then \in {"asleep", "choose", "prepare", "steers", "turn"}
  PROVE  /\ Publishing(r, rows, then) \in RunnerRec /\ Publishing(r, rows, then).todo = rows
         /\ Dismissing(r, rows, then) \in RunnerRec /\ Dismissing(r, rows, then).todo = rows
BY DEF Publishing, Dismissing, RunnerRec, RunnerPhases

\* The runner may select what is next, and anything in a session that was a human's.
LEMMA Selecting ==
  ASSUME IInv, RInv, UNCHANGED <<pending, transcript, mode, hist>>, runner' \in RunnerRec,
         \A q \in ToSet(runner'.todo) \cap Prompts : q \in ToSet(runner.todo) \/ Selected(q)
  PROVE  RInv'
<1>1. \A q \in ToSet(runner'.todo) \cap Prompts : Selected(q)
  BY DEF RInv
<1>2. \A q : Selected(q) => Selected(q)'
  BY DEF Selected, Known, IsNext, IsPending, IsPromoted
<1>3. \A q \in ToSet(runner'.todo) \cap Prompts : Selected(q)'
  BY <1>1, <1>2
<1>4. mode' \in Modes /\ (mode' = "human" => hist'.human)
  BY DEF RInv
<1> QED BY <1>3, <1>4 DEF RInv

\* A nudge is no prompt.
LEMMA NoPrompts ==
  ASSUME IInv, NEW X, X \subseteq Nudges
  PROVE  Only(pending, X) \in Seq(Ids) /\ ToSet(Only(pending, X)) \cap Prompts = {}
<1>1. pending \in Seq(Ids)
  BY DEF IInv, Tables
<1>2. Only(pending, X) \in Seq(Ids) /\ ToSet(Only(pending, X)) = ToSet(pending) \cap X
  BY <1>1, OnlyFacts
<1> QED BY <1>2

LEMMA PendingAreKnown == \A q \in ToSet(pending) : Known(q)
BY DEF Known, IsPending

LEMMA SettleRInv == ASSUME IInv, RInv, Settle PROVE RInv'
<1> DEFINE next == IF runner.at = "enter" THEN "choose" ELSE "prepare"
           rows == Passive(mode)
<1>1. /\ UNCHANGED <<pending, transcript, mode, hist>> /\ runner \in RunnerRec
      /\ \/ mode = "agent" /\ runner' = [runner EXCEPT !.at = next]
         \/ mode = "human" /\ runner' = Publishing(runner, rows, "asleep")
         \/ mode = "chat" /\ runner' = Dismissing(runner, rows, next)
  BY DEF Settle, RInv, Modes
<1>2. next \in {"choose", "prepare"}
  OBVIOUS
<1>3. /\ rows \in Seq(Ids)
      /\ \A q \in ToSet(rows) \cap Prompts : Selected(q)
  <2>1. CASE mode = "human"
    <3>1. rows = pending /\ hist.human
      BY <2>1 DEF Passive, RInv
    <3>2. pending \in Seq(Ids)
      BY DEF IInv, Tables
    <3> QED BY <3>1, <3>2, PendingAreKnown DEF Selected
  <2>2. CASE mode # "human"
    <3>1. rows = Only(pending, Nudges)
      BY <2>2 DEF Passive
    <3> QED BY <3>1, NoPrompts
  <2> QED BY <2>1, <2>2
<1> HIDE DEF next, rows
<1>4. CASE mode = "agent"
  <2>1. runner' = [runner EXCEPT !.at = next]
    BY <1>1, <1>4
  <2>2. runner' \in RunnerRec /\ runner'.todo = runner.todo
    BY <1>1, <1>2, <2>1 DEF RunnerRec, RunnerPhases
  <2> QED BY <1>1, <2>2, Selecting
<1>5. CASE mode # "agent"
  <2>1. \/ runner' = Publishing(runner, rows, "asleep")
        \/ runner' = Dismissing(runner, rows, next)
    BY <1>1, <1>5
  <2>2. /\ Publishing(runner, rows, "asleep") \in RunnerRec
        /\ Publishing(runner, rows, "asleep").todo = rows
    <3>1. "asleep" \in {"asleep", "choose", "prepare", "steers", "turn"}
      OBVIOUS
    <3> QED BY <1>1, <1>3, <3>1, PublishingIs
  <2>3. Dismissing(runner, rows, next) \in RunnerRec /\ Dismissing(runner, rows, next).todo = rows
    <3>1. next \in {"asleep", "choose", "prepare", "steers", "turn"}
      BY <1>2
    <3> QED BY <1>1, <1>3, <3>1, PublishingIs
  <2>4. runner' \in RunnerRec /\ runner'.todo = rows
    BY <2>1, <2>2, <2>3
  <2> QED BY <1>1, <1>3, <2>4, Selecting
<1> QED BY <1>4, <1>5

\* promoteNextQueued() selects a prompt that has no older one before it.
LEMMA NextQueuedIs ==
  ASSUME IInv
  PROVE  LET rows == NextQueued(Only(pending, Prompts)) IN
         rows \in Seq(Ids) /\ \A q \in ToSet(rows) : Selected(q)
<1> DEFINE o == Only(pending, Prompts)
           rows == NextQueued(o)
<1>1. pending \in Seq(Ids) /\ IsInjective(pending)
  BY DEF IInv, Tables
<1>2. /\ o \in Seq(Ids) /\ ToSet(o) = ToSet(pending) \cap Prompts
      /\ o # <<>> => \E k \in DOMAIN pending :
                       o[1] = pending[k] /\ \A i \in 1..(k - 1) : pending[i] \notin Prompts
  BY <1>1, OnlyFacts
<1> HIDE DEF o
<1>3. CASE o = <<>>
  <2>1. rows = <<>> /\ <<>> \in Seq(Ids) /\ ToSet(<<>>) = {}
    BY <1>3, EmptySeq, AsleepIs DEF NextQueued
  <2> HIDE DEF rows
  <2>2. rows \in Seq(Ids) /\ \A q \in ToSet(rows) : Selected(q)
    BY <2>1
  <2> QED BY <2>2 DEF rows, o
<1>4. CASE o # <<>>
  <2>1. PICK k \in DOMAIN pending :
          o[1] = pending[k] /\ \A i \in 1..(k - 1) : pending[i] \notin Prompts
    BY <1>2, <1>4
  <2>2. PICK q \in Ids : q = pending[k]
    BY <1>1, ElementOfSeq, LenProperties
  <2>3. rows = <<q>>
    BY <1>4, <2>1, <2>2 DEF NextQueued
  <2>4. <<q>> \in Seq(Ids) /\ ToSet(<<q>>) = {q}
    BY DEF ToSet
  <2>5. DOMAIN pending = 1..Len(pending) /\ Len(pending) \in Nat
    BY <1>1, LenProperties
  <2>6. ASSUME NEW i \in DOMAIN pending, NEW j \in DOMAIN pending, i < j, pending[j] = q
        PROVE  pending[i] \notin Prompts
    <3>1. j = k
      BY <1>1, <2>2, <2>6 DEF IsInjective
    <3>2. i \in 1..(k - 1)
      BY <2>5, <2>6, <3>1
    <3> QED BY <2>1, <3>2
  <2>7. IsNext(q) /\ Known(q)
    BY <2>2, <2>6, PendingAreKnown DEF IsNext, ToSet
  <2>8. rows \in Seq(Ids) /\ \A x \in ToSet(rows) : Selected(x)
    <3> HIDE DEF rows
    <3> QED BY <2>3, <2>4, <2>7 DEF Selected
  <2> QED BY <2>8 DEF rows, o
<1> QED BY <1>3, <1>4

LEMMA PrepareRInv == ASSUME IInv, RInv, Prepare PROVE RInv'
<1> DEFINE r == [runner EXCEPT !.cutoff = {i \in ToSet(pending) : Automated(i)}, !.promotion = "none"]
           rows == NextQueued(Only(pending, Prompts))
<1>1. /\ UNCHANGED <<pending, transcript, mode, hist>> /\ runner \in RunnerRec
      /\ runner' = CASE runner.promotion = "none" -> [r EXCEPT !.at = "turn", !.cutoff = {}]
                     [] runner.promotion = "steer" -> [r EXCEPT !.at = "steers"]
                     [] OTHER -> Publishing(r, rows, "steers")
  BY DEF Prepare, RInv
<1>2. rows \in Seq(Ids) /\ \A q \in ToSet(rows) : Selected(q)
  BY NextQueuedIs
<1>3. r \in RunnerRec /\ r.todo = runner.todo
  <2>1. {i \in ToSet(pending) : Automated(i)} \subseteq Ids
    BY DEF Automated, Ids
  <2> QED BY <1>1, <2>1 DEF RunnerRec
<1> HIDE DEF r, rows
<1>4. CASE runner.promotion \in {"none", "steer"}
  <2>1. runner' = [r EXCEPT !.at = "turn", !.cutoff = {}] \/ runner' = [r EXCEPT !.at = "steers"]
    BY <1>1, <1>4
  <2>2. runner' \in RunnerRec /\ runner'.todo = runner.todo
    BY <1>3, <2>1 DEF RunnerRec, RunnerPhases
  <2> QED BY <1>1, <2>2, Selecting
<1>5. CASE runner.promotion \notin {"none", "steer"}
  <2>1. runner' = Publishing(r, rows, "steers")
    BY <1>1, <1>5
  <2>2. runner' \in RunnerRec /\ runner'.todo = rows
    BY <1>2, <1>3, <2>1, PublishingIs
  <2> QED BY <1>1, <1>2, <2>2, Selecting
<1> QED BY <1>4, <1>5

LEMMA SelectSteersRInv == ASSUME IInv, RInv, SelectSteers PROVE RInv'
<1> DEFINE r == [runner EXCEPT !.cutoff = {}]
           rows == Only(pending, Nudges \cap runner.cutoff)
<1>1. /\ UNCHANGED <<pending, transcript, mode, hist>> /\ runner \in RunnerRec
      /\ runner' = Publishing(r, rows, "turn")
  BY DEF SelectSteers, RInv
<1>2. rows \in Seq(Ids) /\ ToSet(rows) \cap Prompts = {}
  BY NoPrompts
<1>3. r \in RunnerRec
  BY <1>1 DEF RunnerRec
<1> HIDE DEF r, rows
<1>4. runner' \in RunnerRec /\ runner'.todo = rows
  BY <1>1, <1>2, <1>3, PublishingIs
<1> QED BY <1>1, <1>2, <1>4, Selecting

LEMMA PublishRInv == ASSUME IInv, RInv, KeepsKnown, Publish \/ Dismiss PROVE RInv'
<1>1. /\ UNCHANGED <<mode, hist>> /\ runner \in RunnerRec
      /\ runner.todo \in Seq(Ids) /\ runner.todo # <<>>
  BY DEF Publish, Dismiss, RInv, RunnerRec
<1>2. /\ RowsMove
      /\ runner' = [runner EXCEPT !.todo = Tail(@)] \/ runner' = Lost(runner)
  BY DEF Publish, Dismiss, Cancelled, Promoted, RowsMove
<1>3. Tail(runner.todo) \in Seq(Ids) /\ ToSet(Tail(runner.todo)) \subseteq ToSet(runner.todo)
  <2> DEFINE t == runner.todo
  <2>1. t \in Seq(Ids) /\ t # <<>>
    BY <1>1
  <2> HIDE DEF t
  <2>2. /\ Tail(t) \in Seq(Ids) /\ Len(Tail(t)) = Len(t) - 1
        /\ \A i \in 1..Len(Tail(t)) : Tail(t)[i] = t[i + 1]
    BY <2>1, HeadTailProperties
  <2>3. DOMAIN t = 1..Len(t) /\ Len(t) \in Nat /\ DOMAIN Tail(t) = 1..Len(Tail(t))
    BY <2>1, <2>2, LenProperties
  <2>4. ToSet(Tail(t)) \subseteq ToSet(t)
    BY <2>2, <2>3 DEF ToSet
  <2> QED BY <2>2, <2>4 DEF t
<1>4. runner' \in RunnerRec /\ ToSet(runner'.todo) \subseteq ToSet(runner.todo)
  <2>1. CASE runner' = [runner EXCEPT !.todo = Tail(@)]
    <3>1. runner' \in RunnerRec /\ runner'.todo = Tail(runner.todo)
      BY <1>1, <1>3, <2>1 DEF RunnerRec
    <3> QED BY <1>3, <3>1
  <2>2. CASE runner' = Lost(runner)
    <3>1. runner' \in RunnerRec /\ runner'.todo = <<>>
      BY <1>1, <2>2, LostIs
    <3> QED BY <3>1, AsleepIs
  <2> QED BY <1>2, <2>1, <2>2
<1>5. HistGrows /\ mode' \in Modes /\ (mode' = "human" => hist'.human)
  BY <1>1 DEF HistGrows, RInv
<1> QED BY <1>2, <1>4, <1>5, Unselected

\* A drain that begins, looks, ends or starts again selects nothing.
LEMMA RunnerRInv ==
  ASSUME IInv, RInv,
         Begin \/ Choose \/ Published \/ Boundary(FALSE) \/ Boundary(TRUE) \/ Halt \/ Boot
  PROVE  RInv'
<1>1. UNCHANGED <<pending, transcript, mode, hist>> /\ runner \in RunnerRec
  BY DEF Begin, Choose, Published, Boundary, Halt, Boot, RInv
<1>2. \/ runner' \in RunnerRec /\ runner'.todo = runner.todo
      \/ runner' \in RunnerRec /\ runner'.todo = <<>>
  <2>1. CASE Begin
    <3>1. runner' = [runner EXCEPT !.at = "enter", !.owed = FALSE]
      BY <2>1 DEF Begin
    <3> QED BY <1>1, <3>1 DEF RunnerRec, RunnerPhases
  <2>2. CASE Choose
    <3>1. PICK p \in {"none", "queue", "steer"} :
            \/ runner' = [runner EXCEPT !.at = "head", !.force = FALSE, !.promotion = p]
            \/ runner' = Ended(runner, FALSE)
      BY <2>2 DEF Choose
    <3>2. CASE runner' = [runner EXCEPT !.at = "head", !.force = FALSE, !.promotion = p]
      BY <1>1, <3>2 DEF RunnerRec, RunnerPhases
    <3>3. CASE runner' = Ended(runner, FALSE)
      BY <1>1, <3>3, EndedIs
    <3> QED BY <3>1, <3>2, <3>3
  <2>3. CASE Published
    <3>1. \/ runner' = Ended(runner, FALSE)
          \/ runner' = [runner EXCEPT !.at = runner.then, !.then = "asleep"]
      BY <2>3 DEF Published
    <3>2. CASE runner' = Ended(runner, FALSE)
      BY <1>1, <3>2, EndedIs
    <3>3. CASE runner' = [runner EXCEPT !.at = runner.then, !.then = "asleep"]
      BY <1>1, <3>3 DEF RunnerRec, RunnerPhases
    <3> QED BY <3>1, <3>2, <3>3
  <2>4. CASE Boundary(FALSE) \/ Boundary(TRUE)
    <3>1. PICK p \in {"queue", "steer"} :
            \/ runner' = [runner EXCEPT !.at = "head", !.promotion = p]
            \/ runner' = Ended(runner, FALSE)
      BY <2>4 DEF Boundary
    <3>2. CASE runner' = [runner EXCEPT !.at = "head", !.promotion = p]
      BY <1>1, <3>2 DEF RunnerRec, RunnerPhases
    <3>3. CASE runner' = Ended(runner, FALSE)
      BY <1>1, <3>3, EndedIs
    <3> QED BY <3>1, <3>2, <3>3
  <2>5. CASE Halt
    <3>1. runner' = Ended(runner, TRUE)
      BY <2>5 DEF Halt
    <3> QED BY <1>1, <3>1, EndedIs
  <2>6. CASE Boot
    <3>1. runner' = Lost(Asleep) \/ runner' = [Asleep EXCEPT !.at = "queued"] \/ runner' = Asleep
      BY <2>6 DEF Boot, BootWakes
    <3> QED BY <3>1, AsleepIs, LostIs
  <2> QED BY <2>1, <2>2, <2>3, <2>4, <2>5, <2>6
<1>3. runner' \in RunnerRec /\ ToSet(runner'.todo) \subseteq ToSet(runner.todo)
  BY <1>2, AsleepIs
<1> QED BY <1>1, <1>3, Selecting

LEMMA ClientRInv ==
  ASSUME IInv, RInv, KeepsKnown, NEW c \in Clients,
         Client(c) \/ \E p \in Prompts : Send(c, p) \/ Withdraw(c, p)
  PROVE  RInv'
<1>1. mode' = mode /\ runner \in RunnerRec
  BY DEF Client, Send, Withdraw, Admit, Materialize, Wake, Cancel, RInv
<1>2. RowsMove /\ HistGrows
  <2>1. CASE Admit(c)
    <3>1. PICK p \in Ids : p = clients[c].id
      BY <2>1 DEF IInv, ClientOK, ClientRec
    <3>2. CASE Admissible(p)
      <4>1. /\ pending' = Append(pending, p)
            /\ hist' = [hist EXCEPT !.withdrawn = @ \ {p},
                                    !.again = @ \cup ({p} \cap hist.withdrawn)]
        BY <2>1, <3>1, <3>2 DEF Admit
      <4>2. hist'.again = hist.again \cup ({p} \cap hist.withdrawn) /\ hist'.human = hist.human
        BY <4>1 DEF IInv, Histories
      <4> QED BY <3>1, <3>2, <4>1, <4>2 DEF RowsMove, HistGrows
    <3>3. CASE ~Admissible(p)
      BY <2>1, <3>1, <3>3 DEF Admit, RowsMove, HistGrows
    <3> QED BY <3>2, <3>3
  <2>2. CASE Materialize(c)
    <3>1. RowsMove
      BY <2>2 DEF Materialize, Promoted, RowsMove
    <3>2. hist'.again = hist.again /\ hist'.human = hist.human
      BY <2>2 DEF Materialize, IInv, Histories
    <3> QED BY <3>1, <3>2 DEF HistGrows
  <2>3. CASE Wake(c)
    BY <2>3 DEF Wake, RowsMove, HistGrows
  <2>4. CASE Cancel(c)
    <3>1. RowsMove
      BY <2>4 DEF Cancel, Cancelled, RowsMove
    <3>2. hist'.again = hist.again /\ hist'.human = hist.human
      BY <2>4 DEF Cancel, IInv, Histories
    <3> QED BY <3>1, <3>2 DEF HistGrows
  <2>5. ASSUME NEW p \in Prompts, Send(c, p) \/ Withdraw(c, p) PROVE RowsMove /\ HistGrows
    <3>1. pending' = pending /\ hist' = [hist EXCEPT !.calls = @ + 1]
      BY <2>5 DEF Send, Withdraw
    <3>2. hist'.again = hist.again /\ hist'.human = hist.human
      BY <3>1 DEF IInv, Histories
    <3> QED BY <3>1, <3>2 DEF RowsMove, HistGrows
  <2> QED BY <2>1, <2>2, <2>3, <2>4, <2>5 DEF Client
<1>3. runner' \in RunnerRec /\ runner'.todo = runner.todo
  <2>1. CASE Wake(c)
    <3>1. \/ runner' = [runner EXCEPT !.at = "queued", !.halted = FALSE]
          \/ runner' = [runner EXCEPT !.owed = TRUE]
      BY <2>1 DEF Wake, WakeUp
    <3> QED BY <1>1, <3>1 DEF RunnerRec, RunnerPhases
  <2>2. CASE ~Wake(c)
    <3>1. runner' = runner
      BY <2>2 DEF Client, Send, Withdraw, Admit, Materialize, Cancel
    <3> QED BY <1>1, <3>1
  <2> QED BY <2>1, <2>2
<1>4. mode' \in Modes /\ (mode' = "human" => hist'.human)
  BY <1>1, <1>2 DEF RInv, HistGrows
<1> QED BY <1>2, <1>3, <1>4, Unselected

\* The harness, the settings, lost workers and crashes.
LEMMA OthersRInv ==
  ASSUME IInv, RInv, KeepsKnown,
         (\E n \in Nudges : Nudge(n)) \/ (\E m \in Modes : Switch(m)) \/ Lose \/ Crash
  PROVE  RInv'
<1>1. runner \in RunnerRec /\ mode \in Modes /\ (mode = "human" => hist.human)
  BY DEF RInv
<1>2. ASSUME NEW n \in Nudges, Nudge(n) PROVE RInv'
  <2>1. /\ pending' = Append(pending, n) /\ Admissible(n) /\ n \in Ids /\ n \notin hist.withdrawn
        /\ UNCHANGED <<mode, runner, hist>>
    BY <1>2 DEF Nudge, Ids, IInv, Histories
  <2>2. RowsMove /\ HistGrows
    BY <2>1 DEF RowsMove, HistGrows
  <2> QED BY <1>1, <2>1, <2>2, Unselected
<1>3. ASSUME NEW m \in Modes, Switch(m) PROVE RInv'
  <2> DEFINE human == hist.human \/ m = "human"
             n == hist.switches + 1
  <2>1. /\ mode' = m /\ UNCHANGED <<pending, runner>>
        /\ hist' = [hist EXCEPT !.switches = n, !.human = human]
    BY <1>3 DEF Switch
  <2> HIDE DEF human, n
  <2>2. hist'.human = human /\ hist'.again = hist.again
    BY <2>1 DEF IInv, Histories
  <2>3. RowsMove /\ HistGrows /\ (mode' = "human" => hist'.human)
    BY <2>1, <2>2 DEF RowsMove, HistGrows, human
  <2> QED BY <1>1, <2>1, <2>3, Unselected
<1>4. CASE Lose \/ Crash
  <2>1. /\ UNCHANGED <<mode, pending>> /\ hist' = [hist EXCEPT !.mishaps = @ + 1]
        /\ runner' = Lost(runner) \/ runner' = [Asleep EXCEPT !.at = "down"]
    BY <1>4 DEF Lose, Crash
  <2>2. hist'.human = hist.human /\ hist'.again = hist.again
    BY <2>1 DEF IInv, Histories
  <2>3. RowsMove /\ HistGrows /\ (mode' = "human" => hist'.human)
    BY <1>1, <2>1, <2>2 DEF RowsMove, HistGrows
  <2>4. runner' \in RunnerRec /\ runner'.todo = <<>>
    BY <1>1, <2>1, AsleepIs, LostIs
  <2> QED BY <1>1, <2>1, <2>3, <2>4, AsleepIs, Unselected
<1> QED BY <1>2, <1>3, <1>4

LEMMA NextRInv == ASSUME IInv, RInv, [Next]_vars PROVE RInv'
<1>1. KeepsKnown
  BY NextIInv
<1>2. CASE Step
  BY <1>1, <1>2, PublishRInv, RunnerRInv, SettleRInv, PrepareRInv, SelectSteersRInv DEF Step
<1>3. CASE UNCHANGED vars
  <2>1. UNCHANGED <<pending, transcript, mode, hist>> /\ runner' = runner
    BY <1>3 DEF vars
  <2> QED BY <2>1, Selecting DEF RInv
<1> QED BY <1>1, <1>2, <1>3, ClientRInv, OthersRInv DEF Next

LEMMA InitRInv == Init => RInv
<1> SUFFICES ASSUME Init PROVE RInv
  OBVIOUS
<1>1. mode \in {"agent", "chat"} /\ runner = Asleep
  BY DEF Init
<1> QED BY <1>1, AsleepIs DEF RInv, Modes

\* The tables, the clients and their notes agree, and the runner has selected what is next.
Inv == IInv /\ RInv

\* Every commit of client, runner and harness keeps it, and so do crashes and lost workers.
THEOREM Invariance == Spec => []Inv
<1>1. Init => Inv
  BY InitIInv, InitRInv DEF Inv
<1>2. Inv /\ [Next]_vars => Inv'
  BY NextIInv, NextRInv DEF Inv
<1> QED BY <1>1, <1>2, PTL DEF Spec

\* The types of the variables: the table has one row per id.
THEOREM TypeCorrect == Spec => []TypeOK
<1>1. ASSUME Inv PROVE TypeOK
  <2>1. clients \in [Clients -> ClientRec]
    BY <1>1 DEF Inv, IInv, ClientOK
  <2> QED BY <1>1, <2>1 DEF Inv, IInv, RInv, Tables, TypeOK
<1> QED BY <1>1, Invariance, PTL

\* input.ts: however often a prompt is sent, and whoever promotes it after whatever look at the
\* table, it enters the transcript once.
THEOREM OnceOnly == Spec => []EntersOnce
<1>1. Inv => EntersOnce
  BY DEF Inv, IInv
<1> QED BY <1>1, Invariance, PTL

\* input.ts: a prompt whose admission was answered is in the table or in the transcript until
\* its client withdraws it.
THEOREM NothingIsLost == Spec => []AcceptedIsKept
<1>1. Inv => AcceptedIsKept
  BY DEF Inv, IInv, AcceptedIsKept, Known
<1> QED BY <1>1, Invariance, PTL

\* input.ts, promoteNextQueued() and publish(): no prompt is promoted past an older one, though
\* rows come and go between the selection and the commit; a session of a human and a prompt
\* that came back are excused.
THEOREM FirstComeFirstServed == Spec => PromptsInOrder
<1> DEFINE Order ==
      \A p, q \in Prompts :
        /\ \E i, j \in 1..Len(pending) : i < j /\ pending[i] = p /\ pending[j] = q
        /\ IsPromoted(q)' /\ ~IsPromoted(q)
        => ~IsPending(p)' \/ hist.human \/ q \in hist.again
<1>1. ASSUME Inv, [Next]_vars, ~(UNCHANGED vars) PROVE Order
  <2> SUFFICES ASSUME NEW p \in Prompts, NEW q \in Prompts,
                      NEW i \in 1..Len(pending), NEW j \in 1..Len(pending),
                      i < j, pending[i] = p, pending[j] = q,
                      IsPromoted(q)', ~IsPromoted(q), ~hist.human, q \notin hist.again
               PROVE  FALSE
    OBVIOUS
  <2>1. IInv /\ RInv /\ Tables /\ EntersOnce /\ pending \in Seq(Ids)
    BY <1>1 DEF Inv, IInv, Tables
  <2>2. transcript' # transcript
    BY DEF IsPromoted
  <2>3. ~\E c \in Clients : Materialize(c)
    BY <2>1, <2>2 DEF Materialize, RInv
  <2>4. Publish
    BY <1>1, <2>2, <2>3
    DEF Next, Client, Step, Admit, Wake, Cancel, Cancelled, Send, Withdraw, Begin, Settle, Choose,
        Prepare, SelectSteers, Dismiss, Published, Boundary, Halt, Boot, Nudge, Switch, Lose, Crash
  <2>5. runner.todo \in Seq(Ids) /\ runner.todo # <<>>
    BY <2>1, <2>4 DEF RInv, RunnerRec, Publish
  <2>6. Head(runner.todo) \in Ids /\ Head(runner.todo) \in ToSet(runner.todo)
    <3> DEFINE t == runner.todo
    <3>1. t \in Seq(Ids) /\ t # <<>>
      BY <2>5
    <3> HIDE DEF t
    <3>2. Head(t) \in Ids /\ Head(t) = t[1] /\ Len(t) # 0 /\ Len(t) \in Nat /\ DOMAIN t = 1..Len(t)
      BY <3>1, HeadTailProperties, EmptySeq, LenProperties
    <3>3. Head(t) \in ToSet(t)
      BY <3>2 DEF ToSet
    <3> QED BY <3>2, <3>3 DEF t
  <2>7. PICK x \in Ids : x = Head(runner.todo)
    BY <2>6
  <2>8. ~Conflicts(x) /\ Promoted(x)
    BY <2>2, <2>4, <2>7 DEF Publish, Cancelled
  <2>9. x = q
    BY <2>1, <2>8, PromotedKeeps
  <2>10. Selected(q)
    BY <2>1, <2>6, <2>7, <2>9 DEF RInv
  <2>11. IsNext(q) /\ DOMAIN pending = 1..Len(pending)
    BY <2>1, <2>10, LenProperties DEF Selected
  <2> QED BY <2>11 DEF IsNext
<1>2. Inv /\ [Next]_vars => [Order]_vars
  BY <1>1
<1> QED BY <1>2, Invariance, PTL DEF Spec, PromptsInOrder
==============================================================================
