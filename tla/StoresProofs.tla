---------------------------- MODULE StoresProofs ----------------------------
(***************************************************************************)
(* Theorems about the stores that requests share without a lock: for any   *)
(* number of goroutines, any file, any length and any interval.            *)
(***************************************************************************)
EXTENDS MCStores, FiniteSetTheorems, SequenceTheorems, TLAPS

Seen(s) == SessionCache!Seen(s)
Distinct(s) == \A m, n \in 1..Len(s) : s[m] = s[n] => m = n

\* a stands before b in s.
Before(s, a, b) == \E m, n \in 1..Len(s) : m < n /\ s[m] = a /\ s[n] = b

\* Taking a key out leaves the others, in their order.
LEMMA WithoutFacts ==
    ASSUME NEW s \in Seq(Keys), Distinct(s), NEW k \in Keys, NEW r, r = SessionCache!Without(s, k)
    PROVE  /\ r \in Seq(Keys) /\ Distinct(r)
           /\ Seen(r) = Seen(s) \ {k}
           /\ \A a, b : Before(r, a, b) => Before(s, a, b)
  <1> USE DEF Seen, SessionCache!Seen, Distinct, Before
  <1>1. CASE k \notin Seen(s)
    BY <1>1 DEF SessionCache!Without
  <1>2. CASE k \in Seen(s)
    <2> DEFINE p == CHOOSE n \in 1..Len(s) : s[n] = k
               At(n) == IF n < p THEN s[n] ELSE s[n + 1]
    <2>1. p \in 1..Len(s) /\ s[p] = k
      BY <1>2
    <2>2. r = SubSeq(s, 1, p - 1) \o SubSeq(s, p + 1, Len(s))
      BY <1>2 DEF SessionCache!Without
    <2> HIDE DEF p
    <2>3. /\ r \in Seq(Keys) /\ Len(r) = Len(s) - 1
          /\ \A n \in 1..Len(r) : r[n] = At(n)
      <3>0. Len(s) \in Nat /\ \A n \in 1..Len(s) : s[n] \in Keys
        BY LenProperties
      <3> DEFINE u == SubSeq(s, 1, p - 1)
                 v == SubSeq(s, p + 1, Len(s))
      <3>1. u \in Seq(Keys) /\ Len(u) = p - 1 /\ \A n \in 1..(p - 1) : u[n] = s[n]
        BY <2>1, <3>0, SubSeqProperties
      <3>2. /\ v \in Seq(Keys) /\ Len(v) = Len(s) - p
            /\ \A n \in 1..(Len(s) - p) : v[n] = s[p + n]
        BY <2>1, <3>0, SubSeqProperties
      <3> HIDE DEF u, v
      <3>3. /\ r \in Seq(Keys) /\ Len(r) = Len(u) + Len(v)
            /\ \A n \in 1..(Len(u) + Len(v)) : r[n] = IF n <= Len(u) THEN u[n] ELSE v[n - Len(u)]
        BY <2>2, <3>1, <3>2, ConcatProperties DEF u, v
      <3> QED BY <2>1, <3>0, <3>1, <3>2, <3>3
    <2>a. Len(s) \in Nat /\ Len(r) \in Nat
      BY <2>3, LenProperties
    <2>4. Distinct(r)
      BY <2>1, <2>3, <2>a
    <2>5. Seen(r) = Seen(s) \ {k}
      <3>1. ASSUME NEW m \in 1..Len(s), m # p PROVE \E n \in 1..Len(r) : r[n] = s[m]
        <4>1. CASE m < p
          BY <2>1, <2>3, <2>a, <3>1, <4>1
        <4>2. CASE m > p
          <5>1. m - 1 \in 1..Len(r) /\ r[m - 1] = s[m]
            BY <2>1, <2>3, <2>a, <4>2
          <5> QED BY <5>1
        <4> QED BY <2>1, <3>1, <4>1, <4>2
      <3>2. ASSUME NEW n \in 1..Len(r) PROVE \E m \in 1..Len(s) : m # p /\ r[n] = s[m]
        <4>1. CASE n < p
          BY <2>1, <2>3, <2>a, <4>1
        <4>2. CASE n >= p
          <5>1. n + 1 \in 1..Len(s) /\ n + 1 # p /\ r[n] = s[n + 1]
            BY <2>1, <2>3, <2>a, <4>2
          <5> QED BY <5>1
        <4> QED BY <2>1, <2>a, <4>1, <4>2
      <3>3. \A m \in 1..Len(s) : s[m] = k <=> m = p
        BY <2>1
      <3>4. Seen(r) \subseteq Seen(s) \ {k}
        BY <3>2, <3>3
      <3>5. Seen(s) \ {k} \subseteq Seen(r)
        BY <2>1, <3>1
      <3> QED BY <3>4, <3>5
    <2>6. ASSUME NEW a, NEW b, Before(r, a, b) PROVE Before(s, a, b)
      <3>1. PICK m, n \in 1..Len(r) : m < n /\ r[m] = a /\ r[n] = b
        BY <2>6
      <3> DEFINE m1 == IF m < p THEN m ELSE m + 1
                 n1 == IF n < p THEN n ELSE n + 1
      <3>2. /\ m1 \in 1..Len(s) /\ n1 \in 1..Len(s) /\ m1 < n1
            /\ s[m1] = a /\ s[n1] = b
        BY <2>1, <2>3, <2>a, <3>1
      <3> QED BY <3>2
    <2> QED BY <2>3, <2>4, <2>5, <2>6
  <1> QED BY <1>1, <1>2

\* Using a key makes it the last; what leaves is the first of more than Length.
LEMMA RecentFacts ==
    ASSUME BoundsAssumption,
           NEW s \in Seq(Keys), Distinct(s), NEW k \in Keys, NEW r, r = SessionCache!Recent(s, k)
    PROVE  /\ r \in Seq(Keys) /\ Distinct(r)
           /\ k \in Seen(r) /\ Seen(r) \subseteq Seen(s) \cup {k}
           /\ \A b : ~Before(r, k, b)
           /\ \A a, b : Before(r, a, b) => b = k \/ Before(s, a, b)
           /\ \A a \in Seen(s) \ (Seen(r) \cup {k}) :
                /\ Len(r) >= Length
                /\ \A b \in Seen(r) : b = k \/ Before(s, a, b)
  <1> DEFINE w == SessionCache!Without(s, k)
             t == Append(w, k)
  <1>1. /\ w \in Seq(Keys) /\ Distinct(w)
        /\ Seen(w) = Seen(s) \ {k}
        /\ \A a, b : Before(w, a, b) => Before(s, a, b)
    BY WithoutFacts
  <1>2. r = IF Len(t) > Length THEN Tail(t) ELSE t
    BY DEF SessionCache!Recent
  <1> HIDE DEF w
  <1> USE DEF Seen, SessionCache!Seen, Distinct, Before
  <1>3. /\ t \in Seq(Keys) /\ Len(t) = Len(w) + 1
        /\ t[Len(t)] = k /\ \A n \in 1..Len(w) : t[n] = w[n] /\ t[n] # k
    <2>1. /\ t \in Seq(Keys) /\ Len(t) = Len(w) + 1
          /\ t[Len(t)] = k /\ \A n \in 1..Len(w) : t[n] = w[n]
      BY <1>1, AppendProperties
    <2>2. \A n \in 1..Len(w) : w[n] # k
      BY <1>1
    <2> QED BY <2>1, <2>2
  <1>a. Len(w) \in Nat /\ Len(t) \in Nat /\ Len(s) \in Nat
    BY <1>1, <1>3, LenProperties
  <1>4. Distinct(t)
    BY <1>1, <1>3, <1>a
  <1>5. ASSUME NEW a, NEW b, Before(t, a, b) PROVE a # k /\ (b = k \/ Before(w, a, b))
    <2>1. PICK m, n \in 1..Len(t) : m < n /\ t[m] = a /\ t[n] = b
      BY <1>5
    <2>2. m \in 1..Len(w)
      BY <1>3, <1>a, <2>1
    <2>3. n \in 1..Len(w) \/ n = Len(t)
      BY <1>3, <1>a
    <2> QED BY <1>3, <2>1, <2>2, <2>3
  <1> HIDE DEF t
  <1>6. CASE ~(Len(t) > Length)
    <2>1. r = t
      BY <1>2, <1>6
    <2>2. Seen(t) = Seen(s) \cup {k}
      <3>1. Seen(t) = Seen(w) \cup {k}
        BY <1>3, <1>a
      <3> QED BY <1>1, <3>1
    <2>3. \A a \in Seen(s) : a \in Seen(r) \cup {k}
      BY <2>1, <2>2
    <2> HIDE DEF Before, Seen, SessionCache!Seen, Distinct
    <2>4. \A b : ~Before(r, k, b)
      BY <1>5, <2>1
    <2>5. \A a, b : Before(r, a, b) => b = k \/ Before(s, a, b)
      BY <1>1, <1>5, <2>1
    <2> QED BY <1>3, <1>4, <2>1, <2>2, <2>3, <2>4, <2>5
  <1>7. CASE Len(t) > Length
    <2>1. r = Tail(t) /\ Length \in Nat \ {0}
      BY <1>2, <1>7 DEF BoundsAssumption
    <2>2. /\ r \in Seq(Keys) /\ Len(r) = Len(t) - 1 /\ Len(r) >= Length
          /\ \A n \in 1..Len(r) : r[n] = t[n + 1]
      <3>1. t # <<>>
        BY <1>7, <2>1, EmptySeq
      <3>2. r \in Seq(Keys) /\ Len(r) = Len(t) - 1 /\ \A n \in 1..Len(r) : r[n] = t[n + 1]
        BY <1>3, <2>1, <3>1, HeadTailProperties
      <3> QED BY <1>7, <1>a, <2>1, <3>2
    <2>a. Len(r) \in Nat
      BY <1>a, <2>2, LenProperties
    <2>3. Distinct(r)
      BY <1>4, <1>a, <2>2, <2>a
    <2>4. k \in Seen(r) /\ Seen(r) \subseteq Seen(s) \cup {k}
      <3>1. Len(r) \in 1..Len(r) /\ r[Len(r)] = k
        <4>1. Len(r) \in 1..Len(r) /\ Len(r) + 1 = Len(t)
          BY <1>a, <2>1, <2>2, <2>a
        <4> QED BY <1>3, <2>2, <4>1
      <3>2. Seen(t) \subseteq Seen(s) \cup {k}
        <4>1. Seen(t) = Seen(w) \cup {k}
          BY <1>3, <1>a
        <4> QED BY <1>1, <4>1
      <3>3. Seen(r) \subseteq Seen(t)
        BY <1>a, <2>2, <2>a
      <3> QED BY <3>1, <3>2, <3>3
    <2>5. \A a, b : Before(r, a, b) => Before(t, a, b)
      <3> SUFFICES ASSUME NEW m \in 1..Len(r), NEW n \in 1..Len(r), m < n
                   PROVE  Before(t, r[m], r[n])
        OBVIOUS
      <3>1. m + 1 \in 1..Len(t) /\ n + 1 \in 1..Len(t) /\ r[m] = t[m + 1] /\ r[n] = t[n + 1]
        BY <1>a, <2>2, <2>a
      <3> QED BY <3>1
    <2>6. ASSUME NEW a \in Seen(s) \ (Seen(r) \cup {k}), NEW b \in Seen(r)
          PROVE  b = k \/ Before(s, a, b)
      <3>1. PICK m \in 1..Len(w) : w[m] = a
        BY <1>1, <2>6
      <3>2. m = 1
        <4>1. m # 1 => m - 1 \in 1..Len(r) /\ r[m - 1] = a
          BY <1>3, <1>a, <2>2, <2>a, <3>1
        <4> QED BY <2>6, <4>1
      <3>3. PICK n \in 1..Len(r) : r[n] = b
        BY <2>6
      <3>4. Before(t, a, b)
        <4>1. 1 \in 1..Len(t) /\ n + 1 \in 1..Len(t) /\ t[1] = a /\ t[n + 1] = b /\ 1 < n + 1
          BY <1>3, <1>a, <2>2, <2>a, <3>1, <3>2, <3>3
        <4> QED BY <4>1
      <3> HIDE DEF Before
      <3> QED BY <1>1, <1>5, <3>4
    <2> HIDE DEF Before
    <2> QED BY <1>1, <1>5, <2>2, <2>3, <2>4, <2>5, <2>6
  <1> QED BY <1>6, <1>7

----------------------------------------------------------------------------
(* The lazily made LRU, as a session cache and as the CSRF tokens. *)

\* A call under way, past the pointer's check, has an LRU to use.
Calls ==
    \A p \in Procs :
        /\ pc[p] \in {"read", "use"} => current # None
        /\ pc[p] = "use" => lru[p] \in Procs

\* Once the first requests are over they stay so, and calls use the published LRU.
Calm ==
    /\ kept # {} \/ calm # {} => SessionCache!Published
    /\ \A p \in calm : pc[p] = "use" => lru[p] = current

\* An LRU holds a key once.
Filed == \A l \in Procs : Distinct(entries[l])

\* Of a key in the LRU, the more recent ones were used since; of one that has
\* left it, Length were.
Kept(k) ==
    IF k \in Seen(entries[current])
    THEN \A b \in Keys : Before(entries[current], k, b) => b \in since[k]
    ELSE Cardinality(since[k]) >= Length
Stands ==
    /\ \A k \in Keys : IsFiniteSet(since[k])
    /\ \A k \in kept : Kept(k)

LruInv == SessionCache!TypeOK /\ Calls /\ Calm /\ Filed /\ Stands

\* A step of an LRU, whatever the methods it is used by.
Returns(p) ==
    /\ pc[p] = "use"
    /\ SessionCache!Goto(p, "idle")
    /\ lru' = [lru EXCEPT ![p] = None]
    /\ calm' = calm \ {p}
    /\ UNCHANGED current
Adds(p, k) ==
    /\ Returns(p) /\ SessionCache!Touch(lru[p], k)
    /\ kept' = IF p \in calm THEN kept \cup {k} ELSE kept
    /\ added' \in {added, added \cup {k}}
Looks(p, k) ==
    /\ Returns(p) /\ UNCHANGED <<kept, added>>
    /\ SessionCache!Touch(lru[p], k) \/ UNCHANGED <<entries, since>>
Removes(p, k) ==
    /\ Returns(p) /\ UNCHANGED <<since, added>>
    /\ entries' = [entries EXCEPT ![lru[p]] = SessionCache!Without(@, k)]
    /\ kept' = IF lru[p] = current THEN kept \ {k} ELSE kept
Begins(p) ==
    SessionCache!Call(p) \/ SessionCache!Initialised(p) \/ SessionCache!Make(p) \/ SessionCache!Read(p)
LruStep ==
    \E p \in Procs :
        \/ Begins(p)
        \/ Returns(p) /\ UNCHANGED <<entries, since, kept, added>>
        \/ \E k \in Keys : Adds(p, k) \/ Looks(p, k) \/ Removes(p, k)

\* Either cache takes the steps of an LRU.
LEMMA BothAreLruSteps == SessionCache!Next \/ LoginTokens!Next => LruStep
  <1> USE DEF LruStep, Begins, Adds, Looks, Removes, Returns, SessionCache!Goto, SessionCache!Touch
  <1>1. SessionCache!Next => LruStep
    BY DEF SessionCache!Next, SessionCache!Use, SessionCache!Add, SessionCache!Get,
           SessionCache!Contains, SessionCache!Remove
  <1>2. ASSUME NEW p \in Procs, LoginTokens!Call(p) \/ LoginTokens!Initialised(p)
                                \/ LoginTokens!Make(p) \/ LoginTokens!Read(p)
        PROVE  Begins(p)
    BY <1>2 DEF SessionCache!Call, LoginTokens!Call, LoginTokens!Goto,
           SessionCache!Initialised, LoginTokens!Initialised, SessionCache!Make, LoginTokens!Make,
           SessionCache!Read, LoginTokens!Read, SessionCache!Published, LoginTokens!Published,
           SessionCache!hist, LoginTokens!hist
  <1>3. ASSUME NEW p \in Procs, NEW k \in Keys, LoginTokens!Add(p, k) PROVE Adds(p, k)
    BY <1>3 DEF LoginTokens!Add, LoginTokens!Use, LoginTokens!Goto, LoginTokens!Touch,
           SessionCache!Recent, LoginTokens!Recent, SessionCache!Without, LoginTokens!Without,
           SessionCache!Seen, LoginTokens!Seen
  <1>4. ASSUME NEW p \in Procs, NEW k \in Keys, LoginTokens!Get(p, k) \/ LoginTokens!Remove(p, k)
        PROVE  FALSE
    BY <1>4 DEF LoginTokens!Get, LoginTokens!Remove, LoginTokens!Use
  <1>5. ASSUME NEW p \in Procs, LoginTokens!Contains(p)
        PROVE  Returns(p) /\ UNCHANGED <<entries, since, kept, added>>
    BY <1>5 DEF LoginTokens!Contains, LoginTokens!Use, LoginTokens!Goto
  <1> HIDE DEF Begins, Adds, Looks, Removes, Returns
  <1>6. LoginTokens!Next => LruStep
    BY <1>2, <1>3, <1>4, <1>5 DEF LoginTokens!Next
  <1> QED BY <1>1, <1>6

\* An LRU that is not made yet holds nothing.
LEMMA LruInit == BoundsAssumption /\ SessionCache!Init => LruInv
  <1> SUFFICES ASSUME BoundsAssumption, SessionCache!Init PROVE LruInv
    OBVIOUS
  <1> USE DEF SessionCache!Init
  <1>1. SessionCache!TypeOK
    BY EmptySeq DEF SessionCache!TypeOK
  <1>2. Calls /\ Calm
    BY DEF Calls, Calm
  <1>3. Filed
    <2>1. Len(<<>>) = 0
      BY EmptySeq
    <2> QED BY <2>1 DEF Filed, Distinct
  <1>4. Stands
    BY FS_EmptySet DEF Stands
  <1> QED BY <1>1, <1>2, <1>3, <1>4 DEF LruInv

\* Whatever the number of keys used since, one more keeps it as large.
LEMMA OneMore ==
    ASSUME NEW S, IsFiniteSet(S), NEW x
    PROVE  IsFiniteSet(S \cup {x}) /\ Cardinality(S \cup {x}) >= Cardinality(S)
  <1>1. /\ IsFiniteSet(S \cup {x})
        /\ Cardinality(S \cup {x}) = IF x \in S THEN Cardinality(S) ELSE Cardinality(S) + 1
    BY FS_AddElement
  <1>2. Cardinality(S) \in Nat
    BY FS_CardinalityType
  <1> QED BY <1>1, <1>2

\* The numbers up to n are n.
LEMMA FirstNumbers ==
    ASSUME NEW n \in Nat
    PROVE  IsFiniteSet(1..n) /\ Cardinality(1..n) = n
  <1>1. 1 \in Int /\ n \in Int
    OBVIOUS
  <1>2. IsFiniteSet(1..n) /\ Cardinality(1..n) = IF 1 > n THEN 0 ELSE n - 1 + 1
    BY <1>1, FS_Interval
  <1> QED BY <1>2

\* Using key k, of the published LRU or of another, in its turn.
LEMMA TouchStands ==
    ASSUME BoundsAssumption, LruInv, NEW l \in Procs, NEW k \in Keys,
           UNCHANGED current, SessionCache!Touch(l, k),
           kept' \subseteq kept \cup {k}, kept' # {} => current \in Procs,
           k \in kept' => k \in kept \/ l = current
    PROVE  /\ Filed' /\ Stands' /\ entries' \in [Procs -> Seq(Keys)]
           /\ since' \in [Keys -> SUBSET Keys]
  <1> DEFINE s == entries[l]
             r == SessionCache!Recent(s, k)
  <1>1. s \in Seq(Keys) /\ Distinct(s)
    BY DEF LruInv, SessionCache!TypeOK, Filed
  <1>2. /\ r \in Seq(Keys) /\ Distinct(r)
        /\ k \in Seen(r) /\ Seen(r) \subseteq Seen(s) \cup {k}
        /\ \A b : ~Before(r, k, b)
        /\ \A a, b : Before(r, a, b) => b = k \/ Before(s, a, b)
        /\ \A a \in Seen(s) \ (Seen(r) \cup {k}) :
            /\ Len(r) >= Length
            /\ \A b \in Seen(r) : b = k \/ Before(s, a, b)
    <2> HIDE DEF s
    <2> QED BY <1>1, RecentFacts
  <1> USE DEF LruInv, SessionCache!TypeOK
  <1>3. /\ entries' = [entries EXCEPT ![l] = r]
        /\ since' = IF l = current
                    THEN [x \in Keys |-> IF x = k THEN {} ELSE since[x] \cup {k}]
                    ELSE since
    BY DEF SessionCache!Touch
  <1> HIDE DEF r
  <1>4. Filed'
    BY <1>2, <1>3 DEF Filed
  <1>5. entries' \in [Procs -> Seq(Keys)] /\ since' \in [Keys -> SUBSET Keys]
    BY <1>2, <1>3
  <1>6. \A x \in Keys : IsFiniteSet(since'[x])
    <2> SUFFICES ASSUME NEW x \in Keys PROVE IsFiniteSet(since'[x])
      OBVIOUS
    <2>1. IsFiniteSet({}) /\ IsFiniteSet(since[x]) /\ IsFiniteSet(since[x] \cup {k})
      BY FS_EmptySet, OneMore DEF Stands
    <2> QED BY <1>3, <2>1
  <1>7. ASSUME NEW x \in kept' PROVE Kept(x)'
    <2>1. x \in Keys /\ current \in Procs /\ (x # k => x \in kept) /\ (x \in kept => Kept(x))
      BY <1>7 DEF Stands
    <2>2. CASE l # current
      <3>1. entries'[current] = entries[current] /\ since' = since /\ x \in kept
        BY <1>3, <1>7, <2>1, <2>2
      <3> QED BY <2>1, <3>1 DEF Kept
    <2>3. CASE l = current /\ x = k
      BY <1>2, <1>3, <2>1, <2>3 DEF Kept
    <2>4. CASE l = current /\ x # k
      <3>1. entries'[current'] = r /\ s = entries[current] /\ since'[x] = since[x] \cup {k}
        BY <1>3, <2>1, <2>4
      <3>2. CASE x \in Seen(r)
        <4>1. x \in Seen(s)
          BY <1>2, <2>4, <3>2
        <4> QED BY <1>2, <2>1, <2>4, <3>1, <3>2, <4>1 DEF Kept
      <3>3. CASE x \in Seen(s) \ Seen(r)
        <4>1. Len(r) >= Length /\ \A b \in Seen(r) : b = k \/ Before(s, x, b)
          BY <1>2, <2>4, <3>3
        <4>2. Seen(r) \subseteq since'[x]
          <5>1. Seen(r) \subseteq Keys
            BY <1>2, ElementOfSeq DEF Seen, SessionCache!Seen
          <5> QED BY <2>1, <2>4, <3>1, <3>3, <4>1, <5>1 DEF Kept
        <4>3. Cardinality(1..Len(r)) = Len(r) /\ IsFiniteSet(1..Len(r)) /\ Len(r) \in Nat
          <5>1. Len(r) \in Nat
            BY <1>2, LenProperties
          <5> QED BY <5>1, FirstNumbers
        <4>4. Cardinality(1..Len(r)) <= Cardinality(since'[x])
          <5> DEFINE f == [n \in 1..Len(r) |-> r[n]]
          <5>1. f \in [1..Len(r) -> since'[x]] /\ \A m, n \in 1..Len(r) : f[m] = f[n] => m = n
            BY <1>2, <4>2 DEF Seen, SessionCache!Seen, Distinct
          <5> HIDE DEF f
          <5>2. f \in Injection(1..Len(r), since'[x])
            BY <5>1 DEF Injection, IsInjective
          <5> QED BY <1>6, <2>1, <5>2, FS_Injection
        <4>5. Cardinality(since'[x]) \in Nat /\ Length \in Nat
          BY <1>6, <2>1, FS_CardinalityType DEF BoundsAssumption
        <4>6. Cardinality(since'[x]) >= Length
          BY <4>1, <4>3, <4>4, <4>5
        <4> QED BY <1>3, <2>4, <3>1, <3>3, <4>6 DEF Kept
      <3>4. CASE x \notin Seen(s) /\ x \notin Seen(r)
        <4>1. Cardinality(since[x]) >= Length
          BY <2>1, <2>4, <3>1, <3>4 DEF Kept
        <4>2. /\ Cardinality(since'[x]) >= Cardinality(since[x])
              /\ Cardinality(since'[x]) \in Nat /\ Cardinality(since[x]) \in Nat
          BY <1>6, <2>1, <3>1, OneMore, FS_CardinalityType DEF Stands
        <4>3. Cardinality(since'[x]) >= Length
          BY <4>1, <4>2 DEF BoundsAssumption
        <4> QED BY <1>3, <2>4, <3>1, <3>4, <4>3 DEF Kept
      <3> QED BY <3>2, <3>3, <3>4
    <2> QED BY <2>2, <2>3, <2>4
  <1> QED BY <1>4, <1>5, <1>6, <1>7 DEF Stands

\* What a call that returns does to the calls.
LEMMA ReturnFacts ==
    ASSUME BoundsAssumption, LruInv, NEW p \in Procs, Returns(p)
    PROVE  /\ lru[p] \in Procs /\ current \in Procs /\ UNCHANGED current /\ Calls'
           /\ SessionCache!Published => SessionCache!Published'
           /\ \A q \in calm' : q \in calm /\ (pc'[q] = "use" => lru'[q] = current')
           /\ p \in calm => lru[p] = current /\ SessionCache!Published
           /\ pc' \in [Procs -> {"idle", "init", "make", "read", "use"}]
           /\ lru' \in [Procs -> Procs \cup {None}] /\ calm' \in SUBSET Procs
  BY DEF LruInv, SessionCache!TypeOK, Calls, Calm, Returns, SessionCache!Goto,
         SessionCache!Published

\* The invariant of the LRU, step by step.
LEMMA StepLru ==
    ASSUME BoundsAssumption, LruInv, LruStep
    PROVE  LruInv'
  <1> USE DEF SessionCache!Goto
  <1>1. ASSUME NEW p \in Procs, SessionCache!Call(p) \/ SessionCache!Initialised(p) \/ SessionCache!Read(p)
        PROVE  LruInv'
    <2> USE <1>1 DEF LruInv, SessionCache!TypeOK, SessionCache!Call, SessionCache!Initialised,
                     SessionCache!Read, SessionCache!hist
    <2>1. UNCHANGED <<current, entries, added, kept, since>>
      OBVIOUS
    <2>2. SessionCache!TypeOK' /\ Calls'
      <3>1. CASE SessionCache!Call(p)
        BY <3>1 DEF Calls
      <3>2. CASE SessionCache!Initialised(p)
        BY <3>2 DEF Calls
      <3>3. CASE SessionCache!Read(p)
        BY <3>3 DEF Calls
      <3> QED BY <3>1, <3>2, <3>3
    <2>4. SessionCache!Published => SessionCache!Published'
      BY DEF SessionCache!Published
    <2>5. Calm'
      BY <2>1, <2>4 DEF Calm
    <2> QED BY <2>1, <2>2, <2>5 DEF Filed, Stands, Kept
  \* Whoever replaces the published LRU was about to, so nothing was kept.
  <1>2. ASSUME NEW p \in Procs, SessionCache!Make(p) PROVE LruInv'
    <2> USE <1>2 DEF LruInv, SessionCache!TypeOK, SessionCache!Make, SessionCache!hist
    <2>1. entries' = [entries EXCEPT ![p] = <<>>] /\ <<>> \in Seq(Keys) /\ Distinct(<<>>)
      BY EmptySeq DEF Distinct
    <2>2. SessionCache!TypeOK' /\ Filed'
      BY <2>1 DEF Filed
    <2>3. kept' = {} /\ calm' = {}
      BY DEF Calm, SessionCache!Published
    <2>4. Calls'
      BY DEF Calls, BoundsAssumption
    <2> QED BY <2>2, <2>3, <2>4 DEF Calm, Stands
  <1>3. ASSUME NEW p \in Procs, Returns(p), UNCHANGED <<entries, since, kept, added>> PROVE LruInv'
    BY <1>3, ReturnFacts DEF LruInv, SessionCache!TypeOK, Calm, Filed, Stands, Kept
  \* A calm call adds to the published LRU.
  <1>4. ASSUME NEW p \in Procs, NEW k \in Keys, Adds(p, k) PROVE LruInv'
    <2>1. Filed' /\ Stands' /\ entries' \in [Procs -> Seq(Keys)] /\ since' \in [Keys -> SUBSET Keys]
      BY <1>4, ReturnFacts, TouchStands DEF Adds
    <2>2. Calm'
      BY <1>4, ReturnFacts DEF Adds, LruInv, Calm
    <2> QED BY <1>4, <2>1, <2>2, ReturnFacts DEF Adds, LruInv, SessionCache!TypeOK
  \* Get makes the entry recent, in whichever LRU it is found.
  <1>5. ASSUME NEW p \in Procs, NEW k \in Keys, Looks(p, k) PROVE LruInv'
    <2>1. CASE SessionCache!Touch(lru[p], k)
      <3>1. Filed' /\ Stands' /\ entries' \in [Procs -> Seq(Keys)] /\ since' \in [Keys -> SUBSET Keys]
        BY <1>5, <2>1, ReturnFacts, TouchStands DEF Looks
      <3> QED BY <1>5, <3>1, ReturnFacts DEF Looks, LruInv, SessionCache!TypeOK, Calm
    <2>2. CASE UNCHANGED <<entries, since>>
      BY <1>3, <1>5, <2>2 DEF Looks
    <2> QED BY <1>5, <2>1, <2>2 DEF Looks
  \* Remove takes a key out; the others stay, in their order.
  <1>6. ASSUME NEW p \in Procs, NEW k \in Keys, Removes(p, k) PROVE LruInv'
    <2> DEFINE l == lru[p]
               r == SessionCache!Without(entries[l], k)
    <2>1. /\ l \in Procs /\ current \in Procs /\ UNCHANGED <<current, since>>
          /\ entries' = [entries EXCEPT ![l] = r]
          /\ kept' = IF l = current THEN kept \ {k} ELSE kept
      BY <1>6, ReturnFacts DEF Removes
    <2>2. entries[l] \in Seq(Keys) /\ Distinct(entries[l])
      BY <2>1 DEF LruInv, SessionCache!TypeOK, Filed
    <2>3. /\ r \in Seq(Keys) /\ Distinct(r)
          /\ Seen(r) = Seen(entries[l]) \ {k}
          /\ \A a, b : Before(r, a, b) => Before(entries[l], a, b)
      BY <2>2, WithoutFacts
    <2> HIDE DEF l, r
    <2>4. entries' \in [Procs -> Seq(Keys)] /\ Filed'
      BY <2>1, <2>3 DEF LruInv, SessionCache!TypeOK, Filed
    <2>5. Stands'
      <3> SUFFICES ASSUME NEW x \in kept' PROVE Kept(x)'
        BY <2>1 DEF LruInv, Stands
      <3>1. x \in kept /\ Kept(x) /\ (l = current => x # k)
        BY <2>1 DEF LruInv, Stands
      <3>2. entries'[current] = IF l = current THEN r ELSE entries[current]
        BY <2>1 DEF LruInv, SessionCache!TypeOK
      <3> QED BY <2>1, <2>3, <3>1, <3>2 DEF Kept
    <2>6. Calm'
      <3>1. kept' \subseteq kept
        BY <2>1
      <3> QED BY <1>6, <3>1, ReturnFacts DEF Removes, LruInv, Calm
    <2> QED BY <1>6, <2>1, <2>4, <2>5, <2>6, ReturnFacts DEF Removes, LruInv, SessionCache!TypeOK
  <1> QED BY <1>1, <1>2, <1>3, <1>4, <1>5, <1>6 DEF LruStep, Begins

\* Each instance of a component brings its own name for what FiniteSets defines.
LEMMA SameCardinality ==
    ASSUME NEW S
    PROVE  /\ SessionCache!Cardinality(S) = Cardinality(S)
           /\ Clean!Cardinality(S) = Cardinality(S)
  BY DEF SessionCache!Cardinality, Clean!Cardinality, Cardinality

\* The invariant says what the LRU promises.
LEMMA LruStands == LruInv => SessionCache!EntriesStand
  <1> SUFFICES ASSUME LruInv, NEW k \in kept, Cardinality(since[k]) < Length
               PROVE  SessionCache!Holds(current, k)
    BY SameCardinality DEF SessionCache!EntriesStand
  <1>1. Kept(k) /\ k \in Keys /\ IsFiniteSet(since[k])
    BY DEF LruInv, Stands, SessionCache!TypeOK
  <1>2. Cardinality(since[k]) \in Nat /\ Length \in Nat
    BY <1>1, FS_CardinalityType, BoundsAssumption DEF BoundsAssumption
  <1> QED BY <1>1, <1>2 DEF Kept, SessionCache!Holds, Seen

----------------------------------------------------------------------------
(* The file of users. *)

\* A goroutine that decodes, or looks, has a table, and no answer yet.
HasTable ==
    \A p \in Procs :
        /\ pc[p] # "idle" => answer[p] = "none"
        /\ pc[p] = "decode" => target[p] \in Procs
        /\ pc[p] \in {"open", "decode", "look"} => data \in Procs

\* The goroutines that will not finish before the published table is complete.
Completing == {p \in Procs : pc[p] = "open" \/ (pc[p] = "decode" /\ target[p] = data)}

\* A published table that lacks a user is being completed, or a load failed.
Completed == data # None => Listed \subseteq content[data] \/ failed \/ Completing # {}

FileInv == File!TypeOK /\ HasTable /\ Completed

\* The file is not read at first, and nobody waits for it.
LEMMA FileInit == ASSUME BoundsAssumption, File!Init PROVE FileInv
  BY DEF BoundsAssumption, File!Init, FileInv, File!TypeOK, HasTable, Completed

\* The types, and the tables, step by step.
LEMMA StepFileTyped ==
    ASSUME BoundsAssumption, FileInv, [File!Next]_(File!vars)
    PROVE  File!TypeOK' /\ HasTable'
  <1> USE DEF BoundsAssumption, FileInv, File!TypeOK, HasTable, File!Goto, File!Answer
  <1>1. ASSUME NEW p \in Procs, NEW u \in Names, File!User(p, u) PROVE File!TypeOK' /\ HasTable'
    BY <1>1 DEF File!User
  <1>2. ASSUME NEW p \in Procs, File!Load(p) PROVE File!TypeOK' /\ HasTable'
    BY <1>2 DEF File!Load
  <1>3. ASSUME NEW p \in Procs, File!Publish(p) PROVE File!TypeOK' /\ HasTable'
    BY <1>3 DEF File!Publish
  <1>4. ASSUME NEW p \in Procs, File!Open(p) PROVE File!TypeOK' /\ HasTable'
    BY <1>4 DEF File!Open
  <1>5. ASSUME NEW p \in Procs, File!OpenFails(p) \/ File!DecodeFails(p)
        PROVE  File!TypeOK' /\ HasTable'
    <2>1. CASE File!OpenFails(p)
      BY <2>1 DEF File!OpenFails
    <2>2. CASE File!DecodeFails(p)
      BY <2>2 DEF File!DecodeFails
    <2> QED BY <1>5, <2>1, <2>2
  <1>6. ASSUME NEW p \in Procs, File!DecodeUser(p) PROVE File!TypeOK' /\ HasTable'
    BY <1>6 DEF File!DecodeUser
  <1>7. ASSUME NEW p \in Procs, File!DecodeEnds(p) PROVE File!TypeOK' /\ HasTable'
    BY <1>7 DEF File!DecodeEnds
  <1>8. ASSUME NEW p \in Procs, File!Look(p) PROVE File!TypeOK' /\ HasTable'
    BY <1>8 DEF File!Look
  <1>9. ASSUME NEW p \in Procs, File!Stop(p) PROVE File!TypeOK' /\ HasTable'
    BY <1>9 DEF File!Stop
  <1>10. CASE UNCHANGED File!vars
    BY <1>10 DEF File!vars
  <1> QED
    BY <1>1, <1>2, <1>3, <1>4, <1>5, <1>6, <1>7, <1>8, <1>9, <1>10 DEF File!Next

\* Who completes the published table, step by step.
LEMMA StepCompleted == ASSUME BoundsAssumption, FileInv, [File!Next]_(File!vars) PROVE Completed'
  <1> USE DEF BoundsAssumption, FileInv, File!TypeOK, HasTable, Completed, Completing,
              File!Goto, File!Answer
  <1>1. ASSUME NEW p \in Procs, NEW u \in Names, File!User(p, u) PROVE Completed'
    BY <1>1 DEF File!User
  <1>2. ASSUME NEW p \in Procs, File!Load(p) PROVE Completed'
    BY <1>2 DEF File!Load
  <1>3. ASSUME NEW p \in Procs, File!Publish(p) PROVE Completed'
    BY <1>3 DEF File!Publish
  <1>4. ASSUME NEW p \in Procs, File!Open(p) PROVE Completed'
    BY <1>4 DEF File!Open
  <1>5. ASSUME NEW p \in Procs, File!OpenFails(p) \/ File!DecodeFails(p) PROVE Completed'
    BY <1>5 DEF File!OpenFails, File!DecodeFails
  <1>6. ASSUME NEW p \in Procs, File!DecodeUser(p) PROVE Completed'
    BY <1>6 DEF File!DecodeUser
  \* The goroutine is done: with the published table, or with another one.
  <1>7. ASSUME NEW p \in Procs, File!DecodeEnds(p) PROVE Completed'
    <2>1. CASE target[p] = data
      BY <1>7, <2>1 DEF File!DecodeEnds, File!Decoded
    <2>2. CASE target[p] # data
      BY <1>7, <2>2 DEF File!DecodeEnds
    <2> QED BY <2>1, <2>2
  <1>8. ASSUME NEW p \in Procs, File!Look(p) PROVE Completed'
    BY <1>8 DEF File!Look
  <1>9. ASSUME NEW p \in Procs, File!Stop(p) PROVE Completed'
    BY <1>9 DEF File!Stop
  <1>10. CASE UNCHANGED File!vars
    BY <1>10 DEF File!vars
  <1> QED
    BY <1>1, <1>2, <1>3, <1>4, <1>5, <1>6, <1>7, <1>8, <1>9, <1>10 DEF File!Next

\* A miss of a listed user: the table lacked it, so somebody else is loading.
LEMMA StepMisses ==
    ASSUME BoundsAssumption, FileInv, [File!Next]_(File!vars),
           NEW p \in Procs, File!Misses(p), want[p] \in Listed
    PROVE  failed \/ File!Loading \ {p} # {}
  <1> USE DEF FileInv, File!TypeOK
  <1>1. pc[p] = "look" /\ answer[p] = "none" /\ answer'[p] = "missing"
    BY DEF File!Misses, HasTable
  <1>2. ~(Listed \subseteq content[data]) /\ data \in Procs
    <2>1. PICK q \in Procs : \/ \E u \in Names : File!User(q, u)
                            \/ File!OpenFails(q) \/ File!DecodeFails(q)
                            \/ File!Look(q) \/ File!Stop(q)
      BY <1>1 DEF File!Next, File!Load, File!Publish, File!Open, File!DecodeUser,
                  File!DecodeEnds, File!vars
    <2>2. q = p /\ File!Look(q)
      BY <1>1, <2>1 DEF File!User, File!OpenFails, File!DecodeFails, File!Look, File!Stop,
                        File!Answer
    <2> QED BY <1>1, <2>2 DEF File!Look, File!Answer, HasTable
  <1>3. failed \/ Completing # {}
    BY <1>2 DEF BoundsAssumption, Completed
  <1>4. Completing \subseteq File!Loading \ {p}
    BY <1>1 DEF Completing, File!Loading
  <1> QED BY <1>3, <1>4

\* A load that succeeds is complete for the goroutine that did it, however many
\* tables the others publish: a listed user is missed only during another load, or
\* after one that failed.
THEOREM MissesAreExplained == File!Spec => File!FileMissExplained
  <1>1. File!Init => FileInv
    BY FileInit, BoundsAssumption
  <1>2. FileInv /\ [File!Next]_(File!vars) => FileInv'
    BY StepFileTyped, StepCompleted, BoundsAssumption DEF FileInv
  <1>3. FileInv /\ [File!Next]_(File!vars) =>
            [\A p \in Procs : File!Misses(p) /\ want[p] \in Listed =>
                failed \/ File!Loading \ {p} # {}]_(File!vars)
    BY StepMisses, BoundsAssumption
  <1> QED BY <1>1, <1>2, <1>3, PTL DEF File!Spec, File!FileMissExplained

\* Every variable of the store keeps its type.
THEOREM FileTypeCorrect == File!Spec => []File!TypeOK
  <1>1. File!Init => FileInv
    BY FileInit, BoundsAssumption
  <1>2. FileInv /\ [File!Next]_(File!vars) => FileInv'
    BY StepFileTyped, StepCompleted, BoundsAssumption DEF FileInv
  <1>3. FileInv => File!TypeOK
    BY DEF FileInv
  <1> QED BY <1>1, <1>2, <1>3, PTL DEF File!Spec

----------------------------------------------------------------------------
(* The deletion of the rows that expired. *)

\* Whoever is past the attempt holds the mutex.
Held == \A p \in Procs : pc[p] # "idle" => mu = p

\* lastClean is the end of the last deletion that succeeded, an interval on; a
\* deletion under way began after them all, and a whole interval unless debugging.
Stamped ==
    /\ lastClean = 0 \/ \E d \in deletions : lastClean = d[2] + Interval
    /\ \A d \in deletions : d[1] <= d[2] /\ d[2] <= now /\ d[2] + Interval <= lastClean
    /\ \A p \in Procs : pc[p] = "delete" =>
        /\ started[p] <= now
        /\ \A d \in deletions : d[2] + Clean!Gap <= started[p]

\* Deletions that succeeded do not overlap, and are an interval apart.
Spaced == \A a, b \in deletions : a = b \/ a[2] + Clean!Gap <= b[1] \/ b[2] + Clean!Gap <= a[1]

CleanInv == Clean!TypeOK /\ Held /\ Stamped /\ Spaced

\* Nobody cleans at first.
LEMMA CleanInit == ASSUME BoundsAssumption, Clean!Init PROVE CleanInv
  BY DEF BoundsAssumption, Clean!Init, CleanInv, Clean!TypeOK, Held, Stamped, Spaced

\* Every step keeps the mutex and the throttle.
LEMMA StepClean == ASSUME BoundsAssumption, CleanInv, [Clean!Next]_(Clean!vars) PROVE CleanInv'
  <1> USE DEF BoundsAssumption, CleanInv, Clean!TypeOK, Clean!Goto, Clean!Gap
  <1>1. ASSUME NEW p \in Procs, Clean!CleanSessions(p) PROVE CleanInv'
    BY <1>1 DEF Clean!CleanSessions, Clean!TryLock, Held, Stamped, Spaced
  <1>2. ASSUME NEW p \in Procs, Clean!Skip(p) PROVE CleanInv'
    BY <1>2 DEF Clean!Skip, Held, Stamped, Spaced
  <1>3. ASSUME NEW p \in Procs, Clean!Delete(p) PROVE CleanInv'
    <2>1. Clean!TypeOK'
      BY <1>3 DEF Clean!Delete
    <2>2. Held'
      BY <1>3 DEF Clean!Delete, Held
    <2>3. Stamped'
      BY <1>3 DEF Clean!Delete, Clean!TooRecent, Stamped
    <2>4. Spaced'
      BY <1>3 DEF Clean!Delete, Spaced
    <2> QED BY <2>1, <2>2, <2>3, <2>4
  <1>4. ASSUME NEW p \in Procs, Clean!DeleteOK(p) PROVE CleanInv'
    <2> DEFINE new == <<started[p], now>>
    <2>1. /\ new \in (0..MaxTime) \X (0..MaxTime) /\ new[1] = started[p] /\ new[2] = now
          /\ new[1] <= new[2] /\ \A d \in deletions : d[2] + Clean!Gap <= new[1]
      BY <1>4 DEF Clean!DeleteOK, Stamped
    <2>2. /\ deletions' = deletions \cup {new} /\ lastClean' = now + Interval
          /\ pc' = [pc EXCEPT ![p] = "unlock"] /\ UNCHANGED <<debug, now, mu, started>>
      BY <1>4 DEF Clean!DeleteOK
    <2>3. \A d \in deletions : d[1] \in Nat /\ d[2] \in Nat
      OBVIOUS
    <2> HIDE DEF new
    <2>5. Clean!TypeOK'
      BY <2>1, <2>2
    <2>6. Held'
      BY <2>2, <1>4 DEF Held, Clean!DeleteOK
    <2>7. Stamped'
      <3>1. \A k \in Procs : pc'[k] # "delete"
        BY <1>4, <2>2 DEF Held, Clean!DeleteOK
      <3> QED BY <2>1, <2>2, <2>3, <3>1 DEF Stamped
    <2>8. Spaced'
      BY <2>1, <2>2 DEF Spaced
    <2> QED BY <2>5, <2>6, <2>7, <2>8
  <1>5. ASSUME NEW p \in Procs, Clean!DeleteFails(p) PROVE CleanInv'
    BY <1>5 DEF Clean!DeleteFails, Held, Stamped, Spaced
  <1>6. ASSUME NEW p \in Procs, Clean!Unlock(p) PROVE CleanInv'
    BY <1>6 DEF Clean!Unlock, Held, Stamped, Spaced
  <1>7. CASE Clean!Tick
    BY <1>7 DEF Clean!Tick, Held, Stamped, Spaced
  <1>8. CASE UNCHANGED Clean!vars
    BY <1>8 DEF Clean!vars, Held, Stamped, Spaced
  <1> QED BY <1>1, <1>2, <1>3, <1>4, <1>5, <1>6, <1>7, <1>8 DEF Clean!Next

\* The invariant of the clean-up says what it promises.
LEMMA InvGivesOneDeletion == ASSUME BoundsAssumption, CleanInv PROVE Clean!OneDeletion
  <1>1. Cardinality(Clean!Deleting) <= 1
    <2>1. Clean!Deleting \subseteq {mu}
      BY DEF CleanInv, Held, Clean!Deleting
    <2>2. Cardinality({mu}) = 1 /\ IsFiniteSet({mu})
      BY FS_Singleton
    <2> QED BY <2>1, <2>2, FS_Subset
  <1>2. \A p \in Procs : pc[p] = "locked" /\ Clean!TooRecent =>
            \E d \in deletions : now < d[2] + Interval
    BY DEF BoundsAssumption, CleanInv, Clean!TypeOK, Stamped, Clean!TooRecent
  <1> QED BY <1>1, <1>2, SameCardinality DEF Clean!OneDeletion, CleanInv, Spaced

\* However many goroutines call CleanSessions, one deletes at a time, successes do
\* not overlap and are an interval apart unless debugging is on, and a call is
\* skipped as too recent only after a success.
THEOREM OneDeletionAtATime == Clean!Spec => []Clean!OneDeletion
  <1>1. Clean!Init => CleanInv
    BY CleanInit, BoundsAssumption
  <1>2. CleanInv /\ [Clean!Next]_(Clean!vars) => CleanInv'
    BY StepClean, BoundsAssumption
  <1>3. CleanInv => Clean!OneDeletion
    BY InvGivesOneDeletion, BoundsAssumption
  <1> QED BY <1>1, <1>2, <1>3, PTL DEF Clean!Spec

----------------------------------------------------------------------------
(* The composition. *)

\* Where the store in question is as its own invariant says, the others are as
\* they began.
StoresInv ==
    /\ under = "file" => FileInv /\ deletions = {}
    /\ under \in {"session cache", "login tokens"} =>
            LruInv /\ deletions = {} /\ \A p \in Procs : answer[p] = "none"
    /\ under = "clean" => CleanInv /\ \A p \in Procs : answer[p] = "none"
    /\ under \in {"file", "session cache", "login tokens", "clean"}

\* The three structures start as their modules say.
LEMMA StoresInitially == Init => StoresInv
  <1> SUFFICES ASSUME Init PROVE StoresInv
    OBVIOUS
  <1>1. FileInv /\ LruInv /\ CleanInv
    BY FileInit, LruInit, CleanInit, BoundsAssumption DEF Init
  <1> QED BY <1>1 DEF Init, StoresInv, File!Init, Clean!Init

\* A step of one structure leaves the others alone.
LEMMA StoresStep == StoresInv /\ [Next]_vars => StoresInv'
  <1> SUFFICES ASSUME StoresInv, [Next]_vars PROVE StoresInv'
    OBVIOUS
  <1>1. CASE UNCHANGED vars
    <2> USE <1>1 DEF vars, fileVars, cacheVars, cleanVars
    <2>1. FileInv => FileInv'
      BY DEF FileInv, File!TypeOK, HasTable, Completed, Completing
    <2>2. LruInv => LruInv'
      BY DEF LruInv, SessionCache!TypeOK, Calls, Calm, SessionCache!Published, Filed, Stands, Kept
    <2>3. CleanInv => CleanInv'
      BY DEF CleanInv, Clean!TypeOK, Held, Stamped, Spaced, Clean!Gap
    <2> QED BY <2>1, <2>2, <2>3 DEF StoresInv
  <1>2. CASE under = "file" /\ File!Next /\ UNCHANGED <<under, cacheVars, cleanVars>>
    <2>1. FileInv'
      BY <1>2, StepFileTyped, StepCompleted, BoundsAssumption DEF StoresInv, FileInv
    <2> QED BY <1>2, <2>1 DEF StoresInv, cleanVars
  <1>3. CASE /\ under \in {"session cache", "login tokens"} /\ LruStep
             /\ UNCHANGED <<under, fileVars, cleanVars>>
    <2>1. LruInv'
      BY <1>3, StepLru, BoundsAssumption DEF StoresInv
    <2> QED BY <1>3, <2>1 DEF StoresInv, fileVars, cleanVars
  <1>4. CASE under = "clean" /\ Clean!Next /\ UNCHANGED <<under, fileVars, cacheVars>>
    <2>1. CleanInv'
      BY <1>4, StepClean, BoundsAssumption DEF StoresInv
    <2> QED BY <1>4, <2>1 DEF StoresInv, fileVars
  <1> QED BY <1>1, <1>2, <1>3, <1>4, BothAreLruSteps DEF Next

\* The conjunction is inductive.
LEMMA StoresHold == Spec => []StoresInv
  BY StoresInitially, StoresStep, PTL DEF Spec

\* For any number of goroutines and any length, a session, and a CSRF token, that
\* was added by a call begun once the first requests were over is found until it is
\* removed or Length others were used since.
THEOREM EntriesStandCorrect == Spec => []EntriesStand
  <1>1. StoresInv => EntriesStand
    BY LruStands DEF StoresInv, EntriesStand
  <1> QED BY <1>1, StoresHold, PTL

\* One deletion at a time, one success per interval unless debugging is on, in every
\* behaviour of the stores.
THEOREM OneDeletionCorrect == Spec => []OneDeletion
  <1>1. StoresInv => OneDeletion
    <2> SUFFICES ASSUME StoresInv PROVE Clean!OneDeletion
      BY DEF OneDeletion
    <2>1. CASE under = "clean"
      BY <2>1, InvGivesOneDeletion, BoundsAssumption DEF StoresInv
    <2>2. CASE under # "clean"
      <3>1. deletions = {} /\ \A p \in Procs : pc[p] \notin {"locked", "delete"}
        BY <2>2 DEF StoresInv, FileInv, File!TypeOK, LruInv, SessionCache!TypeOK
      <3>2. Clean!Deleting = {}
        BY <3>1 DEF Clean!Deleting
      <3>3. Clean!Cardinality(Clean!Deleting) = 0
        BY <3>2, SameCardinality, FS_EmptySet
      <3> QED BY <3>1, <3>3 DEF Clean!OneDeletion
    <2> QED BY <2>1, <2>2
  <1> QED BY <1>1, StoresHold, PTL

\* A listed user is missed only during another load, or after one that failed.
THEOREM FileMissesCorrect == Spec => FileMissExplained
  <1>1. StoresInv /\ [Next]_vars =>
            [\A p \in Procs : File!Misses(p) /\ want[p] \in Listed =>
                failed \/ File!Loading \ {p} # {}]_(File!vars)
    <2> SUFFICES ASSUME StoresInv, [Next]_vars, NEW p \in Procs,
                        File!Misses(p), want[p] \in Listed
                 PROVE  failed \/ File!Loading \ {p} # {}
      OBVIOUS
    <2>1. CASE under = "file"
      <3>1. [File!Next]_(File!vars)
        BY <2>1 DEF Next, vars, fileVars, File!vars
      <3> QED BY <2>1, <3>1, StepMisses, BoundsAssumption DEF StoresInv
    <2>2. CASE under # "file"
      <3>1. answer[p] = "none" /\ answer' = answer
        BY <2>2 DEF StoresInv, Next, vars, fileVars
      <3> QED BY <3>1 DEF File!Misses
    <2> QED BY <2>1, <2>2
  <1> QED BY <1>1, StoresHold, PTL DEF Spec, FileMissExplained, File!FileMissExplained
=============================================================================
