---------------------------- MODULE ReporterProofs ----------------------------
(***************************************************************************)
(* Proofs about the reporters of a session.  About ElkReporter, for any    *)
(* number of messages, copies and test results: its inductive invariant    *)
(* ElkIInv, what becomes of a message that was answered True, and that the *)
(* reporter implements LogFeed.  About PrometheusReporter, for any number  *)
(* of records, any custom metrics and grouping keys: which measurements    *)
(* their metrics refuse, and what an operation on one group of the gateway *)
(* does to the others.  Last, that a session with both has all of this.    *)
(***************************************************************************)
EXTENDS Reporters, SequenceTheorems, TLAPS

-----------------------------------------------------------------------------
(* Sequences of messages.                                                  *)

(* What a flush holds: what has failed, and the buffer from n on.          *)
After(f, b, n) == f \o SubSeq(b, n, Len(b))

Increasing(s) == \A i, j \in DOMAIN s : i < j => s[i] < s[j]

LEMMA AfterFacts ==
  ASSUME NEW N \in Nat, NEW f \in Seq(1..N), NEW b \in Seq(1..N),
         NEW n \in 1..(Len(b) + 1)
  PROVE  /\ After(f, b, n) \in Seq(1..N)
         /\ Len(After(f, b, n)) = Len(f) + (Len(b) - n + 1)
         /\ \A i \in 1..(Len(f) + (Len(b) - n + 1)) :
              After(f, b, n)[i] = IF i <= Len(f) THEN f[i]
                                  ELSE b[n + (i - Len(f)) - 1]
<1> DEFINE t == SubSeq(b, n, Len(b))
<1>1. Len(b) \in Nat /\ Len(f) \in Nat /\ n \in Nat
  OBVIOUS
<1>2. \A i \in n..Len(b) : b[i] \in 1..N
  <2>1. \A i \in n..Len(b) : i \in 1..Len(b)
    BY <1>1
  <2> QED
    BY <2>1, ElementOfSeq, ZenonT(40)
<1>3. /\ t \in Seq(1..N)
      /\ Len(t) = IF n <= Len(b) THEN Len(b) - n + 1 ELSE 0
      /\ \A i \in 1..(Len(b) - n + 1) : t[i] = b[n + i - 1]
  <2>1. n \in Int /\ Len(b) \in Int
    BY <1>1
  <2> QED
    BY <1>2, <2>1, SubSeqProperties
<1> HIDE DEF t
<1>4. Len(t) = Len(b) - n + 1
  BY <1>1, <1>3
<1>5. /\ f \o t \in Seq(1..N)
      /\ Len(f \o t) = Len(f) + Len(t)
      /\ \A i \in 1..(Len(f) + Len(t)) :
           (f \o t)[i] = IF i <= Len(f) THEN f[i] ELSE t[i - Len(f)]
  BY <1>3, ConcatProperties, ZenonT(40)
<1>6. After(f, b, n) = f \o t
  BY DEF After, t
<1>7. ASSUME NEW i \in 1..(Len(f) + (Len(b) - n + 1))
      PROVE  After(f, b, n)[i] = IF i <= Len(f) THEN f[i]
                                 ELSE b[n + (i - Len(f)) - 1]
  <2>1. After(f, b, n)[i] = IF i <= Len(f) THEN f[i] ELSE t[i - Len(f)]
    BY <1>4, <1>5, <1>6
  <2>2. i > Len(f) => i - Len(f) \in 1..(Len(b) - n + 1)
    BY <1>1
  <2> QED
    BY <1>1, <1>3, <2>1, <2>2
<1> QED
  BY <1>4, <1>5, <1>6, <1>7

LEMMA RemoveAtFacts ==
  ASSUME NEW N \in Nat, NEW s \in Seq(1..N), NEW i \in 1..Len(s)
  PROVE  /\ RemoveAt(s, i) \in Seq(1..N)
         /\ Len(RemoveAt(s, i)) = Len(s) - 1
         /\ \A j \in 1..(Len(s) - 1) :
              RemoveAt(s, i)[j] = IF j < i THEN s[j] ELSE s[j + 1]
<1> DEFINE u == SubSeq(s, 1, i - 1)
           v == SubSeq(s, i + 1, Len(s))
<1>1. Len(s) \in Nat /\ i \in Nat /\ i >= 1 /\ i <= Len(s)
  OBVIOUS
<1>2. \A j \in 1..Len(s) : s[j] \in 1..N
  BY ElementOfSeq
<1>3. /\ u \in Seq(1..N) /\ Len(u) = i - 1
      /\ \A j \in 1..(i - 1) : u[j] = s[j]
  <2>1. \A j \in 1..(i - 1) : s[j] \in 1..N
    BY <1>1, <1>2
  <2>2. 1 \in Int /\ i - 1 \in Int
    BY <1>1
  <2>3. /\ u \in Seq(1..N) /\ Len(u) = IF 1 <= i - 1 THEN (i - 1) - 1 + 1 ELSE 0
        /\ \A j \in 1..((i - 1) - 1 + 1) : u[j] = s[1 + j - 1]
    BY <2>1, <2>2, SubSeqProperties
  <2> HIDE DEF u
  <2>4. (i - 1) - 1 + 1 = i - 1 /\ \A j \in 1..(i - 1) : 1 + j - 1 = j
    BY <1>1
  <2>5. \A j \in 1..(i - 1) : u[j] = s[1 + j - 1]
    BY <2>3, <2>4
  <2>6. \A j \in 1..(i - 1) : u[j] = s[j]
    BY <2>4, <2>5
  <2>7. Len(u) = i - 1
    BY <1>1, <2>3
  <2> QED
    BY <2>3, <2>6, <2>7
<1>4. /\ v \in Seq(1..N) /\ Len(v) = Len(s) - i
      /\ \A j \in 1..(Len(s) - i) : v[j] = s[i + j]
  <2>1. \A j \in (i + 1)..Len(s) : s[j] \in 1..N
    BY <1>1, <1>2
  <2>2. i + 1 \in Int /\ Len(s) \in Int
    BY <1>1
  <2>3. /\ v \in Seq(1..N)
        /\ Len(v) = IF i + 1 <= Len(s) THEN Len(s) - (i + 1) + 1 ELSE 0
        /\ \A j \in 1..(Len(s) - (i + 1) + 1) : v[j] = s[(i + 1) + j - 1]
    BY <2>1, <2>2, SubSeqProperties, SMTT(40)
  <2> HIDE DEF v
  <2>4. Len(s) - (i + 1) + 1 = Len(s) - i
        /\ \A j \in 1..(Len(s) - i) : (i + 1) + j - 1 = i + j
    BY <1>1
  <2>5. \A j \in 1..(Len(s) - i) : v[j] = s[(i + 1) + j - 1]
    BY <2>3, <2>4, ZenonT(40)
  <2>6. \A j \in 1..(Len(s) - i) : v[j] = s[i + j]
    BY <2>4, <2>5
  <2>7. Len(v) = Len(s) - i
    BY <1>1, <2>3
  <2> QED
    BY <2>3, <2>6, <2>7
<1>5. RemoveAt(s, i) = u \o v
  BY DEF RemoveAt
<1> HIDE DEF u, v
<1>6. /\ u \o v \in Seq(1..N) /\ Len(u \o v) = Len(u) + Len(v)
      /\ \A j \in 1..(Len(u) + Len(v)) :
           (u \o v)[j] = IF j <= Len(u) THEN u[j] ELSE v[j - Len(u)]
  BY <1>3, <1>4, ConcatProperties, ZenonT(40)
<1>7. Len(u) + Len(v) = Len(s) - 1
  BY <1>1, <1>3, <1>4
<1>8. ASSUME NEW j \in 1..(Len(s) - 1)
      PROVE  (u \o v)[j] = IF j < i THEN s[j] ELSE s[j + 1]
  <2>1. (u \o v)[j] = IF j <= i - 1 THEN u[j] ELSE v[j - (i - 1)]
    BY <1>3, <1>6, <1>7
  <2>2. CASE j < i
    BY <1>1, <1>3, <2>1, <2>2
  <2>3. CASE j >= i
    <3>1. j - (i - 1) \in 1..(Len(s) - i) /\ i + (j - (i - 1)) = j + 1
          /\ ~(j <= i - 1) /\ ~(j < i)
      BY <1>1, <2>3
    <3>2. v[j - (i - 1)] = s[i + (j - (i - 1))]
      BY <1>4, <3>1
    <3> QED
      BY <2>1, <3>1, <3>2
  <2>4. j < i \/ j >= i
    BY <1>1
  <2> QED
    BY <2>2, <2>3, <2>4
<1> QED
  BY <1>5, <1>6, <1>7, <1>8

(* An entry that fails again is still held, at the same place.             *)
LEMMA EntryStays ==
  ASSUME NEW N \in Nat, NEW f \in Seq(1..N), NEW b \in Seq(1..N),
         NEW n \in 1..Len(b)
  PROVE  /\ Append(f, b[n]) \in Seq(1..N)
         /\ After(Append(f, b[n]), b, n + 1) = After(f, b, n)
<1> DEFINE g == Append(f, b[n])
           h == After(f, b, n)
           k == After(g, b, n + 1)
<1>1. Len(b) \in Nat /\ Len(f) \in Nat /\ n \in Nat /\ n <= Len(b) /\ n >= 1
  OBVIOUS
<1>2. b[n] \in 1..N
  BY ElementOfSeq
<1>3. /\ g \in Seq(1..N) /\ Len(g) = Len(f) + 1
      /\ \A i \in 1..Len(f) : g[i] = f[i]
      /\ g[Len(f) + 1] = b[n]
  BY <1>1, <1>2, AppendProperties
<1>4. n \in 1..(Len(b) + 1) /\ n + 1 \in 1..(Len(b) + 1)
  BY <1>1
<1>5. /\ h \in Seq(1..N) /\ Len(h) = Len(f) + (Len(b) - n + 1)
      /\ \A i \in 1..(Len(f) + (Len(b) - n + 1)) :
           h[i] = IF i <= Len(f) THEN f[i] ELSE b[n + (i - Len(f)) - 1]
  BY <1>4, AfterFacts, ZenonT(40)
<1> HIDE DEF g, h
<1>6. /\ k \in Seq(1..N) /\ Len(k) = Len(g) + (Len(b) - (n + 1) + 1)
      /\ \A i \in 1..(Len(g) + (Len(b) - (n + 1) + 1)) :
           k[i] = IF i <= Len(g) THEN g[i] ELSE b[(n + 1) + (i - Len(g)) - 1]
  BY <1>3, <1>4, AfterFacts, ZenonT(40)
<1> HIDE DEF k
<1>7. Len(g) + (Len(b) - (n + 1) + 1) = Len(f) + (Len(b) - n + 1)
  BY <1>1, <1>3
<1>8. ASSUME NEW i \in 1..Len(h)
      PROVE  k[i] = h[i]
  <2>1. /\ i \in Nat
        /\ k[i] = IF i <= Len(g) THEN g[i] ELSE b[(n + 1) + (i - Len(g)) - 1]
        /\ h[i] = IF i <= Len(f) THEN f[i] ELSE b[n + (i - Len(f)) - 1]
    <3>1. /\ i \in 1..(Len(f) + (Len(b) - n + 1))
          /\ i \in 1..(Len(g) + (Len(b) - (n + 1) + 1))
          /\ i \in Nat
      BY <1>5, <1>7
    <3> QED
      BY <1>5, <1>6, <3>1, ZenonT(40)
  <2>2. CASE i <= Len(f)
    <3>1. i \in 1..Len(f) /\ i <= Len(g)
      BY <1>1, <1>3, <2>2
    <3>2. g[i] = f[i]
      BY <1>3, <3>1
    <3> QED
      BY <2>1, <2>2, <3>1, <3>2, Zenon
  <2>3. CASE i = Len(f) + 1
    <3>1. n + (i - Len(f)) - 1 = n /\ ~(i <= Len(f)) /\ i <= Len(g)
      BY <1>1, <1>3, <2>3
    <3> QED
      BY <1>3, <2>1, <2>3, <3>1
  <2>4. CASE i > Len(f) + 1
    <3>1. (n + 1) + (i - Len(g)) - 1 = n + (i - Len(f)) - 1
          /\ ~(i <= Len(f)) /\ ~(i <= Len(g))
      BY <1>1, <1>3, <2>1, <2>4
    <3> QED
      BY <2>1, <3>1
  <2>5. i <= Len(f) \/ i = Len(f) + 1 \/ i > Len(f) + 1
    <3>1. i \in Nat
      BY <2>1, Zenon
    <3> QED
      BY <1>1, <3>1, SMTT(40)
  <2> QED
    BY <2>2, <2>3, <2>4, <2>5
<1>9. k = h
  <2>1. k \in Seq(1..N) /\ h \in Seq(1..N) /\ Len(k) = Len(h)
    BY <1>5, <1>6, <1>7
  <2> QED
    BY <1>8, <2>1, SeqEqual
<1> QED
  BY <1>3, <1>9 DEF g, h, k

(* An entry that is handed over is the next one held, and only it goes.    *)
LEMMA EntryGoes ==
  ASSUME NEW N \in Nat, NEW f \in Seq(1..N), NEW b \in Seq(1..N),
         NEW n \in 1..Len(b)
  PROVE  /\ Len(f) + 1 \in 1..Len(After(f, b, n))
         /\ After(f, b, n)[Len(f) + 1] = b[n]
         /\ After(f, b, n + 1) = RemoveAt(After(f, b, n), Len(f) + 1)
<1> DEFINE h == After(f, b, n)
           k == After(f, b, n + 1)
           r == RemoveAt(h, Len(f) + 1)
<1>1. Len(b) \in Nat /\ Len(f) \in Nat /\ n \in Nat /\ n <= Len(b) /\ n >= 1
  OBVIOUS
<1>2. n \in 1..(Len(b) + 1) /\ n + 1 \in 1..(Len(b) + 1)
  BY <1>1
<1>3. /\ h \in Seq(1..N) /\ Len(h) = Len(f) + (Len(b) - n + 1)
      /\ \A i \in 1..(Len(f) + (Len(b) - n + 1)) :
           h[i] = IF i <= Len(f) THEN f[i] ELSE b[n + (i - Len(f)) - 1]
  BY <1>2, AfterFacts, SMTT(40)
<1>4. /\ k \in Seq(1..N) /\ Len(k) = Len(f) + (Len(b) - (n + 1) + 1)
      /\ \A i \in 1..(Len(f) + (Len(b) - (n + 1) + 1)) :
           k[i] = IF i <= Len(f) THEN f[i] ELSE b[(n + 1) + (i - Len(f)) - 1]
  BY <1>2, AfterFacts, ZenonT(40)
<1> HIDE DEF h, k
<1>5. Len(f) + 1 \in 1..Len(h) /\ n + ((Len(f) + 1) - Len(f)) - 1 = n
        /\ ~(Len(f) + 1 <= Len(f))
  BY <1>1, <1>3
<1>6. h[Len(f) + 1] = b[n]
  BY <1>3, <1>5
<1>7. /\ r \in Seq(1..N) /\ Len(r) = Len(h) - 1
      /\ \A j \in 1..(Len(h) - 1) :
           r[j] = IF j < Len(f) + 1 THEN h[j] ELSE h[j + 1]
  BY <1>3, <1>5, RemoveAtFacts, ZenonT(40)
<1> HIDE DEF r
<1>8. /\ Len(h) = Len(f) + (Len(b) - n + 1)
      /\ Len(k) = Len(f) + (Len(b) - (n + 1) + 1)
      /\ Len(k) = Len(h) - 1 /\ Len(h) \in Nat
  <2>1. /\ Len(h) = Len(f) + (Len(b) - n + 1)
        /\ Len(k) = Len(f) + (Len(b) - (n + 1) + 1)
    BY <1>3, <1>4
  <2> QED
    BY <1>1, <2>1
<1>9. ASSUME NEW j \in 1..Len(k)
      PROVE  k[j] = r[j]
  <2>1. /\ j \in 1..(Len(h) - 1) /\ j \in 1..(Len(f) + (Len(b) - (n + 1) + 1))
        /\ j \in Nat
        /\ j \in 1..(Len(f) + (Len(b) - n + 1))
        /\ j + 1 \in 1..(Len(f) + (Len(b) - n + 1))
    BY <1>1, <1>8, SMTT(30)
  <2>2. CASE j < Len(f) + 1
    <3>1. j <= Len(f)
      BY <1>1, <2>1, <2>2
    <3> QED
      BY <1>3, <1>4, <1>7, <2>1, <2>2, <3>1
  <2>3. CASE ~(j < Len(f) + 1)
    <3>1. ~(j <= Len(f)) /\ ~(j + 1 <= Len(f))
          /\ (n + 1) + (j - Len(f)) - 1 = n + ((j + 1) - Len(f)) - 1
      BY <1>1, <2>1, <2>3, SMTT(40)
    <3>2. r[j] = h[j + 1]
      BY <1>7, <2>1, <2>3
    <3>3. h[j + 1] = b[n + ((j + 1) - Len(f)) - 1]
      BY <1>3, <2>1, <3>1
    <3>4. k[j] = b[(n + 1) + (j - Len(f)) - 1]
      BY <1>4, <2>1, <3>1
    <3>5. b[(n + 1) + (j - Len(f)) - 1] = b[n + ((j + 1) - Len(f)) - 1]
      BY <3>1, Zenon
    <3> QED
      BY <3>2, <3>3, <3>4, <3>5, Zenon
  <2> QED
    BY <2>2, <2>3
<1>10. k = r
  <2>1. k \in Seq(1..N) /\ r \in Seq(1..N) /\ Len(k) = Len(r)
    BY <1>4, <1>7, <1>8
  <2> QED
    BY <1>9, <2>1, SeqEqual
<1> QED
  BY <1>5, <1>6, <1>10 DEF h, k, r

(* What removing a place of an increasing sequence leaves.                 *)
LEMMA RemoveIncreasing ==
  ASSUME NEW N \in Nat, NEW s \in Seq(1..N), NEW i \in 1..Len(s), Increasing(s)
  PROVE  /\ Increasing(RemoveAt(s, i))
         /\ ToSet(RemoveAt(s, i)) = ToSet(s) \ {s[i]}
<1> DEFINE r == RemoveAt(s, i)
<1>1. /\ r \in Seq(1..N) /\ Len(r) = Len(s) - 1
      /\ \A j \in 1..(Len(s) - 1) : r[j] = IF j < i THEN s[j] ELSE s[j + 1]
  BY RemoveAtFacts
<1> HIDE DEF r
<1>2. /\ Len(s) \in Nat /\ i \in Nat /\ i <= Len(s) /\ i >= 1
      /\ DOMAIN s = 1..Len(s)
      /\ DOMAIN r = 1..(Len(s) - 1)
  BY <1>1, LenProperties
<1>3. \A j \in 1..Len(s) : s[j] \in Nat
  <2>1. \A j \in 1..Len(s) : s[j] \in 1..N
    BY ElementOfSeq
  <2> QED
    BY <2>1
<1>4. Increasing(r)
  <2> SUFFICES ASSUME NEW j \in DOMAIN r, NEW k \in DOMAIN r, j < k
               PROVE  r[j] < r[k]
    BY DEF Increasing
  <2> DEFINE jj == IF j < i THEN j ELSE j + 1
             kk == IF k < i THEN k ELSE k + 1
  <2>1. r[j] = s[jj] /\ r[k] = s[kk]
    <3>1. j \in 1..(Len(s) - 1) /\ k \in 1..(Len(s) - 1)
      BY <1>2, Zenon
    <3>2. /\ r[j] = IF j < i THEN s[j] ELSE s[j + 1]
          /\ r[k] = IF k < i THEN s[k] ELSE s[k + 1]
      BY <1>1, <3>1, Zenon
    <3> QED
      BY <3>2
  <2>2. jj \in 1..Len(s) /\ kk \in 1..Len(s) /\ jj < kk
    <3>1. j \in 1..(Len(s) - 1) /\ k \in 1..(Len(s) - 1)
      BY <1>2, Zenon
    <3>2. Len(s) \in Nat /\ i \in Nat
      BY <1>2
    <3>3. (j < i /\ jj = j) \/ (~(j < i) /\ jj = j + 1)
      BY Zenon
    <3>4. (k < i /\ kk = k) \/ (~(k < i) /\ kk = k + 1)
      BY Zenon
    <3> HIDE DEF jj, kk
    <3> QED
      BY <3>1, <3>2, <3>3, <3>4, SMTT(40)
  <2> HIDE DEF jj, kk
  <2> QED
    BY <1>2, <2>1, <2>2 DEF Increasing
<1>5. ASSUME NEW j \in DOMAIN r
      PROVE  r[j] \in ToSet(s) \ {s[i]}
  <2> DEFINE jj == IF j < i THEN j ELSE j + 1
  <2>1. r[j] = s[jj]
    BY <1>1, <1>2
  <2>2. jj \in 1..Len(s) /\ (jj < i \/ i < jj)
    <3>1. j \in 1..(Len(s) - 1)
      BY <1>2, Zenon
    <3>2. Len(s) \in Nat /\ i \in Nat
      BY <1>2
    <3> QED
      BY <3>1, <3>2, SMTT(40)
  <2> HIDE DEF jj
  <2>3. s[jj] < s[i] \/ s[i] < s[jj]
    BY <1>2, <2>2 DEF Increasing
  <2>4. s[jj] # s[i]
    BY <1>2, <1>3, <2>2, <2>3
  <2> QED
    BY <1>2, <2>1, <2>2, <2>4 DEF ToSet
<1>6. ASSUME NEW k \in DOMAIN s, s[k] # s[i]
      PROVE  \E j \in DOMAIN r : r[j] = s[k]
  <2>1. k \in Nat /\ k \in 1..Len(s) /\ (k < i \/ i < k)
    BY <1>2, <1>6
  <2>2. CASE k < i
    <3>1. k \in DOMAIN r /\ r[k] = s[k]
      BY <1>1, <1>2, <2>1, <2>2, SMTT(40)
    <3> QED
      BY <3>1
  <2>3. CASE i < k
    <3>1. k - 1 \in DOMAIN r /\ ~(k - 1 < i) /\ (k - 1) + 1 = k
      BY <1>2, <2>1, <2>3, SMTT(40)
    <3>2. r[k - 1] = s[k]
      BY <1>1, <1>2, <3>1
    <3> QED
      BY <3>1, <3>2
  <2> QED
    BY <2>1, <2>2, <2>3
<1>7. ToSet(r) = ToSet(s) \ {s[i]}
  <2>1. ToSet(r) \subseteq ToSet(s) \ {s[i]}
    <3> SUFFICES ASSUME NEW j \in DOMAIN r
                 PROVE  r[j] \in ToSet(s) \ {s[i]}
      BY Zenon DEF ToSet
    <3> QED
      BY <1>5
  <2>2. ToSet(s) \ {s[i]} \subseteq ToSet(r)
    <3> SUFFICES ASSUME NEW x \in ToSet(s), x # s[i]
                 PROVE  x \in ToSet(r)
      OBVIOUS
    <3>1. PICK k \in DOMAIN s : x = s[k]
      BY Zenon DEF ToSet
    <3>2. PICK j \in DOMAIN r : r[j] = s[k]
      BY <1>6, <3>1
    <3> QED
      BY <3>1, <3>2, Zenon DEF ToSet
  <2> QED
    BY <2>1, <2>2
<1> QED
  BY <1>4, <1>7 DEF r

(* The newest message at the end of an increasing sequence of older ones.  *)
LEMMA AppendIncreasing ==
  ASSUME NEW N \in Nat, NEW s \in Seq(1..N), Increasing(s)
  PROVE  /\ Append(s, N + 1) \in Seq(1..(N + 1))
         /\ s \in Seq(1..(N + 1))
         /\ Increasing(Append(s, N + 1))
         /\ ToSet(Append(s, N + 1)) = ToSet(s) \cup {N + 1}
         /\ Len(Append(s, N + 1)) = Len(s) + 1
<1> DEFINE t == Append(s, N + 1)
<1>1. 1..N \subseteq 1..(N + 1) /\ N + 1 \in 1..(N + 1)
  OBVIOUS
<1>2. s \in Seq(1..(N + 1))
  BY <1>1
<1>3. /\ t \in Seq(1..(N + 1)) /\ Len(t) = Len(s) + 1
      /\ \A i \in 1..Len(s) : t[i] = s[i]
      /\ t[Len(s) + 1] = N + 1
  BY <1>1, <1>2, AppendProperties
<1> HIDE DEF t
<1>4. /\ DOMAIN s = 1..Len(s) /\ DOMAIN t = 1..(Len(s) + 1) /\ Len(s) \in Nat
      /\ DOMAIN t = DOMAIN s \cup {Len(s) + 1}
  <2>1. DOMAIN s = 1..Len(s) /\ DOMAIN t = 1..(Len(s) + 1) /\ Len(s) \in Nat
    BY <1>3, LenProperties
  <2>2. 1..(Len(s) + 1) = (1..Len(s)) \cup {Len(s) + 1}
    BY <2>1
  <2> QED
    BY <2>1, <2>2, Zenon
<1>5. \A i \in DOMAIN s : s[i] \in 1..N
  BY <1>4, ElementOfSeq
<1>6. Increasing(t)
  <2> SUFFICES ASSUME NEW i \in DOMAIN t, NEW j \in DOMAIN t, i < j
               PROVE  t[i] < t[j]
    BY DEF Increasing
  <2>1. i \in 1..Len(s) /\ (j \in 1..Len(s) \/ j = Len(s) + 1)
    BY <1>4
  <2>2. CASE j \in 1..Len(s)
    BY <1>3, <1>4, <2>1, <2>2 DEF Increasing
  <2>3. CASE j = Len(s) + 1
    <3>1. t[i] \in 1..N /\ t[j] = N + 1
      BY <1>3, <1>4, <1>5, <2>1, <2>3
    <3> QED
      BY <3>1
  <2> QED
    BY <2>1, <2>2, <2>3
<1>7. ToSet(t) = ToSet(s) \cup {N + 1}
  BY <1>3, <1>4, ZenonT(60) DEF ToSet
<1> QED
  BY <1>2, <1>3, <1>6, <1>7 DEF t

-----------------------------------------------------------------------------
(* Handing a message over.                                                 *)

USE ElkReporterAssumption

DeliveryTypes ==
  /\ socket \in {"none", "open", "torn", "stale", "dead"}
  /\ copies \in [Entries -> 0..MaxCopies]
  /\ lost \subseteq Entries
  /\ timedOut \subseteq Entries

(* A message that arrives has as many copies as before or more.            *)
LEMMA ArriveFacts ==
  ASSUME copies \in [Entries -> 0..MaxCopies], NEW e \in Entries,
         NEW n \in Nat, Arrive(e, n)
  PROVE  /\ copies' \in [Entries -> 0..MaxCopies]
         /\ \A x \in Entries : x # e => copies'[x] = copies[x]
         /\ copies' = [copies EXCEPT ![e] = copies'[e]]
         /\ copies'[e] \in copies[e]..MaxCopies
         /\ n > 0 => copies'[e] > 0
         /\ copies[e] = 0 => copies'[e] <= n
<1> DEFINE c == IF copies[e] + n > MaxCopies THEN MaxCopies ELSE copies[e] + n
<1>1. copies[e] \in 0..MaxCopies
  OBVIOUS
<1>2. /\ c \in copies[e]..MaxCopies /\ c \in 0..MaxCopies
      /\ n > 0 => c > 0
      /\ copies[e] = 0 => c <= n
  BY <1>1
<1>3. copies' = [copies EXCEPT ![e] = c]
  BY DEF Arrive
<1> HIDE DEF c
<1>4. copies'[e] = c
  BY <1>3
<1> QED
  BY <1>2, <1>3, <1>4

(* What an attempt changes: nothing of another message, ...                *)
Attempted(e) ==
  /\ DeliveryTypes'
  /\ \A x \in Entries : x # e => copies'[x] = copies[x]
  /\ copies' = [copies EXCEPT ![e] = copies'[e]]
  /\ copies'[e] \in copies[e]..MaxCopies
  /\ lost \subseteq lost' /\ lost' \subseteq lost \cup {e}
  /\ timedOut \subseteq timedOut' /\ timedOut' \subseteq timedOut \cup {e}

(* ... and a message that is handed over has arrived, or is lost with the  *)
(* connection; if it arrived twice, a request went unanswered.             *)
LEMMA DeliveredFacts ==
  ASSUME DeliveryTypes, NEW e \in Entries, Delivered(e)
  PROVE  /\ Attempted(e)
         /\ copies'[e] > 0 \/ e \in lost'
         /\ copies[e] = 0 /\ copies'[e] > 1 => e \in timedOut'
<1> USE DEF DeliveryTypes, Attempted
<1>1. CASE Indexed(e)
  <2>1. PICK n \in 1..MaxCopies :
          /\ Arrive(e, n)
          /\ timedOut' = IF n > 1 THEN timedOut \cup {e} ELSE timedOut
    BY <1>1 DEF Indexed
  <2>2. socket' = socket /\ lost' = lost
    BY <1>1 DEF Indexed
  <2>3. n \in Nat /\ n > 0
    OBVIOUS
  <2>4. /\ copies' \in [Entries -> 0..MaxCopies]
        /\ \A x \in Entries : x # e => copies'[x] = copies[x]
        /\ copies' = [copies EXCEPT ![e] = copies'[e]]
        /\ copies'[e] \in copies[e]..MaxCopies
        /\ copies'[e] > 0
        /\ copies[e] = 0 => copies'[e] <= n
    BY <2>1, <2>3, ArriveFacts
  <2>5. copies[e] = 0 /\ copies'[e] > 1 => n > 1
    BY <2>3, <2>4
  <2> QED
    BY <2>1, <2>2, <2>4, <2>5
<1>2. CASE \E n \in Unanswered(e) : Shipped(e, n)
  <2>1. PICK n \in Unanswered(e) : Shipped(e, n)
    BY <1>2
  <2>2. n \in Nat
    BY DEF Unanswered
  <2>3. timedOut' = IF n > 0 THEN timedOut \cup {e} ELSE timedOut
    BY <2>1 DEF Shipped
  <2>4. CASE socket' = "open" /\ Arrive(e, n + 1) /\ lost' = lost
    <3>1. n + 1 \in Nat /\ n + 1 > 0
      BY <2>2
    <3>2. /\ copies' \in [Entries -> 0..MaxCopies]
          /\ \A x \in Entries : x # e => copies'[x] = copies[x]
          /\ copies' = [copies EXCEPT ![e] = copies'[e]]
          /\ copies'[e] \in copies[e]..MaxCopies
          /\ copies'[e] > 0
          /\ copies[e] = 0 => copies'[e] <= n + 1
      BY <2>4, <3>1, ArriveFacts
    <3>3. copies[e] = 0 /\ copies'[e] > 1 => n > 0
      BY <2>2, <3>2
    <3> QED
      BY <2>3, <2>4, <3>2, <3>3
  <2>5. CASE /\ socket' \in SentInVain[socket]
             /\ Arrive(e, n) /\ lost' = lost \cup {e}
    <3>1. /\ copies' \in [Entries -> 0..MaxCopies]
          /\ \A x \in Entries : x # e => copies'[x] = copies[x]
          /\ copies' = [copies EXCEPT ![e] = copies'[e]]
          /\ copies'[e] \in copies[e]..MaxCopies
          /\ copies[e] = 0 => copies'[e] <= n
      BY <2>2, <2>5, ArriveFacts
    <3>2. copies[e] = 0 /\ copies'[e] > 1 => n > 0
      BY <2>2, <3>1
    <3>3. socket' \in {"open", "torn", "stale", "dead"}
      BY <2>5 DEF SentInVain
    <3> QED
      BY <2>3, <2>5, <3>1, <3>2, <3>3
  <2> QED
    BY <2>1, <2>4, <2>5 DEF Shipped
<1> QED
  BY <1>1, <1>2 DEF Delivered

(* A message that stays has arrived only by a request without an answer.   *)
LEMMA UndeliveredFacts ==
  ASSUME DeliveryTypes, NEW e \in Entries, Undelivered(e)
  PROVE  /\ Attempted(e)
         /\ copies[e] = 0 /\ copies'[e] > 0 => e \in timedOut'
<1> USE DEF DeliveryTypes, Attempted
<1>1. PICK n \in Unanswered(e) : NotShipped(e, n)
  BY DEF Undelivered
<1>2. n \in Nat
  BY DEF Unanswered
<1>3. /\ timedOut' = IF n > 0 THEN timedOut \cup {e} ELSE timedOut
      /\ Arrive(e, n) /\ lost' = lost /\ socket' \in {socket, "none"}
  BY <1>1 DEF NotShipped
<1>4. /\ copies' \in [Entries -> 0..MaxCopies]
      /\ \A x \in Entries : x # e => copies'[x] = copies[x]
      /\ copies' = [copies EXCEPT ![e] = copies'[e]]
      /\ copies'[e] \in copies[e]..MaxCopies
      /\ copies[e] = 0 => copies'[e] <= n
  BY <1>2, <1>3, ArriveFacts
<1>5. copies[e] = 0 /\ copies'[e] > 0 => n > 0
  BY <1>2, <1>4
<1> QED
  BY <1>3, <1>4, <1>5

-----------------------------------------------------------------------------
(* The reporter's state in parts.                                          *)

CallTypes ==
  /\ phase \in {"idle", "flushing", "flushing_to_close", "closing", "closed",
                "killed"}
  /\ es_client \in BOOLEAN
  /\ logstash \in BOOLEAN

BufferTypes ==
  /\ logged \in 0..MaxEntries
  /\ log_buffer \in Seq(1..logged)
  /\ next \in 1..(Len(log_buffer) + 1)
  /\ failed \in Seq(1..logged)

ResultTypes == stored \subseteq Results /\ acked \subseteq stored

LEMMA ElkTypeParts ==
  ElkTypeOK <=> CallTypes /\ BufferTypes /\ DeliveryTypes /\ ResultTypes
BY DEF ElkTypeOK, CallTypes, BufferTypes, DeliveryTypes, ResultTypes

LEMMA ElkTypePartsNext ==
  ElkTypeOK' <=> CallTypes' /\ BufferTypes' /\ DeliveryTypes' /\ ResultTypes'
BY DEF ElkTypeOK, CallTypes, BufferTypes, DeliveryTypes, ResultTypes

LEMMA HeldIs ==
  /\ Held = After(failed, log_buffer, next)
  /\ Held' = After(failed', log_buffer', next')
  /\ HeldInOrder <=> Increasing(Held)
  /\ HeldInOrder' <=> Increasing(Held')
BY DEF Held, After, HeldInOrder, Increasing

LEMMA HeldType ==
  ASSUME BufferTypes
  PROVE  Held \in Seq(1..logged) /\ ToSet(Held) \subseteq 1..logged
<1>1. Held \in Seq(1..logged)
  BY HeldIs, AfterFacts DEF BufferTypes
<1>2. \A i \in DOMAIN Held : Held[i] \in 1..logged
  BY <1>1, ElementOfSeq, LenProperties
<1> QED
  BY <1>1, <1>2 DEF ToSet

(* A step that hands nothing over and holds the same messages.             *)
LEMMA SameHeldKeeps ==
  ASSUME ElkIInv, Held' = Held, ElkTypeOK', FlushInv',
         UNCHANGED <<logged, copies, lost, timedOut>>
  PROVE  ElkIInv'
BY HeldIs DEF ElkIInv, FreshInv, AcceptedIsAccounted, DuplicatesExplained

LEMMA AfterStart ==
  ASSUME NEW N \in Nat, NEW b \in Seq(1..N)
  PROVE  After(<<>>, b, 1) = b
BY SubSeqFull, ConcatEmptySeq DEF After

LEMMA AfterEnd ==
  ASSUME NEW N \in Nat, NEW f \in Seq(1..N), NEW b \in Seq(1..N)
  PROVE  After(f, b, Len(b) + 1) = f
<1>1. Len(b) + 1 \in Int /\ Len(b) \in Int /\ Len(b) < Len(b) + 1
  OBVIOUS
<1>2. SubSeq(b, Len(b) + 1, Len(b)) = <<>>
  BY <1>1, SubSeqEmpty
<1> QED
  BY <1>2, ConcatEmptySeq DEF After

-----------------------------------------------------------------------------
(* log_test_message.                                                       *)

LEMMA LogStep ==
  ASSUME ElkIInv, LogTestMessage
  PROVE  /\ logged + 1 \in Entries /\ logged' = logged + 1
         /\ phase = "idle" /\ next' = 1 /\ failed' = <<>>
         /\ UNCHANGED <<phase, es_client, logstash, resultVars>>
         /\ BufferTypes' /\ Increasing(Held')
         /\ Attempted(logged + 1)
         /\ \/ /\ Held' = Held
               /\ copies'[logged + 1] > 0 \/ logged + 1 \in lost'
               /\ copies[logged + 1] = 0 /\ copies'[logged + 1] > 1
                    => logged + 1 \in timedOut'
            \/ /\ Held' = Append(Held, logged + 1)
               /\ ToSet(Held') = ToSet(Held) \cup {logged + 1}
               /\ copies[logged + 1] = 0 /\ copies'[logged + 1] > 0
                    => logged + 1 \in timedOut'
<1> DEFINE e == logged + 1
<1>1. /\ phase = "idle" /\ logged < MaxEntries /\ logged' = e
      /\ UNCHANGED <<phase, es_client, logstash, next, failed, resultVars>>
  BY DEF LogTestMessage
<1>2. BufferTypes /\ DeliveryTypes /\ next = 1 /\ failed = <<>>
        /\ Increasing(Held)
  BY <1>1, ElkTypeParts, HeldIs DEF ElkIInv, FlushInv
<1>3. logged \in Nat /\ e \in Nat /\ e \in Entries /\ e \in 0..MaxEntries
        /\ log_buffer \in Seq(1..logged) /\ Len(log_buffer) \in Nat
  BY <1>1, <1>2 DEF BufferTypes, Entries
<1>4. Held = log_buffer
  BY <1>2, <1>3, HeldIs, AfterStart
<1>5. /\ Append(Held, e) \in Seq(1..e)
      /\ log_buffer \in Seq(1..e)
      /\ Increasing(Append(Held, e))
      /\ ToSet(Append(Held, e)) = ToSet(Held) \cup {e}
  BY <1>2, <1>3, <1>4, AppendIncreasing
<1>6. /\ next' = 1 /\ failed' = <<>> /\ failed' \in Seq(1..e)
  BY <1>1, <1>2
<1>7. CASE Delivered(e) /\ UNCHANGED log_buffer
  <2>1. Held' = Held
    BY <1>1, <1>7, HeldIs
  <2>2. BufferTypes'
    BY <1>1, <1>3, <1>5, <1>6, <1>7 DEF BufferTypes
  <2>3. Attempted(e) /\ (copies'[e] > 0 \/ e \in lost')
          /\ (copies[e] = 0 /\ copies'[e] > 1 => e \in timedOut')
    BY <1>2, <1>3, <1>7, DeliveredFacts
  <2> HIDE DEF e
  <2> QED
    BY <1>1, <1>2, <1>3, <1>6, <2>1, <2>2, <2>3 DEF e
<1>8. CASE Undelivered(e) /\ log_buffer' = Append(log_buffer, e)
  <2>1. log_buffer' \in Seq(1..e) /\ Len(log_buffer') \in Nat
    BY <1>4, <1>5, <1>8
  <2>2. BufferTypes'
    BY <1>1, <1>3, <1>6, <2>1 DEF BufferTypes
  <2>3. Held' = log_buffer'
    BY <1>3, <1>6, <2>1, HeldIs, AfterStart
  <2>4. Held' = Append(Held, e)
    BY <1>4, <1>8, <2>3
  <2>5. Attempted(e) /\ (copies[e] = 0 /\ copies'[e] > 0 => e \in timedOut')
    BY <1>2, <1>3, <1>8, UndeliveredFacts
  <2> HIDE DEF e
  <2> QED
    BY <1>1, <1>3, <1>5, <1>6, <2>2, <2>4, <2>5 DEF e
<1> QED
  BY <1>1, <1>7, <1>8 DEF LogTestMessage

LEMMA LogKeeps ==
  ASSUME ElkIInv, LogTestMessage
  PROVE  ElkIInv'
<1> DEFINE e == logged + 1
<1>1. /\ logged \in Nat /\ e \in Entries /\ logged' = e
      /\ next' = 1 /\ failed' = <<>>
      /\ UNCHANGED <<phase, es_client, logstash, resultVars>>
      /\ BufferTypes' /\ Increasing(Held')
      /\ Attempted(e)
  BY LogStep, ElkTypeParts DEF ElkIInv, BufferTypes
<1>2. \/ /\ Held' = Held
         /\ copies'[e] > 0 \/ e \in lost'
         /\ copies[e] = 0 /\ copies'[e] > 1 => e \in timedOut'
      \/ /\ ToSet(Held') = ToSet(Held) \cup {e}
         /\ copies[e] = 0 /\ copies'[e] > 0 => e \in timedOut'
  BY LogStep
<1>3. copies[e] = 0 /\ e \notin lost /\ e \notin timedOut /\ e \notin ToSet(Held)
  <2>1. e > logged
    BY <1>1
  <2>2. ToSet(Held) \subseteq 1..logged
    BY HeldType, ElkTypeParts DEF ElkIInv
  <2> QED
    BY <1>1, <2>1, <2>2 DEF ElkIInv, FreshInv
<1>4. ElkTypeOK'
  BY <1>1, ElkTypeParts, ElkTypePartsNext
     DEF ElkIInv, CallTypes, ResultTypes, resultVars, Attempted
<1>5. FlushInv'
  BY <1>1 DEF FlushInv
<1>6. \A x \in 1..e : x = e \/ (x \in 1..logged /\ x \in Entries /\ x # e)
  BY <1>1 DEF Entries
<1>7. \A x \in Entries : x > e => x > logged /\ x # e
  BY <1>1 DEF Entries
<1> HIDE DEF e
<1>8. FreshInv'
  BY <1>1, <1>7 DEF FreshInv, ElkIInv, Attempted
<1>9. AcceptedIsAccounted'
  <2> SUFFICES ASSUME NEW x \in 1..e
               PROVE  copies'[x] > 0 \/ x \in lost' \/ x \in ToSet(Held')
    BY <1>1 DEF AcceptedIsAccounted
  <2>1. CASE x = e
    BY <1>2, <1>3, <2>1
  <2>2. CASE x \in 1..logged /\ x \in Entries /\ x # e
    <3>1. copies[x] > 0 \/ x \in lost \/ x \in ToSet(Held)
      BY <2>2 DEF ElkIInv, AcceptedIsAccounted
    <3>2. copies'[x] = copies[x] /\ lost \subseteq lost'
      BY <1>1, <2>2 DEF Attempted
    <3> QED
      BY <1>2, <3>1, <3>2
  <2> QED
    BY <1>6, <2>1, <2>2
<1>10. DuplicatesExplained'
  <2> SUFFICES ASSUME NEW x \in 1..e,
                      copies'[x] > 1 \/ (copies'[x] > 0 /\ x \in ToSet(Held'))
               PROVE  x \in timedOut'
    BY <1>1 DEF DuplicatesExplained
  <2>1. CASE x = e
    <3>1. copies'[e] \in Nat
      BY <1>1 DEF Attempted, DeliveryTypes
    <3> QED
      BY <1>2, <1>3, <2>1, <3>1
  <2>2. CASE x \in 1..logged /\ x \in Entries /\ x # e
    <3>1. copies'[x] = copies[x] /\ timedOut \subseteq timedOut'
      BY <1>1, <2>2 DEF Attempted
    <3>2. x \in ToSet(Held') => x \in ToSet(Held)
      BY <1>2, <2>2
    <3> QED
      BY <2>2, <3>1, <3>2 DEF ElkIInv, DuplicatesExplained
  <2> QED
    BY <1>6, <2>1, <2>2
<1> QED
  BY <1>1, <1>4, <1>5, <1>8, <1>9, <1>10, HeldIs DEF ElkIInv

-----------------------------------------------------------------------------
(* flush_buffered_logs.                                                    *)

LEMMA FlushStep ==
  ASSUME ElkIInv, FlushEntry
  PROVE  /\ log_buffer[next] \in 1..logged /\ log_buffer[next] \in Entries
         /\ Flushing
         /\ UNCHANGED <<phase, es_client, logstash, logged, log_buffer, resultVars>>
         /\ BufferTypes' /\ Increasing(Held')
         /\ Attempted(log_buffer[next])
         /\ Len(failed) + 1 \in DOMAIN Held
         /\ Held[Len(failed) + 1] = log_buffer[next]
         /\ \/ /\ Held' = RemoveAt(Held, Len(failed) + 1)
               /\ ToSet(Held') = ToSet(Held) \ {log_buffer[next]}
               /\ copies'[log_buffer[next]] > 0 \/ log_buffer[next] \in lost'
               /\ copies[log_buffer[next]] = 0 /\ copies'[log_buffer[next]] > 1
                    => log_buffer[next] \in timedOut'
            \/ /\ Held' = Held
               /\ copies[log_buffer[next]] = 0 /\ copies'[log_buffer[next]] > 0
                    => log_buffer[next] \in timedOut'
<1> DEFINE e == log_buffer[next]
           i == Len(failed) + 1
<1>1. /\ Flushing /\ next <= Len(log_buffer) /\ next' = next + 1
      /\ UNCHANGED <<phase, es_client, logstash, logged, log_buffer, resultVars>>
  BY DEF FlushEntry
<1>2. BufferTypes /\ DeliveryTypes /\ Increasing(Held) /\ Held \in Seq(1..logged)
  BY ElkTypeParts, HeldIs, HeldType DEF ElkIInv
<1>3. /\ logged \in Nat /\ logged <= MaxEntries /\ failed \in Seq(1..logged)
      /\ log_buffer \in Seq(1..logged) /\ next \in 1..Len(log_buffer)
      /\ next + 1 \in 1..(Len(log_buffer) + 1)
  BY <1>1, <1>2 DEF BufferTypes
<1>4. e \in 1..logged /\ e \in Entries
  <2>1. e \in 1..logged
    BY <1>3, ElementOfSeq
  <2> QED
    BY <1>3, <2>1 DEF Entries
<1>5. i \in 1..Len(Held) /\ Held[i] = e
        /\ After(failed, log_buffer, next + 1) = RemoveAt(Held, i)
  BY <1>3, HeldIs, EntryGoes
<1>6. i \in DOMAIN Held
  BY <1>2, <1>5, LenProperties
<1>7. /\ Increasing(RemoveAt(Held, i))
      /\ ToSet(RemoveAt(Held, i)) = ToSet(Held) \ {e}
  BY <1>2, <1>3, <1>5, RemoveIncreasing, SMTT(30)
<1>8. /\ Append(failed, e) \in Seq(1..logged)
      /\ After(Append(failed, e), log_buffer, next + 1) = Held
  BY <1>3, HeldIs, EntryStays
<1>9. CASE Delivered(e) /\ UNCHANGED failed
  <2>1. BufferTypes'
    BY <1>1, <1>2, <1>3, <1>9 DEF BufferTypes
  <2>2. Held' = RemoveAt(Held, i)
    BY <1>1, <1>5, <1>9, HeldIs
  <2>3. Attempted(e) /\ (copies'[e] > 0 \/ e \in lost')
          /\ (copies[e] = 0 /\ copies'[e] > 1 => e \in timedOut')
    BY <1>2, <1>4, <1>9, DeliveredFacts
  <2> HIDE DEF e, i
  <2> QED
    BY <1>1, <1>4, <1>5, <1>6, <1>7, <2>1, <2>2, <2>3 DEF e, i
<1>10. CASE Undelivered(e) /\ failed' = Append(failed, e)
  <2>1. BufferTypes'
    BY <1>1, <1>2, <1>3, <1>8, <1>10 DEF BufferTypes
  <2>2. Held' = Held
    BY <1>1, <1>8, <1>10, HeldIs
  <2>3. Attempted(e) /\ (copies[e] = 0 /\ copies'[e] > 0 => e \in timedOut')
    BY <1>2, <1>4, <1>10, UndeliveredFacts
  <2> HIDE DEF e, i
  <2> QED
    BY <1>1, <1>2, <1>4, <1>5, <1>6, <2>1, <2>2, <2>3 DEF e, i
<1> QED
  BY <1>9, <1>10 DEF FlushEntry

LEMMA FlushEntryKeeps ==
  ASSUME ElkIInv, FlushEntry
  PROVE  ElkIInv'
<1> DEFINE e == log_buffer[next]
<1>1. /\ e \in 1..logged /\ e \in Entries /\ Flushing
      /\ UNCHANGED <<phase, es_client, logstash, logged, log_buffer, resultVars>>
      /\ BufferTypes' /\ Increasing(Held')
      /\ Attempted(e)
  BY FlushStep
<1>2. \/ /\ ToSet(Held') = ToSet(Held) \ {e}
         /\ copies'[e] > 0 \/ e \in lost'
         /\ copies[e] = 0 /\ copies'[e] > 1 => e \in timedOut'
      \/ /\ Held' = Held
         /\ copies[e] = 0 /\ copies'[e] > 0 => e \in timedOut'
  BY FlushStep
<1>3. e \in ToSet(Held)
  BY FlushStep, Zenon DEF ToSet
<1>4. ElkTypeOK'
  BY <1>1, ElkTypeParts, ElkTypePartsNext
     DEF ElkIInv, CallTypes, ResultTypes, resultVars, Attempted
<1>5. FlushInv'
  BY <1>1 DEF FlushInv, Flushing
<1>6. logged \in 0..MaxEntries /\ copies[e] \in Nat /\ copies'[e] \in Nat
  BY <1>1, ElkTypeParts DEF ElkIInv, BufferTypes, DeliveryTypes, Attempted
<1>7. \A x \in 1..logged : x \in Entries
  BY <1>6 DEF Entries
<1>8. \A x \in Entries : x > logged => x # e
  BY <1>1, <1>6 DEF Entries
<1> HIDE DEF e
<1>9. FreshInv'
  BY <1>1, <1>8 DEF FreshInv, ElkIInv, Attempted
<1>10. AcceptedIsAccounted'
  <2> SUFFICES ASSUME NEW x \in 1..logged
               PROVE  copies'[x] > 0 \/ x \in lost' \/ x \in ToSet(Held')
    BY <1>1 DEF AcceptedIsAccounted
  <2>1. CASE x = e
    BY <1>2, <1>3, <2>1
  <2>2. CASE x # e
    <3>1. copies[x] > 0 \/ x \in lost \/ x \in ToSet(Held)
      BY DEF ElkIInv, AcceptedIsAccounted
    <3>2. copies'[x] = copies[x] /\ lost \subseteq lost'
      BY <1>1, <1>7, <2>2 DEF Attempted
    <3> QED
      BY <1>2, <2>2, <3>1, <3>2
  <2> QED
    BY <2>1, <2>2
<1>11. DuplicatesExplained'
  <2> SUFFICES ASSUME NEW x \in 1..logged,
                      copies'[x] > 1 \/ (copies'[x] > 0 /\ x \in ToSet(Held'))
               PROVE  x \in timedOut'
    BY <1>1 DEF DuplicatesExplained
  <2>1. CASE x = e /\ copies[e] > 0
    <3>1. e \in timedOut
      BY <1>1, <1>3, <2>1 DEF ElkIInv, DuplicatesExplained
    <3> QED
      BY <1>1, <2>1, <3>1 DEF Attempted
  <2>2. CASE x = e /\ copies[e] = 0
    BY <1>2, <1>6, <2>2
  <2>3. CASE x # e
    <3>1. copies'[x] = copies[x] /\ timedOut \subseteq timedOut'
      BY <1>1, <1>7, <2>3 DEF Attempted
    <3>2. x \in ToSet(Held') => x \in ToSet(Held)
      BY <1>2
    <3> QED
      BY <3>1, <3>2 DEF ElkIInv, DuplicatesExplained
  <2> QED
    BY <1>6, <2>1, <2>2, <2>3
<1> QED
  BY <1>1, <1>4, <1>5, <1>9, <1>10, <1>11, HeldIs DEF ElkIInv

-----------------------------------------------------------------------------
(* The steps that hand nothing over.                                       *)

(* They hold the same messages; for the refinement, the calls stutter and  *)
(* the end of the session ends the feed.                                   *)
LEMMA QuietStep ==
  ASSUME ElkIInv,
         \/ \E r \in Results : LogTestResult(r)
         \/ \E p \in {"flushing", "flushing_to_close"} : Flush(p)
         \/ FlushEnds \/ Close \/ PeerCloses \/ Kill \/ UNCHANGED elkVars
  PROVE  /\ Held' = Held /\ ElkTypeOK' /\ FlushInv'
         /\ UNCHANGED <<logged, copies, lost, timedOut>>
         /\ \/ phase' \in {"closed", "killed"}
            \/ phase \notin {"closed", "killed"} /\ phase' \notin {"closed", "killed"}
<1> USE DEF flushVars, deliveryVars, resultVars
<1>1. /\ CallTypes /\ BufferTypes /\ DeliveryTypes /\ ResultTypes /\ FlushInv
  BY ElkTypeParts DEF ElkIInv
<1>2. ASSUME NEW r \in Results, LogTestResult(r)
      PROVE  /\ Held' = Held /\ ElkTypeOK' /\ FlushInv'
             /\ UNCHANGED <<logged, copies, lost, timedOut>>
             /\ phase = "idle" /\ phase' = "idle"
  <2>1. /\ phase = "idle"
        /\ UNCHANGED <<phase, es_client, logstash, logged, log_buffer, next,
                       failed, socket, copies, lost, timedOut>>
    BY <1>2 DEF LogTestResult
  <2>2. ResultTypes'
    BY <1>1, <1>2 DEF LogTestResult, ResultTypes
  <2>3. Held' = Held
    BY <2>1, HeldIs
  <2>4. CallTypes' /\ BufferTypes' /\ DeliveryTypes' /\ FlushInv'
    BY <1>1, <2>1 DEF CallTypes, BufferTypes, DeliveryTypes, FlushInv
  <2> QED
    BY <2>1, <2>2, <2>3, <2>4, ElkTypePartsNext
<1>3. ASSUME NEW p \in {"flushing", "flushing_to_close"}, Flush(p)
      PROVE  /\ Held' = Held /\ ElkTypeOK' /\ FlushInv'
             /\ UNCHANGED <<logged, copies, lost, timedOut>>
             /\ phase = "idle" /\ phase' \notin {"closed", "killed"}
  <2>1. /\ phase = "idle" /\ phase' \in {"idle", "closing", p}
        /\ next' = 1 /\ failed' = <<>>
        /\ UNCHANGED <<es_client, logstash, logged, log_buffer, socket, copies,
                       lost, timedOut, stored, acked>>
    BY <1>3 DEF Flush
  <2>2. next' = next /\ failed' = failed
    BY <1>1, <2>1 DEF FlushInv
  <2>3. Held' = Held
    BY <2>1, <2>2, HeldIs
  <2>4. CallTypes' /\ BufferTypes' /\ DeliveryTypes' /\ ResultTypes' /\ FlushInv'
    BY <1>1, <2>1, <2>2
       DEF CallTypes, BufferTypes, DeliveryTypes, ResultTypes, FlushInv
  <2> QED
    BY <2>1, <2>3, <2>4, ElkTypePartsNext
<1>4. ASSUME FlushEnds
      PROVE  /\ Held' = Held /\ ElkTypeOK' /\ FlushInv'
             /\ UNCHANGED <<logged, copies, lost, timedOut>>
             /\ phase \notin {"closed", "killed"}
             /\ phase' \notin {"closed", "killed"}
  <2>1. /\ Flushing /\ phase' \in {"idle", "closing"}
        /\ next > Len(log_buffer)
        /\ log_buffer' = failed /\ next' = 1 /\ failed' = <<>>
        /\ UNCHANGED <<es_client, logstash, logged, socket, copies, lost,
                       timedOut, stored, acked>>
    BY <1>4 DEF FlushEnds
  <2>2. /\ logged \in Nat /\ failed \in Seq(1..logged)
        /\ log_buffer \in Seq(1..logged) /\ next = Len(log_buffer) + 1
        /\ Len(failed) \in Nat
    BY <1>1, <2>1 DEF BufferTypes
  <2>3. Held = failed
    BY <2>2, HeldIs, AfterEnd
  <2>4. Held' = failed
    BY <2>1, <2>2, HeldIs, AfterStart
  <2>5. BufferTypes'
    <3>1. <<>> \in Seq(1..logged) /\ 1 \in 1..(Len(failed) + 1)
      BY <2>2
    <3> QED
      BY <1>1, <2>1, <2>2, <3>1 DEF BufferTypes
  <2>6. CallTypes' /\ DeliveryTypes' /\ ResultTypes' /\ FlushInv'
    BY <1>1, <2>1 DEF CallTypes, DeliveryTypes, ResultTypes, FlushInv
  <2> QED
    BY <2>1, <2>3, <2>4, <2>5, <2>6, ElkTypePartsNext DEF Flushing
<1>5. ASSUME Close \/ PeerCloses \/ Kill \/ UNCHANGED elkVars
      PROVE  /\ Held' = Held /\ ElkTypeOK' /\ FlushInv'
             /\ UNCHANGED <<logged, copies, lost, timedOut>>
             /\ phase' \in {phase, "closed", "killed"}
  <2>1. /\ phase' \in {phase, "closed", "killed"}
        /\ phase' = "closed" => phase \in {"closing", "closed"}
        /\ es_client' \in {es_client, FALSE}
        /\ socket' \in {socket, "none", "stale"}
        /\ UNCHANGED <<logstash, logged, log_buffer, next, failed, copies, lost,
                       timedOut, stored, acked>>
    BY <1>5 DEF Close, PeerCloses, Kill, elkVars
  <2>2. Held' = Held
    BY <2>1, HeldIs
  <2>3. CallTypes'
    <3>1. es_client' \in BOOLEAN
      BY <1>1, <2>1, Zenon DEF CallTypes
    <3> QED
      BY <1>1, <2>1, <3>1 DEF CallTypes
  <2>4. BufferTypes' /\ DeliveryTypes' /\ ResultTypes' /\ FlushInv'
    BY <1>1, <2>1 DEF BufferTypes, DeliveryTypes, ResultTypes, FlushInv
  <2> QED
    BY <2>1, <2>2, <2>3, <2>4, ElkTypePartsNext
<1> QED
  BY <1>2, <1>3, <1>4, <1>5

LEMMA ElkStepKeeps == ElkIInv /\ [ElkNext]_elkVars => ElkIInv'
<1> SUFFICES ASSUME ElkIInv, [ElkNext]_elkVars
             PROVE  ElkIInv'
  OBVIOUS
<1>1. CASE LogTestMessage
  BY <1>1, LogKeeps
<1>2. CASE FlushEntry
  BY <1>2, FlushEntryKeeps
<1>3. CASE \/ \E r \in Results : LogTestResult(r)
           \/ \E p \in {"flushing", "flushing_to_close"} : Flush(p)
           \/ FlushEnds \/ Close \/ PeerCloses \/ Kill \/ UNCHANGED elkVars
  <2>1. /\ Held' = Held /\ ElkTypeOK' /\ FlushInv'
        /\ UNCHANGED <<logged, copies, lost, timedOut>>
    BY <1>3, QuietStep
  <2> QED
    BY <2>1, SameHeldKeeps
<1> QED
  BY <1>1, <1>2, <1>3 DEF ElkNext

LEMMA ElkInitHolds == ElkInit => ElkIInv
<1> SUFFICES ASSUME ElkInit PROVE ElkIInv
  OBVIOUS
<1>1. /\ logged = 0 /\ log_buffer = <<>> /\ next = 1 /\ failed = <<>>
      /\ copies = [x \in Entries |-> 0] /\ lost = {} /\ timedOut = {}
      /\ phase = "idle" /\ socket = "none" /\ stored = {} /\ acked = {}
      /\ es_client \in BOOLEAN /\ logstash \in BOOLEAN
  BY DEF ElkInit
<1>2. BufferTypes
  BY <1>1 DEF BufferTypes
<1>3. CallTypes /\ DeliveryTypes /\ ResultTypes
  BY <1>1 DEF CallTypes, DeliveryTypes, ResultTypes
<1>4. Held = <<>>
  <2>1. <<>> \in Seq(1..0) /\ 0 \in Nat
    OBVIOUS
  <2> QED
    BY <1>1, <2>1, HeldIs, AfterStart
<1>5. FlushInv /\ FreshInv /\ HeldInOrder
  BY <1>1, <1>4 DEF FlushInv, FreshInv, HeldInOrder
<1>6. AcceptedIsAccounted /\ DuplicatesExplained
  BY <1>1 DEF AcceptedIsAccounted, DuplicatesExplained
<1> QED
  BY <1>2, <1>3, <1>5, <1>6, ElkTypeParts DEF ElkIInv

-----------------------------------------------------------------------------
(* The reporter implements the feed.                                       *)

LEMMA StepRefines == ElkIInv /\ [ElkNext]_elkVars => [Feed!Next]_(Feed!feedVars)
<1> SUFFICES ASSUME ElkIInv, [ElkNext]_elkVars
             PROVE  Feed!Next \/ UNCHANGED Feed!feedVars
  OBVIOUS
<1> USE DEF Feed!feedVars
<1>1. CASE LogTestMessage
  <2> DEFINE e == logged + 1
  <2>1. /\ e \in Entries /\ logged' = e /\ phase = "idle" /\ phase' = phase
        /\ Attempted(e)
        /\ Held' \in {Held, Append(Held, e)}
    BY <1>1, LogStep
  <2>2. Feed!Tried(e)
    BY <2>1 DEF Attempted, Feed!Tried
  <2>3. logged < MaxEntries
    BY <1>1 DEF LogTestMessage
  <2> HIDE DEF e
  <2>4. Feed!Accept
    <3>1. Feed!Tried(logged')
      BY <2>1, <2>2
    <3> QED
      BY <2>1, <2>3, <3>1 DEF Feed!Accept, e
  <2> QED
    BY <2>4 DEF Feed!Next
<1>2. CASE FlushEntry
  <2> DEFINE e == log_buffer[next]
             i == Len(failed) + 1
  <2>1. /\ e \in Entries /\ Flushing /\ phase' = phase /\ logged' = logged
        /\ Attempted(e) /\ i \in DOMAIN Held /\ Held[i] = e
        /\ Held' \in {Held, RemoveAt(Held, i)}
    BY <1>2, FlushStep
  <2> HIDE DEF e, i
  <2>2. Feed!Tried(Held[i])
    BY <2>1 DEF Attempted, Feed!Tried
  <2>3. Feed!Retry(i)
    <3>1. /\ ~(phase \in {"closed", "killed"})
          /\ (phase \in {"closed", "killed"})' = (phase \in {"closed", "killed"})
      BY <2>1 DEF Flushing
    <3>2. Feed!RemoveAt(Held, i) = RemoveAt(Held, i)
      BY DEF Feed!RemoveAt, RemoveAt
    <3>3. Held' \in {Held, Feed!RemoveAt(Held, i)}
      BY <2>1, <3>2
    <3> QED
      BY <2>1, <2>2, <3>1, <3>3 DEF Feed!Retry
  <2> QED
    BY <2>1, <2>3 DEF Feed!Next
<1>3. CASE \/ \E r \in Results : LogTestResult(r)
           \/ \E p \in {"flushing", "flushing_to_close"} : Flush(p)
           \/ FlushEnds \/ Close \/ PeerCloses \/ Kill \/ UNCHANGED elkVars
  <2>1. /\ Held' = Held /\ UNCHANGED <<logged, copies>>
        /\ \/ phase' \in {"closed", "killed"}
           \/ phase \notin {"closed", "killed"} /\ phase' \notin {"closed", "killed"}
    BY <1>3, QuietStep
  <2>2. CASE phase' \in {"closed", "killed"}
    BY <2>1, <2>2 DEF Feed!Next, Feed!End
  <2>3. CASE phase \notin {"closed", "killed"} /\ phase' \notin {"closed", "killed"}
    BY <2>1, <2>3
  <2> QED
    BY <2>1, <2>2, <2>3
<1> QED
  BY <1>1, <1>2, <1>3 DEF ElkNext

LEMMA InitRefines == ElkInit => Feed!Init
<1> SUFFICES ASSUME ElkInit PROVE Feed!Init
  OBVIOUS
<1>1. <<>> \in Seq(1..0) /\ 0 \in Nat
  OBVIOUS
<1>2. Held = <<>>
  BY <1>1, HeldIs, AfterStart DEF ElkInit
<1> QED
  BY <1>2 DEF ElkInit, Feed!Init, Feed!Entries, Entries

-----------------------------------------------------------------------------
(* The theorems.                                                           *)

(* Every variable keeps its type, nothing is left over between two         *)
(* flushes, nothing has become of a message before it is logged, and the   *)
(* properties below hold.  (ELKReporter)                                   *)
THEOREM ElkInvariant == ElkSpec => []ElkIInv
BY ElkInitHolds, ElkStepKeeps, PTL DEF ElkSpec

(* A message that was answered True is at a service, held, or was sent in  *)
(* vain on a connection that broke or on which a line was broken off.      *)
(* (log_test_message, flush_buffered_logs)                                 *)
THEOREM AccountedTheorem == ElkSpec => []AcceptedIsAccounted
<1>1. ElkIInv => AcceptedIsAccounted
  BY DEF ElkIInv
<1> QED
  BY ElkInvariant, <1>1, PTL

(* A message arrives twice, or is held although it arrived, only after a   *)
(* request to Elasticsearch that stored it and was not answered.           *)
(* (_index_log_entry, flush_buffered_logs)                                 *)
THEOREM DuplicatesTheorem == ElkSpec => []DuplicatesExplained
<1>1. ElkIInv => DuplicatesExplained
  BY DEF ElkIInv
<1> QED
  BY ElkInvariant, <1>1, PTL

(* What is held is in the order it was logged, each message once, also     *)
(* between two entries of a flush.  (log_buffer, failed_entries)           *)
THEOREM OrderTheorem == ElkSpec => []HeldInOrder
<1>1. ElkIInv => HeldInOrder
  BY DEF ElkIInv
<1> QED
  BY ElkInvariant, <1>1, PTL

(* The reporter implements the feed LogFeed: a message is taken and handed *)
(* over or kept, what is kept is tried again where it stands, and nothing  *)
(* else is ever handed over.  (log_test_message, flush_buffered_logs,      *)
(* close)                                                                  *)
THEOREM FeedTheorem == ElkSpec => ImplementsFeed
<1>1. ElkIInv /\ [ElkNext]_elkVars => [Feed!Next]_(Feed!feedVars)
  BY StepRefines
<1> QED
  BY <1>1, InitRefines, ElkInvariant, PTL DEF ElkSpec, ImplementsFeed, Feed!Spec

-----------------------------------------------------------------------------
USE PrometheusAssumption

-----------------------------------------------------------------------------
(* The writes of the operations.                                           *)

Refused == "uart_error_rate"

Labels == {"baud_rate"} \cup UNION {Declared[x] : x \in Metrics}

Writes == [metric : Metrics, labels : SUBSET Labels]

Taken == {w \in Writes : Fits(w) /\ w.metric # Refused}

(* A sequence of writes of which at most the last is refused, and that one *)
(* only by the error rate of the UART.                                     *)
Sound(op) ==
  /\ op \in Seq(Writes)
  /\ \A i \in DOMAIN op : Fits(op[i]) <=> op[i].metric # Refused
  /\ \A i \in DOMAIN op : op[i].metric = Refused => i = Len(op)

LEMMA WriteTaken ==
  ASSUME NEW x \in Metrics, x # Refused
  PROVE  Write(x, Declared[x]) \in Taken
<1>1. Declared[x] \subseteq Labels
  BY DEF Labels
<1>2. Write(x, Declared[x]) = [metric |-> x, labels |-> Declared[x]]
  BY DEF Write
<1>3. Write(x, Declared[x]) \in Writes
  BY <1>1, <1>2 DEF Writes
<1> QED
  BY <1>2, <1>3 DEF Taken, Fits

LEMMA DeclaredLabels ==
  /\ {"test_duration", "test_success", "test_failure", "boot_time",
      "boot_stage_duration", "network_throughput", "network_latency",
      "packet_loss", "uart_throughput", "uart_error_rate",
      "power_cycle_duration", "jtag_operation_duration", "memory_usage",
      "cpu_usage", "temperature"} = Metrics
  /\ Declared["test_duration"] = TestLabels
  /\ Declared["test_success"] = TestLabels
  /\ Declared["test_failure"] = TestLabels \cup {"failure_reason"}
  /\ Declared["boot_time"] = Build \cup {"boot_stage"}
  /\ Declared["boot_stage_duration"] = Build \cup {"boot_stage"}
  /\ Declared["network_throughput"] = Build \cup {"protocol", "direction"}
  /\ Declared["network_latency"] = Build \cup {"protocol"}
  /\ Declared["packet_loss"] = Build \cup {"test_duration"}
  /\ Declared["uart_throughput"] = Build \cup {"baud_rate"}
  /\ Declared["uart_error_rate"] = Build \cup {"error_type"}
  /\ Declared["power_cycle_duration"] = {"power_controller_type"}
  /\ Declared["jtag_operation_duration"] = {"operation_type", "cable_type"}
  /\ Declared["memory_usage"] = Build \cup {"memory_type"}
  /\ Declared["cpu_usage"] = Build \cup {"cpu_core"}
  /\ Declared["temperature"] = Build \cup {"sensor_location"}
BY DEF Metrics, Declared

(* What writes only measurements that are taken is sound.                  *)
LEMMA TakenIsSound ==
  ASSUME NEW op \in Seq(Taken)
  PROVE  Sound(op)
<1>1. \A i \in DOMAIN op : op[i] \in Taken
  BY ElementOfSeq, LenProperties
<1>2. op \in Seq(Writes)
  BY DEF Taken
<1> QED
  BY <1>1, <1>2 DEF Sound, Taken

(* Measurements that are taken, one after the other.                       *)
LEMMA BothTaken ==
  ASSUME NEW A, NEW B, A \subseteq Seq(Taken), B \subseteq Seq(Taken)
  PROVE  Both(A, B) \subseteq Seq(Taken)
<1> SUFFICES ASSUME NEW op \in Both(A, B)
             PROVE  op \in Seq(Taken)
  OBVIOUS
<1>1. PICK a \in A, b \in B : op = a \o b
  BY DEF Both
<1>2. a \in Seq(Taken) /\ b \in Seq(Taken)
  OBVIOUS
<1> QED
  BY <1>1, <1>2, ConcatProperties

LEMMA MeasuredTaken ==
  ASSUME NEW x \in Metrics, x # Refused
  PROVE  Measured(x, Declared[x]) \subseteq Seq(Taken)
<1>1. Write(x, Declared[x]) \in Taken
  BY WriteTaken
<1> DEFINE w == Write(x, Declared[x])
<1>2. Measured(x, Declared[x]) = {<<>>, <<w>>}
  BY DEF Measured
<1> HIDE DEF w
<1>3. <<w>> \in Seq(Taken) /\ <<>> \in Seq(Taken)
  BY <1>1 DEF w
<1> QED
  BY <1>2, <1>3

-----------------------------------------------------------------------------
(* The operations.                                                         *)

LEMMA NetworkSound ==
  ASSUME NEW op \in NetworkMetrics
  PROVE  Sound(op)
<1>1. NetworkMetrics =
        Both(Measured("network_throughput", Declared["network_throughput"]),
             Both(Measured("network_latency", Declared["network_latency"]),
                  Measured("packet_loss", Declared["packet_loss"])))
  BY DeclaredLabels, Zenon DEF NetworkMetrics
<1>2. /\ "network_throughput" \in Metrics /\ "network_latency" \in Metrics
      /\ "packet_loss" \in Metrics
  BY DeclaredLabels
<1>3. /\ Measured("network_throughput", Declared["network_throughput"])
           \subseteq Seq(Taken)
      /\ Measured("network_latency", Declared["network_latency"])
           \subseteq Seq(Taken)
      /\ Measured("packet_loss", Declared["packet_loss"]) \subseteq Seq(Taken)
  BY <1>2, MeasuredTaken DEF Refused
<1>4. NetworkMetrics \subseteq Seq(Taken)
  BY <1>1, <1>3, BothTaken
<1> QED
  BY <1>4, TakenIsSound

LEMMA HardwareSound ==
  ASSUME NEW op \in HardwareControlMetrics
  PROVE  Sound(op)
<1>1. HardwareControlMetrics =
        Both(Measured("power_cycle_duration", Declared["power_cycle_duration"]),
             Measured("jtag_operation_duration",
                      Declared["jtag_operation_duration"]))
  BY DeclaredLabels, Zenon DEF HardwareControlMetrics
<1>2. "power_cycle_duration" \in Metrics /\ "jtag_operation_duration" \in Metrics
  BY DeclaredLabels
<1>3. /\ Measured("power_cycle_duration", Declared["power_cycle_duration"])
           \subseteq Seq(Taken)
      /\ Measured("jtag_operation_duration", Declared["jtag_operation_duration"])
           \subseteq Seq(Taken)
  BY <1>2, MeasuredTaken DEF Refused
<1>4. HardwareControlMetrics \subseteq Seq(Taken)
  BY <1>1, <1>3, BothTaken
<1> QED
  BY <1>4, TakenIsSound

LEMMA SystemSound ==
  ASSUME NEW op \in SystemMetrics
  PROVE  Sound(op)
<1>1. SystemMetrics =
        Both(Measured("memory_usage", Declared["memory_usage"]),
             Both(Measured("cpu_usage", Declared["cpu_usage"]),
                  Measured("temperature", Declared["temperature"])))
  BY DeclaredLabels, Zenon DEF SystemMetrics
<1>2. /\ "memory_usage" \in Metrics /\ "cpu_usage" \in Metrics
      /\ "temperature" \in Metrics
  BY DeclaredLabels
<1>3. /\ Measured("memory_usage", Declared["memory_usage"]) \subseteq Seq(Taken)
      /\ Measured("cpu_usage", Declared["cpu_usage"]) \subseteq Seq(Taken)
      /\ Measured("temperature", Declared["temperature"]) \subseteq Seq(Taken)
  BY <1>2, MeasuredTaken DEF Refused
<1>4. SystemMetrics \subseteq Seq(Taken)
  BY <1>1, <1>3, BothTaken
<1> QED
  BY <1>4, TakenIsSound

LEMMA TestAndBootSound ==
  ASSUME NEW b \in BOOLEAN
  PROVE  Sound(TestExecution(b)) /\ Sound(BootMetrics(b))
<1>1. /\ {"test_duration", "test_success", "test_failure", "boot_time",
          "boot_stage_duration"} \subseteq Metrics \ {Refused}
      /\ Declared["boot_time"] = Build \cup {"boot_stage"}
      /\ Declared["boot_stage_duration"] = Build \cup {"boot_stage"}
  BY DeclaredLabels DEF Refused
<1> DEFINE d == Write("test_duration", TestLabels)
           s == Write("test_success", TestLabels)
           f == Write("test_failure", TestLabels \cup {"failure_reason"})
           t == Write("boot_time", Build \cup {"boot_stage"})
           g == Write("boot_stage_duration", Build \cup {"boot_stage"})
<1>2. d \in Taken /\ s \in Taken /\ f \in Taken /\ t \in Taken /\ g \in Taken
  <2>1. /\ Write("test_duration", Declared["test_duration"]) \in Taken
        /\ Write("test_success", Declared["test_success"]) \in Taken
        /\ Write("test_failure", Declared["test_failure"]) \in Taken
        /\ Write("boot_time", Declared["boot_time"]) \in Taken
        /\ Write("boot_stage_duration", Declared["boot_stage_duration"]) \in Taken
    BY <1>1, WriteTaken
  <2> QED
    BY <2>1, DeclaredLabels, Zenon
<1>3. /\ TestExecution(b) = <<d, IF b THEN s ELSE f>>
      /\ BootMetrics(b) = <<t>> \o IF b THEN <<g>> ELSE <<>>
  BY DEF TestExecution, BootMetrics
<1> HIDE DEF d, s, f, t, g
<1>4. TestExecution(b) \in Seq(Taken)
  BY <1>2, <1>3
<1>5. BootMetrics(b) \in Seq(Taken)
  <2>1. <<t>> \in Seq(Taken) /\ (IF b THEN <<g>> ELSE <<>>) \in Seq(Taken)
    BY <1>2
  <2> QED
    BY <1>3, <2>1, ConcatProperties
<1> QED
  BY <1>4, <1>5, TakenIsSound

(* record_uart_metrics: the error rate comes last, with a label too many.  *)
LEMMA UartSound ==
  ASSUME NEW op \in UartMetrics
  PROVE  Sound(op)
<1> DEFINE labels == Build \cup {"baud_rate"}
           e == Write(Refused, labels \cup {"error_type"})
<1>1. PICK a \in Measured("uart_throughput", labels),
           b \in {<<>>, <<e>>} : op = a \o b
  BY DEF UartMetrics, Both, Measured, Refused
<1>2. a \in Seq(Taken)
  <2>1. "uart_throughput" \in Metrics \ {Refused}
    BY DeclaredLabels DEF Refused
  <2>2. Measured("uart_throughput", Declared["uart_throughput"]) \subseteq Seq(Taken)
    BY <2>1, MeasuredTaken
  <2> QED
    BY <2>2, DeclaredLabels, Zenon
<1>3. CASE b = <<>>
  BY <1>1, <1>2, <1>3, ConcatEmptySeq, TakenIsSound
<1>4. CASE b = <<e>>
  <2>1. e.metric = Refused /\ e \in Writes /\ ~Fits(e)
    <3>1. Refused \in Metrics /\ Declared[Refused] = Build \cup {"error_type"}
      BY DeclaredLabels DEF Refused
    <3>2. labels \cup {"error_type"} \subseteq Labels
      BY <3>1 DEF Labels
    <3>3. labels \cup {"error_type"} # Build \cup {"error_type"}
      BY DEF Build
    <3> QED
      BY <3>1, <3>2, <3>3 DEF Write, Writes, Fits
  <2> HIDE DEF e
  <2>2. a \in Seq(Writes) /\ <<e>> \in Seq(Writes)
    BY <1>2, <2>1 DEF Taken
  <2>3. /\ op \in Seq(Writes) /\ Len(op) = Len(a) + 1
        /\ DOMAIN op = 1..(Len(a) + 1)
        /\ \A i \in 1..Len(a) : op[i] = a[i]
        /\ op[Len(a) + 1] = e
    <3>1. Len(<<e>>) = 1 /\ <<e>>[1] = e /\ Len(a) \in Nat
      BY <1>2
    <3>2. /\ op \in Seq(Writes) /\ Len(op) = Len(a) + 1
          /\ \A i \in 1..(Len(a) + 1) :
               op[i] = IF i <= Len(a) THEN a[i] ELSE <<e>>[i - Len(a)]
      BY <1>1, <1>4, <2>2, <3>1, ConcatProperties
    <3>3. DOMAIN op = 1..(Len(a) + 1)
      BY <3>2, LenProperties
    <3> QED
      BY <3>1, <3>2, <3>3
  <2>4. \A i \in 1..Len(a) : a[i] \in Taken
    BY <1>2, ElementOfSeq
  <2>5. \A i \in DOMAIN op : i \in 1..Len(a) \/ i = Len(a) + 1
    BY <1>2, <2>3
  <2> QED
    BY <2>1, <2>3, <2>4, <2>5 DEF Sound, Taken
<1> QED
  BY <1>1, <1>3, <1>4

LEMMA OperationsSound ==
  ASSUME NEW op \in Operations
  PROVE  Sound(op)
BY TestAndBootSound, NetworkSound, UartSound, HardwareSound, SystemSound
   DEF Operations

(* What an operation raises for, and what it has written before that.      *)
LEMMA DoneAndRaised ==
  ASSUME NEW op \in Operations
  PROVE  /\ Raises(op) \subseteq {Refused}
         /\ \A i \in Done(op) : op[i].metric # Refused
<1>1. Sound(op)
  BY OperationsSound
<1>2. DOMAIN op = 1..Len(op) /\ Len(op) \in Nat
  BY <1>1, LenProperties DEF Sound
<1>3. \A i \in Done(op) : op[i].metric # Refused
  <2> SUFFICES ASSUME NEW i \in Done(op)
               PROVE  op[i].metric # Refused
    OBVIOUS
  <2>1. i \in DOMAIN op /\ i \in 1..i
    BY <1>2 DEF Done
  <2>2. Fits(op[i])
    BY <2>1 DEF Done
  <2> QED
    BY <1>1, <2>1, <2>2 DEF Sound
<1>4. \A i \in DOMAIN op \ Done(op) : op[i].metric = Refused
  <2> SUFFICES ASSUME NEW i \in DOMAIN op, i \notin Done(op)
               PROVE  op[i].metric = Refused
    OBVIOUS
  <2>1. PICK j \in 1..i : ~Fits(op[j])
    BY DEF Done
  <2>2. j \in DOMAIN op /\ j <= i /\ i <= Len(op) /\ i \in Nat
    BY <1>2, <2>1
  <2>3. op[j].metric = Refused /\ j = Len(op)
    BY <1>1, <2>1, <2>2 DEF Sound
  <2> QED
    BY <1>2, <2>2, <2>3
<1>5. Raises(op) \subseteq {Refused}
  <2> SUFFICES ASSUME NEW i \in DOMAIN op \ Done(op)
               PROVE  op[i].metric = Refused
    BY Zenon DEF Raises
  <2> QED
    BY <1>4
<1> QED
  BY <1>3, <1>5

-----------------------------------------------------------------------------
(* Each operation keeps the invariant.                                     *)

LEMMA MetricsFacts ==
  /\ Refused \in Metrics
  /\ NoKey \in Keys
  /\ Nothing \in Contents
<1>1. Refused \in Metrics /\ Nothing \in Contents
  BY DeclaredLabels DEF Refused, Nothing, Contents
<1>2. NoKey \in [{} -> KeyValues] /\ {} \in SUBSET KeyLabels
  BY DEF NoKey
<1> QED
  BY <1>1, <1>2 DEF Keys

LEMMA SnapshotType ==
  ASSUME PromTypeOK, NEW i \in Instances
  PROVE  Snapshot(i) \in Contents
<1>1. \A x \in Metrics : registry[i][x] \in 0..MaxRecords
  BY DEF PromTypeOK
<1> QED
  BY <1>1 DEF Snapshot, Contents

LEMMA RecordKeeps ==
  ASSUME PromIInv, NEW i \in Instances, NEW op \in Operations, Record(i, op)
  PROVE  PromIInv'
<1> DEFINE written == {op[j].metric : j \in Done(op)}
           row == [x \in Metrics |-> registry[i][x] + IF x \in written
                                                     THEN 1 ELSE 0]
<1>1. /\ records < MaxRecords /\ records' = records + 1
      /\ registry' = [registry EXCEPT ![i] = row]
      /\ raised' = Raises(op)
      /\ gateway' = gateway /\ shown' = shown /\ sure' = sure
  BY DEF Record, gatewayVars
<1>2. Refused \notin written
  BY DoneAndRaised
<1> HIDE DEF written
<1>3. /\ registry \in [Instances -> [Metrics -> 0..MaxRecords]]
      /\ records \in Nat
      /\ \A j \in Instances, x \in Metrics : registry[j][x] <= records
      /\ \A j \in Instances : registry[j][Refused] = 0
  BY DEF PromIInv, PromTypeOK, RegistryInv, RecordsFit, Refused
<1>4. \A x \in Metrics : /\ row[x] \in Nat
                         /\ row[x] <= records'
                         /\ x \notin written => row[x] = registry[i][x]
  <2> SUFFICES ASSUME NEW x \in Metrics
               PROVE  /\ row[x] \in Nat
                      /\ row[x] <= records'
                      /\ x \notin written => row[x] = registry[i][x]
    OBVIOUS
  <2>1. registry[i][x] \in Nat /\ registry[i][x] <= records
    BY <1>3
  <2>2. row[x] = registry[i][x] + IF x \in written THEN 1 ELSE 0
    OBVIOUS
  <2> QED
    BY <1>1, <1>3, <2>1, <2>2
<1>5. records' \in 0..MaxRecords
  BY <1>1, <1>3
<1>6. row \in [Metrics -> 0..MaxRecords]
  BY <1>1, <1>4, <1>5
<1> HIDE DEF row
<1>7. \A j \in Instances : registry'[j] = IF j = i THEN row ELSE registry[j]
  BY <1>1, <1>3
<1>8. registry' \in [Instances -> [Metrics -> 0..MaxRecords]]
  BY <1>1, <1>3, <1>6
<1>9. raised' \subseteq {Refused}
  BY <1>1, DoneAndRaised
<1>10. PromTypeOK'
  <2>1. raised' \in SUBSET Metrics
    BY <1>9, MetricsFacts
  <2>2. /\ gateway' \in [Groups -> Contents]
        /\ shown' \in [Instances \X Keys -> Contents]
        /\ sure' \in SUBSET (Instances \X Keys)
    BY <1>1 DEF PromIInv, PromTypeOK
  <2> QED
    BY <1>5, <1>8, <2>1, <2>2 DEF PromTypeOK
<1>11. RegistryInv'
  <2> SUFFICES ASSUME NEW j \in Instances, NEW x \in Metrics
               PROVE  registry'[j][x] <= records'
    BY DEF RegistryInv
  <2>1. CASE j = i
    BY <1>4, <1>7, <2>1
  <2>2. CASE j # i
    <3>1. registry'[j][x] = registry[j][x]
      BY <1>7, <2>2
    <3>2. registry[j][x] \in Nat /\ registry[j][x] <= records
      BY <1>3
    <3> QED
      BY <1>1, <1>3, <3>1, <3>2
  <2> QED
    BY <2>1, <2>2
<1>12. RecordsFit'
  <2>1. \A j \in Instances : registry'[j][Refused] = 0
    BY <1>2, <1>3, <1>4, <1>7, MetricsFacts
  <2> QED
    BY <1>9, <2>1 DEF RecordsFit, Refused
<1>13. PushedStays'
  BY <1>1 DEF PromIInv, PushedStays
<1> QED
  BY <1>10, <1>11, <1>12, <1>13 DEF PromIInv

-----------------------------------------------------------------------------
(* The groups of the gateway.                                              *)

(* A grouping key has none of the reporter's own labels, so that the       *)
(* labels of a call tell whose it is and with which key it was made.       *)
LEMMA LabelsTellCaller ==
  ASSUME NEW i \in Instances, NEW j \in Instances,
         NEW k \in Keys, NEW l \in Keys,
         GatewayLabels(i, k) = GatewayLabels(j, l)
  PROVE  i = j /\ k = l
<1> DEFINE Own == {"job", "instance"}
<1>1. PICK D \in SUBSET KeyLabels : k \in [D -> KeyValues]
  BY DEF Keys
<1>2. PICK E \in SUBSET KeyLabels : l \in [E -> KeyValues]
  BY DEF Keys
<1>3. D \cap Own = {} /\ E \cap Own = {}
  OBVIOUS
<1>4. /\ DOMAIN GatewayLabels(i, k) = Own \cup D
      /\ GatewayLabels(i, k)["instance"] = i
      /\ \A x \in D : GatewayLabels(i, k)[x] = k[x]
  BY <1>1, <1>3 DEF GatewayLabels
<1>5. /\ DOMAIN GatewayLabels(j, l) = Own \cup E
      /\ GatewayLabels(j, l)["instance"] = j
      /\ \A x \in E : GatewayLabels(j, l)[x] = l[x]
  BY <1>2, <1>3 DEF GatewayLabels
<1>6. D = E
  <2>1. Own \cup D = Own \cup E
    BY <1>4, <1>5
  <2> QED
    BY <1>3, <2>1
<1>7. \A x \in D : k[x] = l[x]
  BY <1>4, <1>5, <1>6
<1> QED
  BY <1>1, <1>2, <1>4, <1>5, <1>6, <1>7

(* The group of a caller is a group, and that of no other caller.          *)
LEMMA GroupOf ==
  ASSUME NEW i \in Instances, NEW k \in Keys
  PROVE  /\ GatewayLabels(i, k) \in Groups
         /\ \A j \in Instances, l \in Keys :
              <<j, l>> # <<i, k>> => GatewayLabels(j, l) # GatewayLabels(i, k)
<1>1. GatewayLabels(i, k) \in Groups
  BY DEF Groups
<1> QED
  BY <1>1, LabelsTellCaller

(* A call that leaves the registries alone and brings a group and what it  *)
(* is owed to the same content, or leaves open what it is owed.            *)
LEMMA CallKeeps ==
  ASSUME PromIInv, UNCHANGED <<registry, records, raised>>,
         NEW i \in Instances, NEW k \in Keys, NEW group \in Contents,
         NEW owed \in Contents,
         gateway' \in {gateway, [gateway EXCEPT ![GatewayLabels(i, k)] = group]},
         shown' = [shown EXCEPT ![<<i, k>>] = owed],
         sure' \in SUBSET (Instances \X Keys),
         sure' \subseteq sure \cup {<<i, k>>},
         <<i, k>> \notin sure' \/ gateway'[GatewayLabels(i, k)] = owed
  PROVE  PromIInv'
<1> DEFINE g == GatewayLabels(i, k)
<1>1. /\ gateway \in [Groups -> Contents]
      /\ shown \in [Instances \X Keys -> Contents]
      /\ g \in Groups
  BY GroupOf DEF PromIInv, PromTypeOK
<1>2. /\ gateway' \in [Groups -> Contents]
      /\ \A h \in Groups : h # g => gateway'[h] = gateway[h]
  BY <1>1
<1>3. /\ shown' \in [Instances \X Keys -> Contents]
      /\ \A c \in Instances \X Keys :
           shown'[c] = IF c = <<i, k>> THEN owed ELSE shown[c]
  BY <1>1
<1>4. PromTypeOK' /\ RegistryInv' /\ RecordsFit'
  BY <1>2, <1>3 DEF PromIInv, PromTypeOK, RegistryInv, RecordsFit
<1>5. PushedStays'
  <2> SUFFICES ASSUME NEW j \in Instances, NEW l \in Keys, <<j, l>> \in sure'
               PROVE  gateway'[GatewayLabels(j, l)] = shown'[<<j, l>>]
    BY DEF PushedStays
  <2>1. CASE j = i /\ l = k
    BY <1>3, <2>1
  <2>2. CASE ~(j = i /\ l = k)
    <3>1. <<j, l>> \in sure /\ GatewayLabels(j, l) # g
      BY <2>2, LabelsTellCaller
    <3>2. GatewayLabels(j, l) \in Groups
      BY GroupOf
    <3>3. gateway[GatewayLabels(j, l)] = shown[<<j, l>>]
      BY <3>1 DEF PromIInv, PushedStays
    <3>4. gateway'[GatewayLabels(j, l)] = gateway[GatewayLabels(j, l)]
      BY <1>2, <3>1, <3>2
    <3>5. shown'[<<j, l>>] = shown[<<j, l>>]
      BY <1>3, <2>2
    <3> QED
      BY <3>3, <3>4, <3>5
  <2> QED
    BY <2>1, <2>2
<1> QED
  BY <1>4, <1>5 DEF PromIInv

LEMMA FailsKeeps ==
  ASSUME PromIInv, UNCHANGED <<registry, records, raised>>,
         NEW i \in Instances, NEW k \in Keys, NEW group \in Contents,
         Fails(i, k, group)
  PROVE  PromIInv'
<1>1. /\ gateway' \in {gateway, [gateway EXCEPT ![GatewayLabels(i, k)] = group]}
      /\ shown' = [shown EXCEPT ![<<i, k>>] = Nothing]
      /\ sure' = sure \ {<<i, k>>}
  BY DEF Fails
<1>2. sure' \in SUBSET (Instances \X Keys) /\ sure' \subseteq sure \cup {<<i, k>>}
  BY <1>1 DEF PromIInv, PromTypeOK
<1>3. <<i, k>> \notin sure'
  BY <1>1
<1> QED
  BY <1>1, <1>2, <1>3, MetricsFacts, CallKeeps

LEMMA ReplaceKeeps ==
  ASSUME PromIInv, NEW i \in Instances, NEW k \in Keys, NEW group \in Contents,
         Replace(i, k, group)
  PROVE  PromIInv'
<1>1. UNCHANGED <<registry, records, raised>>
  BY DEF Replace
<1>2. CASE Fails(i, k, group)
  BY <1>1, <1>2, FailsKeeps
<1>3. CASE /\ gateway' = [gateway EXCEPT ![GatewayLabels(i, k)] = group]
           /\ shown' = [shown EXCEPT ![<<i, k>>] = group]
           /\ sure' = sure \cup {<<i, k>>}
  <2>1. /\ sure' \in SUBSET (Instances \X Keys)
        /\ sure' \subseteq sure \cup {<<i, k>>}
    BY <1>3 DEF PromIInv, PromTypeOK
  <2>2. gateway'[GatewayLabels(i, k)] = group
    BY <1>3, GroupOf DEF PromIInv, PromTypeOK
  <2> QED
    BY <1>1, <1>3, <2>1, <2>2, CallKeeps
<1> QED
  BY <1>2, <1>3 DEF Replace

LEMMA PushCustomKeeps ==
  ASSUME PromIInv, NEW i \in Instances, NEW c \in Custom, PushCustom(i, c)
  PROVE  PromIInv'
<1> DEFINE g == GatewayLabels(i, NoKey)
           group == [gateway[g] EXCEPT ![c] = 1]
<1>1. /\ NoKey \in Keys /\ g \in Groups
      /\ gateway \in [Groups -> Contents]
      /\ shown \in [Instances \X Keys -> Contents]
      /\ sure \in SUBSET (Instances \X Keys)
  BY MetricsFacts, GroupOf DEF PromIInv, PromTypeOK
<1>2. \A x \in Contents : [x EXCEPT ![c] = 1] \in Contents
  BY DEF Contents
<1>3. group \in Contents
  BY <1>1, <1>2
<1>4. UNCHANGED <<registry, records, raised>>
  BY DEF PushCustom
<1>5. CASE Fails(i, NoKey, group)
  BY <1>1, <1>3, <1>4, <1>5, FailsKeeps
<1>6. CASE /\ gateway' = [gateway EXCEPT ![g] = group]
           /\ shown' = IF <<i, NoKey>> \in sure
                       THEN [shown EXCEPT ![<<i, NoKey>>] = [@ EXCEPT ![c] = 1]]
                       ELSE shown
           /\ sure' = sure
  <2> DEFINE owed == IF <<i, NoKey>> \in sure
                     THEN [shown[<<i, NoKey>>] EXCEPT ![c] = 1]
                     ELSE shown[<<i, NoKey>>]
  <2>1. shown[<<i, NoKey>>] \in Contents
    BY <1>1
  <2>2. owed \in Contents
    BY <1>2, <2>1
  <2>3. shown' = [shown EXCEPT ![<<i, NoKey>>] = owed]
    BY <1>1, <1>6
  <2>4. gateway'[g] = group
    BY <1>1, <1>6
  <2>5. ASSUME <<i, NoKey>> \in sure'
        PROVE  gateway'[g] = owed
    <3>1. gateway[g] = shown[<<i, NoKey>>]
      BY <1>1, <1>6, <2>5 DEF PromIInv, PushedStays
    <3> QED
      BY <1>6, <2>4, <2>5, <3>1
  <2> HIDE DEF owed, group
  <2>6. sure' \in SUBSET (Instances \X Keys)
        /\ sure' \subseteq sure \cup {<<i, NoKey>>}
    BY <1>1, <1>6
  <2> QED
    BY <1>1, <1>3, <1>4, <1>6, <2>2, <2>3, <2>5, <2>6, CallKeeps
<1> QED
  BY <1>5, <1>6 DEF PushCustom

LEMMA PromStepKeeps == PromIInv /\ [PromNext]_promVars => PromIInv'
<1> SUFFICES ASSUME PromIInv, [PromNext]_promVars
             PROVE  PromIInv'
  OBVIOUS
<1>1. CASE \E i \in Instances, op \in Operations : Record(i, op)
  BY <1>1, RecordKeeps
<1>2. ASSUME NEW i \in Instances, NEW k \in Keys, Push(i, k)
      PROVE  PromIInv'
  <2>1. Snapshot(i) \in Contents
    BY SnapshotType DEF PromIInv
  <2> QED
    BY <1>2, <2>1, ReplaceKeeps DEF Push
<1>3. ASSUME NEW i \in Instances, NEW c \in Custom, PushCustom(i, c)
      PROVE  PromIInv'
  BY <1>3, PushCustomKeeps
<1>4. ASSUME NEW i \in Instances, NEW k \in Keys, ClearMetrics(i, k)
      PROVE  PromIInv'
  BY <1>4, MetricsFacts, ReplaceKeeps DEF ClearMetrics
<1>5. CASE UNCHANGED promVars
  BY <1>5 DEF promVars, gatewayVars, PromIInv, PromTypeOK, RegistryInv,
              RecordsFit, PushedStays
<1> QED
  BY <1>1, <1>2, <1>3, <1>4, <1>5 DEF PromNext

LEMMA PromInitHolds == PromInit => PromIInv
<1> SUFFICES ASSUME PromInit PROVE PromIInv
  OBVIOUS
<1>1. PromTypeOK
  BY MetricsFacts DEF PromInit, PromTypeOK
<1>2. RegistryInv /\ RecordsFit
  BY MetricsFacts DEF PromInit, RegistryInv, RecordsFit, Refused
<1>3. PushedStays
  BY GroupOf DEF PromInit, PushedStays
<1> QED
  BY <1>1, <1>2, <1>3 DEF PromIInv

-----------------------------------------------------------------------------
(* The theorems.                                                           *)

(* Every variable keeps its type, no metric is written more often than     *)
(* there were records, and the properties below hold.                      *)
(* (PrometheusReporter)                                                    *)
THEOREM PrometheusInvariant == PromSpec => []PromIInv
BY PromInitHolds, PromStepKeeps, PTL DEF PromSpec

(* Of all the measurements only the error rate of the UART is refused by   *)
(* its metric, which therefore never has a value.  (record_uart_metrics,   *)
(* _initialize_standard_metrics)                                           *)
THEOREM RecordsFitTheorem == PromSpec => []RecordsFit
<1>1. PromIInv => RecordsFit
  BY DEF PromIInv
<1> QED
  BY PrometheusInvariant, <1>1, PTL

(* However many reporters push, add and clear with whatever keys, and      *)
(* whichever of their calls fail, the gateway shows under each reporter's  *)
(* labels and key what that reporter's own calls with that key brought     *)
(* there, unless the last one that matters failed.  (gateway_labels in     *)
(* push_metrics, clear_metrics and push_custom_metric)                     *)
THEOREM PushedStaysTheorem == PromSpec => []PushedStays
<1>1. PromIInv => PushedStays
  BY DEF PromIInv
<1> QED
  BY PrometheusInvariant, <1>1, PTL

-----------------------------------------------------------------------------
(* The session.                                                            *)

(* Whatever order a session calls its reporters in, each behaves as it     *)
(* would alone.  (execute_test_suite, cleanup)                             *)
THEOREM ReportersCompose == Spec => ElkSpec /\ PromSpec
<1>1. Init => ElkInit /\ PromInit
  BY DEF Init
<1>2. [Next]_<<elkVars, promVars>> => [ElkNext]_elkVars /\ [PromNext]_promVars
  BY DEF Next
<1> QED
  BY <1>1, <1>2, PTL DEF Spec, ElkSpec, PromSpec

(* ... so that a session keeps the invariants of both.                     *)
(* (elk_reporter.py, prometheus_reporter.py)                               *)
THEOREM ReportersInvariant == Spec => []IInv
<1>1. ElkIInv /\ PromIInv <=> IInv
  BY DEF IInv
<1> QED
  BY <1>1, ReportersCompose, ElkInvariant, PrometheusInvariant, PTL
=============================================================================
