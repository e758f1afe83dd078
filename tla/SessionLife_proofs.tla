------------------------- MODULE SessionLife_proofs -------------------------
(***************************************************************************)
(* Proofs about SessionLife, for any configurations, overlays, threads,    *)
(* runs and limit.                                                         *)
(*                                                                         *)
(* Line is the inductive invariant of the conversations: the sessions kept *)
(* stand in the order they were used in, each behind those it was served   *)
(* before, so one that was dropped has seen limit others served.           *)
(***************************************************************************)
EXTENDS SessionLife, FiniteSetTheorems, TLAPS

-----------------------------------------------------------------------------
(* The line of sessions.                                                   *)

\* No thread has two sessions, and the later ones were served since.
InLine(q, s) ==
  /\ q \in Seq(Threads) /\ Len(q) <= limit
  /\ \A i \in DOMAIN q : q[i] \in DOMAIN s
  /\ \A i, j \in DOMAIN q : i < j => q[i] # q[j] /\ q[j] \in s[q[i]]

\* One without a session has seen limit others served.
Outserved(q, s) ==
  \A t \in DOMAIN s : /\ IsFiniteSet(s[t])
                      /\ t \in Range(q) \/ Cardinality(s[t]) >= limit

Line == InLine(kept, since) /\ Outserved(kept, since)

LEMMA ConcatType ==
  ASSUME NEW S, NEW a \in Seq(S), NEW b \in Seq(S)
  PROVE  a \o b \in Seq(S) /\ Len(a \o b) = Len(a) + Len(b)
  OBVIOUS

LEMMA ConcatAt ==
  ASSUME NEW S, NEW a \in Seq(S), NEW b \in Seq(S), NEW j \in 1..(Len(a) + Len(b))
  PROVE  (a \o b)[j] = IF j <= Len(a) THEN a[j] ELSE b[j - Len(a)]
  OBVIOUS

LEMMA RemoveAtFacts ==
  ASSUME NEW S, NEW q \in Seq(S), NEW i \in DOMAIN q
  PROVE  LET r == RemoveAt(q, i)
         IN /\ r \in Seq(S) /\ Len(r) = Len(q) - 1
            /\ \A j \in DOMAIN r : r[j] = IF j < i THEN q[j] ELSE q[j + 1]
<1> DEFINE a == SubSeq(q, 1, i - 1)
           b == SubSeq(q, i + 1, Len(q))
<1>1. i \in 1..Len(q) /\ Len(q) \in Nat
  OBVIOUS
<1>2. /\ a \in Seq(S) /\ Len(a) = i - 1 /\ \A j \in 1..(i - 1) : a[j] = q[j]
  BY <1>1
<1>3. /\ b \in Seq(S) /\ Len(b) = Len(q) - i /\ \A j \in 1..(Len(q) - i) : b[j] = q[i + j]
  BY <1>1
<1> HIDE DEF a, b
<1> DEFINE c == a \o b
<1>4. Len(a) + Len(b) = Len(q) - 1
  BY <1>1, <1>2, <1>3
<1>5. c \in Seq(S) /\ Len(c) = Len(a) + Len(b)
  BY <1>2, <1>3, ConcatType
<1>6. \A j \in 1..(Len(a) + Len(b)) : c[j] = IF j <= Len(a) THEN a[j] ELSE b[j - Len(a)]
  BY <1>2, <1>3, ConcatAt
<1>7. RemoveAt(q, i) = c
  BY Zenon DEF RemoveAt, a, b
<1> HIDE DEF c
<1>8. /\ c \in Seq(S) /\ Len(c) = Len(q) - 1
      /\ \A j \in 1..(Len(q) - 1) : c[j] = IF j < i THEN a[j] ELSE b[j - (i - 1)]
  <2>1. c \in Seq(S) /\ Len(c) = Len(q) - 1
    BY <1>4, <1>5
  <2>2. ASSUME NEW j \in 1..(Len(q) - 1)
        PROVE  c[j] = IF j < i THEN a[j] ELSE b[j - (i - 1)]
    <3>1. c[j] = IF j <= i - 1 THEN a[j] ELSE b[j - (i - 1)]
      BY <1>2, <1>4, <1>6
    <3> QED
      BY <1>1, <3>1
  <2> QED
    BY <2>1, <2>2
<1>9. \A j \in 1..(Len(q) - 1) : c[j] = IF j < i THEN q[j] ELSE q[j + 1]
  <2> TAKE j \in 1..(Len(q) - 1)
  <2>1. CASE j < i
    <3>1. j \in 1..(i - 1)
      BY <2>1, <1>1
    <3> QED
      BY <2>1, <3>1, <1>2, <1>8, Zenon
  <2>2. CASE ~(j < i)
    <3>1. j - (i - 1) \in 1..(Len(q) - i) /\ i + (j - (i - 1)) = j + 1
      BY <2>2, <1>1
    <3> QED
      BY <2>2, <3>1, <1>3, <1>8
  <2> QED
    BY <2>1, <2>2
<1> QED
  BY <1>1, <1>8, <1>9, <1>7

\* What a request of t makes of those served since.
Serves(s, t) == [u \in DOMAIN s \cup {t} |-> IF u = t THEN {} ELSE s[u] \cup {t}]

\* A session leaves the line: t's, which is served anew or forgotten.
LEMMA LineWithout ==
  ASSUME NEW q, NEW s, InLine(q, s), NEW i \in DOMAIN q
  PROVE  /\ InLine(RemoveAt(q, i), s) /\ Len(RemoveAt(q, i)) = Len(q) - 1
         /\ \A j \in DOMAIN RemoveAt(q, i) : RemoveAt(q, i)[j] # q[i]
         /\ Range(q) \ {q[i]} = Range(RemoveAt(q, i))
<1> DEFINE r == RemoveAt(q, i)
<1>1. /\ q \in Seq(Threads) /\ i \in 1..Len(q) /\ Len(q) \in Nat /\ DOMAIN q = 1..Len(q)
  BY DEF InLine
<1>2. /\ r \in Seq(Threads) /\ Len(r) = Len(q) - 1
      /\ \A j \in DOMAIN r : r[j] = IF j < i THEN q[j] ELSE q[j + 1]
  BY <1>1, RemoveAtFacts
<1> HIDE DEF r
<1> DEFINE at(j) == IF j < i THEN j ELSE j + 1
<1>3. /\ DOMAIN r = 1..(Len(q) - 1)
      /\ \A j \in DOMAIN r : at(j) \in DOMAIN q /\ at(j) # i /\ r[j] = q[at(j)]
      /\ \A j, k \in DOMAIN r : j < k => at(j) < at(k)
  BY <1>1, <1>2
<1>4. \A j \in DOMAIN q \ {i} : \E k \in DOMAIN r : at(k) = j
  <2> TAKE j \in DOMAIN q \ {i}
  <2>1. CASE j < i
    BY <2>1, <1>1, <1>3
  <2>2. CASE ~(j < i)
    <3>1. j - 1 \in DOMAIN r /\ at(j - 1) = j
      BY <2>2, <1>1, <1>3
    <3> QED
      BY <3>1
  <2> QED
    BY <2>1, <2>2
<1> HIDE DEF at
<1>5. \A j \in DOMAIN q \ {i} : q[j] # q[i]
  BY <1>1 DEF InLine
<1>6. \A j \in DOMAIN r : r[j] # q[i]
  BY <1>3, <1>5
<1>7. Range(q) \ {q[i]} = Range(r)
  BY <1>3, <1>4, <1>5 DEF Range
<1>8. InLine(r, s)
  BY <1>1, <1>2, <1>3, SessionLifeAssumption DEF InLine
<1> QED
  BY <1>2, <1>6, <1>7, <1>8 DEF r

\* t, which has no session, gets one at the end of the line.
LEMMA LineWith ==
  ASSUME NEW q, NEW s, InLine(q, s), Len(q) < limit, NEW t \in Threads, t \notin Range(q)
  PROVE  /\ InLine(Append(q, t), Serves(s, t))
         /\ Range(Append(q, t)) = Range(q) \cup {t}
<1> DEFINE r == Append(q, t)
           z == Serves(s, t)
<1>1. q \in Seq(Threads) /\ Len(q) \in Nat /\ DOMAIN q = 1..Len(q)
  BY DEF InLine
<1>2. /\ r \in Seq(Threads) /\ Len(r) = Len(q) + 1 /\ DOMAIN r = 1..(Len(q) + 1)
      /\ r[Len(q) + 1] = t /\ \A i \in DOMAIN q : r[i] = q[i]
  BY <1>1
<1>3. /\ DOMAIN z = DOMAIN s \cup {t} /\ z[t] = {}
      /\ \A u \in DOMAIN s \ {t} : z[u] = s[u] \cup {t}
  BY Zenon DEF Serves
<1> HIDE DEF r, z
<1>4. \A i \in DOMAIN q : q[i] # t /\ q[i] \in DOMAIN s
  BY DEF Range, InLine
<1>5. \A i \in DOMAIN r : i \in DOMAIN q \/ i = Len(q) + 1
  BY <1>1, <1>2
<1>6. \A i \in DOMAIN r : r[i] \in DOMAIN z
  BY <1>2, <1>3, <1>4, <1>5
<1>7. ASSUME NEW i \in DOMAIN r, NEW j \in DOMAIN r, i < j
      PROVE  r[i] # r[j] /\ r[j] \in z[r[i]]
  <2>1. i \in DOMAIN q /\ r[i] = q[i] /\ z[r[i]] = s[q[i]] \cup {t}
    BY <1>1, <1>2, <1>3, <1>4, <1>7
  <2>2. CASE j \in DOMAIN q
    BY <2>1, <2>2, <1>2, <1>7 DEF InLine
  <2>3. CASE j = Len(q) + 1
    BY <2>1, <2>3, <1>2, <1>4
  <2> QED
    BY <2>2, <2>3, <1>5
<1>8. InLine(r, z)
  BY <1>1, <1>2, <1>6, <1>7, SessionLifeAssumption DEF InLine
<1>9. Range(r) = Range(q) \cup {t}
  <2>1. Len(q) + 1 \in DOMAIN r /\ DOMAIN q \subseteq DOMAIN r
    BY <1>1, <1>2
  <2> QED
    BY <2>1, <1>2, <1>5 DEF Range
<1> QED
  BY <1>8, <1>9 DEF r, z

\* Serving t lets every other thread see no fewer.
LEMMA ServesMore ==
  ASSUME NEW s, NEW t, NEW u \in DOMAIN s \ {t}, IsFiniteSet(s[u])
  PROVE  /\ IsFiniteSet(Serves(s, t)[u])
         /\ Cardinality(s[u]) >= limit => Cardinality(Serves(s, t)[u]) >= limit
<1>1. Serves(s, t)[u] = s[u] \cup {t}
  BY Zenon DEF Serves
<1>2. /\ IsFiniteSet(s[u] \cup {t}) /\ Cardinality(s[u]) \in Nat
      /\ Cardinality(s[u] \cup {t}) >= Cardinality(s[u])
  BY FS_AddElement, FS_CardinalityType
<1>3. IsFiniteSet(s[u] \cup {t}) => Cardinality(s[u] \cup {t}) \in Nat
  BY FS_CardinalityType
<1> QED
  BY <1>1, <1>2, <1>3, SessionLifeAssumption

\* The first of a full line has seen the rest of it served, and now t.
LEMMA FirstOutserved ==
  ASSUME NEW q, NEW s, InLine(q, s), Len(q) = limit, NEW t, t \notin Range(q),
         IsFiniteSet(s[q[1]])
  PROVE  Cardinality(s[q[1]] \cup {t}) >= limit
<1> DEFINE f == [i \in 1..limit |-> IF i = limit THEN t ELSE q[i + 1]]
           T == s[q[1]] \cup {t}
<1>1. q \in Seq(Threads) /\ limit \in Nat /\ limit >= 1 /\ DOMAIN q = 1..limit
  BY SessionLifeAssumption DEF InLine
<1>2. \A i \in 1..limit : i # limit => i + 1 \in DOMAIN q /\ f[i] = q[i + 1]
  BY <1>1
<1>3. f[limit] = t
  BY <1>1
<1>4. DOMAIN f = 1..limit /\ f = [i \in 1..limit |-> f[i]]
  OBVIOUS
<1> HIDE DEF f
<1>5. ASSUME NEW i \in 1..limit PROVE f[i] \in T
  <2>1. CASE i = limit
    BY <2>1, <1>3
  <2>2. CASE i # limit
    <3>1. 1 \in DOMAIN q /\ i + 1 \in DOMAIN q /\ 1 < i + 1 /\ f[i] = q[i + 1]
      BY <2>2, <1>1, <1>2
    <3> QED
      BY <3>1 DEF InLine
  <2> QED
    BY <2>1, <2>2
<1>6. \A i \in DOMAIN q : q[i] # t
  BY DEF Range
<1>7. ASSUME NEW i \in 1..limit, NEW j \in 1..limit, i < j PROVE f[i] # f[j]
  <2>1. i # limit /\ i + 1 \in DOMAIN q /\ f[i] = q[i + 1]
    BY <1>1, <1>2, <1>7
  <2>2. CASE j = limit
    BY <2>1, <2>2, <1>3, <1>6
  <2>3. CASE j # limit
    <3>1. j + 1 \in DOMAIN q /\ f[j] = q[j + 1] /\ i + 1 < j + 1
      BY <2>3, <1>1, <1>2, <1>7
    <3> QED
      BY <2>1, <3>1 DEF InLine
  <2> QED
    BY <2>2, <2>3
<1>8. f \in Injection(1..limit, T)
  <2>1. \A i, j \in 1..limit : f[i] = f[j] => i = j
    BY <1>1, <1>7
  <2>2. f \in [1..limit -> T]
    BY <1>4, <1>5, Zenon
  <2> QED
    BY <2>1, <2>2, Zenon DEF Injection, IsInjective
<1>9. IsFiniteSet(T)
  BY FS_AddElement
<1>10. Cardinality(1..limit) <= Cardinality(T) /\ Cardinality(1..limit) = limit
  BY <1>1, <1>8, <1>9, FS_Injection, FS_Interval
<1> QED
  BY <1>10, <1>9, <1>1, FS_CardinalityType

\* Every session but one's is as it was, and t's is at the end of a line with room.
LEMMA EndOfLine ==
  ASSUME NEW q, NEW s, InLine(q, s), Len(q) < limit, NEW t \in Threads, t \notin Range(q),
         \A u \in DOMAIN s \ {t} :
            /\ IsFiniteSet(s[u])
            /\ u \in Range(q) \/ Cardinality(s[u]) >= limit \/ Cardinality(s[u] \cup {t}) >= limit
  PROVE  InLine(Append(q, t), Serves(s, t)) /\ Outserved(Append(q, t), Serves(s, t))
<1> DEFINE r == Append(q, t)
           z == Serves(s, t)
<1>1. InLine(r, z) /\ Range(r) = Range(q) \cup {t}
  BY LineWith
<1>2. DOMAIN z = DOMAIN s \cup {t} /\ z[t] = {}
  BY Zenon DEF Serves
<1> HIDE DEF r
<1>3. ASSUME NEW u \in DOMAIN z
      PROVE  IsFiniteSet(z[u]) /\ (u \in Range(r) \/ Cardinality(z[u]) >= limit)
  <2>1. CASE u = t
    BY <2>1, <1>1, <1>2, FS_EmptySet
  <2>2. CASE u # t
    <3>1. u \in DOMAIN s \ {t} /\ z[u] = s[u] \cup {t}
      BY <2>2, <1>2, Zenon DEF Serves
    <3>2. IsFiniteSet(s[u])
      BY <3>1
    <3>3. IsFiniteSet(z[u]) /\ (Cardinality(s[u]) >= limit => Cardinality(z[u]) >= limit)
      BY <3>1, <3>2, ServesMore
    <3> QED
      BY <3>1, <3>3, <1>1
  <2> QED
    BY <2>1, <2>2
<1>4. Outserved(r, z)
  BY <1>3 DEF Outserved
<1> QED
  BY <1>1, <1>4 DEF r

\* The oldest leaves as it is taken out of its place.
LEMMA TailLeaves ==
  ASSUME NEW q \in Seq(Threads), q # <<>>
  PROVE  Tail(q) = RemoveAt(q, 1) /\ 1 \in DOMAIN q
<1>1. 1 \in DOMAIN q /\ Len(q) \in Nat
  OBVIOUS
<1>2. /\ RemoveAt(q, 1) \in Seq(Threads) /\ Len(RemoveAt(q, 1)) = Len(q) - 1
      /\ \A j \in DOMAIN RemoveAt(q, 1) : RemoveAt(q, 1)[j] = IF j < 1 THEN q[j] ELSE q[j + 1]
  BY <1>1, RemoveAtFacts
<1>3. Tail(q) \in Seq(Threads) /\ Len(Tail(q)) = Len(q) - 1
      /\ \A j \in 1..(Len(q) - 1) : Tail(q)[j] = q[j + 1]
  BY <1>1
<1> QED
  BY <1>1, <1>2, <1>3

-----------------------------------------------------------------------------
(* The line is kept.                                                       *)

LEMMA LineWarm ==
  ASSUME Line, NEW t \in Threads, Warm(t)
  PROVE  Line'
<1>1. PICK i \in DOMAIN kept : kept[i] = t /\ kept' = Append(RemoveAt(kept, i), t)
  BY Zenon DEF Warm
<1>2. since' = Serves(since, t)
  BY Zenon DEF Warm, ServedBy, Serves
<1> DEFINE r == RemoveAt(kept, i)
<1>3. InLine(kept, since) /\ Outserved(kept, since)
  BY DEF Line
<1>4. /\ InLine(r, since) /\ Len(r) = Len(kept) - 1 /\ \A j \in DOMAIN r : r[j] # t
      /\ Range(kept) \ {t} = Range(r)
  BY <1>1, <1>3, LineWithout
<1> HIDE DEF r
<1>5. Len(kept) \in Nat /\ Len(kept) <= limit
  BY <1>3 DEF InLine
<1>6. Len(r) < limit /\ t \notin Range(r)
  BY <1>4, <1>5, SessionLifeAssumption DEF Range
<1>7. \A u \in DOMAIN since \ {t} :
        IsFiniteSet(since[u]) /\ (u \in Range(r) \/ Cardinality(since[u]) >= limit)
  BY <1>3, <1>4 DEF Outserved
<1>8. InLine(Append(r, t), Serves(since, t)) /\ Outserved(Append(r, t), Serves(since, t))
  BY <1>4, <1>6, <1>7, EndOfLine
<1> QED
  BY <1>1, <1>2, <1>8 DEF Line, r

LEMMA LineCold ==
  ASSUME Line, NEW t \in Threads, Cold(t)
  PROVE  Line'
<1>1. /\ t \notin Range(kept)
      /\ kept' = IF Len(kept) < limit THEN Append(kept, t) ELSE Append(Tail(kept), t)
  BY Zenon DEF Cold
<1>2. since' = Serves(since, t)
  BY Zenon DEF Cold, ServedBy, Serves
<1>3. InLine(kept, since) /\ Outserved(kept, since)
  BY DEF Line
<1>4. kept \in Seq(Threads) /\ Len(kept) \in Nat /\ Len(kept) <= limit
  BY <1>3 DEF InLine
<1>5. CASE Len(kept) < limit
  <2>1. \A u \in DOMAIN since \ {t} :
          IsFiniteSet(since[u]) /\ (u \in Range(kept) \/ Cardinality(since[u]) >= limit)
    BY <1>3 DEF Outserved
  <2>2. InLine(Append(kept, t), Serves(since, t)) /\ Outserved(Append(kept, t), Serves(since, t))
    BY <2>1, <1>1, <1>3, <1>5, EndOfLine
  <2> QED
    BY <2>2, <1>1, <1>2, <1>5 DEF Line
<1>6. CASE ~(Len(kept) < limit)
  <2>1. Len(kept) = limit /\ kept # <<>>
    BY <1>4, <1>6, SessionLifeAssumption
  <2>2. Tail(kept) = RemoveAt(kept, 1) /\ 1 \in DOMAIN kept
    BY <2>1, <1>4, TailLeaves
  <2> DEFINE r == RemoveAt(kept, 1)
  <2>3. /\ InLine(r, since) /\ Len(r) = Len(kept) - 1
        /\ Range(kept) \ {kept[1]} = Range(r)
    BY <2>2, <1>3, LineWithout
  <2> HIDE DEF r
  <2>4. Len(r) < limit /\ t \notin Range(r)
    BY <2>1, <2>3, <1>1, <1>4, SessionLifeAssumption
  <2>5. IsFiniteSet(since[kept[1]])
    BY <2>2, <1>3 DEF InLine, Outserved
  <2>6. Cardinality(since[kept[1]] \cup {t}) >= limit
    BY <2>1, <2>5, <1>1, <1>3, FirstOutserved
  <2>7. \A u \in DOMAIN since \ {t} :
          /\ IsFiniteSet(since[u])
          /\ \/ u \in Range(r) \/ Cardinality(since[u]) >= limit
             \/ Cardinality(since[u] \cup {t}) >= limit
    BY <2>3, <2>6, <1>3 DEF Outserved
  <2>8. InLine(Append(r, t), Serves(since, t)) /\ Outserved(Append(r, t), Serves(since, t))
    BY <2>3, <2>4, <2>7, EndOfLine
  <2> QED
    BY <2>2, <2>8, <1>1, <1>2, <1>6 DEF Line, r
<1> QED
  BY <1>5, <1>6

LEMMA LineForget ==
  ASSUME Line, NEW t \in Threads, forget(t)
  PROVE  Line'
<1>1. PICK i \in DOMAIN kept : kept[i] = t /\ kept' = RemoveAt(kept, i)
  BY Zenon DEF forget
<1>2. since' = [u \in DOMAIN since \ {t} |-> since[u]]
  BY Zenon DEF forget
<1>3. InLine(kept, since) /\ Outserved(kept, since)
  BY DEF Line
<1>4. /\ InLine(kept', since) /\ \A j \in DOMAIN kept' : kept'[j] # t
      /\ Range(kept) \ {t} = Range(kept')
  BY <1>1, <1>3, LineWithout
<1>5. DOMAIN since' = DOMAIN since \ {t} /\ \A u \in DOMAIN since' : since'[u] = since[u]
  BY <1>2
<1>6. InLine(kept', since')
  BY <1>4, <1>5 DEF InLine
<1>7. Outserved(kept', since')
  BY <1>3, <1>4, <1>5 DEF Outserved
<1> QED
  BY <1>6, <1>7 DEF Line

LEMMA NobodyInLine == Line /\ kept' = <<>> /\ since' = <<>> => Line'
<1>1. InLine(<<>>, <<>>)
  BY SessionLifeAssumption DEF InLine
<1>2. Outserved(<<>>, <<>>)
  BY DEF Outserved
<1> QED
  BY <1>1, <1>2 DEF Line

LEMMA LineInit == Init => Line
<1>1. InLine(<<>>, <<>>) /\ Outserved(<<>>, <<>>)
  BY SessionLifeAssumption DEF InLine, Outserved
<1> QED
  BY <1>1 DEF Init, Line

LEMMA LineNext == Line /\ [Next]_vars => Line'
<1> SUFFICES ASSUME Line, [Next]_vars PROVE Line'
  OBVIOUS
<1> USE DEF Line
<1>1. ASSUME UNCHANGED <<kept, since>> PROVE Line'
  BY <1>1
<1> HIDE DEF Line
<1>2. CASE Load \/ Resolve \/ BootServers \/ ServerThread \/ BuildStatic \/ ServeRuns \/ StopServers
  BY <1>1, <1>2, Zenon DEF Load, Resolve, BootServers, ServerThread, BuildStatic, ServeRuns,
     StopServers
<1>3. ASSUME NEW t \in Threads, Warm(t) \/ Cold(t) \/ forget(t) PROVE Line'
  BY <1>3, LineWarm, LineCold, LineForget
<1>4. ASSUME NEW r \in Runs, Submit(r) \/ aclose(r) \/ Lose(r) \/ Collect(r) PROVE Line'
  BY <1>1, <1>4, Zenon DEF Submit, aclose, Lose, Collect
<1>5. CASE Shutdown
  BY <1>5, NobodyInLine, Zenon DEF Shutdown
<1>6. CASE UNCHANGED vars
  BY <1>1, <1>6, Zenon DEF vars
<1> QED
  BY <1>2, <1>3, <1>4, <1>5, <1>6, Zenon DEF Next

\* A conversation finds its session again as long as fewer than limit others were
\* served since, and no more than limit are kept, whatever is forgotten in between
\* (_ConversationSessions, agui.py 801-838).
THEOREM ResumesWarm == Spec => []WarmResume
<1>1. Line => WarmResume
  <2> SUFFICES ASSUME Line,
                      NEW t \in DOMAIN since, Cardinality(since[t]) < limit
               PROVE  t \in Range(kept)
    BY Zenon DEF WarmResume, Line, InLine
  <2>1. IsFiniteSet(since[t]) /\ (t \in Range(kept) \/ Cardinality(since[t]) >= limit)
    BY DEF Line, Outserved
  <2> QED
    BY <2>1, FS_CardinalityType, SessionLifeAssumption
<1> QED
  BY <1>1, LineInit, LineNext, PTL DEF Spec

-----------------------------------------------------------------------------
(* What a run's configuration may reach.                                   *)

\* A validated configuration is its raw one with every reference in it defined.
LEMMA ValidatedFacts ==
  ASSUME NEW raw, validate_raw_config(raw) # None
  PROVE  /\ validate_raw_config(raw) = Complete(raw)
         /\ validate_references(Complete(raw))
BY Zenon DEF validate_raw_config

LEMMA CompleteFacts ==
  ASSUME NEW raw
  PROVE  /\ Complete(raw).mcp_clients = Section(raw, "mcp_clients")
         /\ Complete(raw).mcp_servers = Section(raw, "mcp_servers")
BY DEF Complete

\* The clients agents use are declared, and so are the servers clients name.
LEMMA ReferencesDefined ==
  ASSUME NEW c, validate_references(c)
  PROVE  /\ Used(c) \subseteq DOMAIN c.mcp_clients
         /\ \A d \in Range(c.mcp_clients) : d.server = None \/ d.server \in DOMAIN c.mcp_servers
<1>1. \A d \in Range(c.agents) : d.mcp \subseteq DOMAIN c.mcp_clients
  BY Zenon DEF validate_references
<1>2. \A d \in Range(c.mcp_clients) : d.server = None \/ d.server \in DOMAIN c["mcp_servers"]
  BY Zenon DEF validate_references
<1>3. Used(c) \subseteq DOMAIN c.mcp_clients
  BY <1>1, Zenon DEF Used
<1> QED
  BY <1>2, <1>3

\* Every client of an overlaid configuration is the base's or was allowed.
LEMMA OverlaidClients ==
  ASSUME NEW raw, NEW overlay, NEW allowed,
         merge_session_overlay(raw, overlay, allowed) # None
  PROVE  LET c == Section(merge_session_overlay(raw, overlay, allowed), "mcp_clients")
         IN \A n \in DOMAIN c : \/ c[n] \in Range(Section(raw, "mcp_clients"))
                                \/ check_overlay_client(c[n], allowed)
<1> DEFINE k == "mcp_clients"
           layer == [key \in DOMAIN overlay |->
                       IF key \in OverlayUnionKeys THEN Over(overlay[key], Section(raw, key))
                       ELSE overlay[key]]
           merged == merge_session_overlay(raw, overlay, allowed)
<1>1. /\ \A d \in Range(Section(overlay, k)) : check_overlay_client(d, allowed)
      /\ merged = Over(layer, raw)
  BY Zenon DEF merge_session_overlay
<1>2. DOMAIN layer = DOMAIN overlay
  OBVIOUS
<1>3. k \in DOMAIN overlay => layer[k] = Over(overlay[k], Section(raw, k))
  BY DEF OverlayUnionKeys
<1> HIDE DEF layer, merged
<1>6. /\ DOMAIN merged = DOMAIN overlay \cup DOMAIN raw
      /\ \A x \in DOMAIN overlay : merged[x] = layer[x]
      /\ \A x \in DOMAIN raw \ DOMAIN overlay : merged[x] = raw[x]
  BY <1>1, <1>2, Zenon DEF Over
<1>4. CASE k \in DOMAIN overlay
  <2> DEFINE c == Over(overlay[k], Section(raw, k))
  <2>1. Section(overlay, k) = overlay[k]
    BY <1>4, Zenon DEF Section
  <2>2. k \in DOMAIN merged /\ merged[k] = c
    BY <1>3, <1>4, <1>6
  <2>3. Section(merged, k) = c
    BY <2>2, Zenon DEF Section
  <2>4. ASSUME NEW n \in DOMAIN c
        PROVE  c[n] \in Range(Section(raw, k)) \/ check_overlay_client(c[n], allowed)
    <3>1. n \in DOMAIN overlay[k] \/ n \in DOMAIN Section(raw, k) \ DOMAIN overlay[k]
      BY Zenon DEF Over
    <3>2. CASE n \in DOMAIN overlay[k]
      <4>1. c[n] = overlay[k][n]
        BY <3>2, Zenon DEF Over
      <4>2. c[n] \in Range(Section(overlay, k))
        BY <3>2, <4>1, <2>1, Zenon DEF Range
      <4> QED
        BY <4>2, <1>1, Zenon
    <3>3. CASE n \in DOMAIN Section(raw, k) \ DOMAIN overlay[k]
      <4>1. c[n] = Section(raw, k)[n]
        BY <3>3, Zenon DEF Over
      <4> QED
        BY <3>3, <4>1, Zenon DEF Range
    <3> QED
      BY <3>1, <3>2, <3>3
  <2> HIDE DEF c
  <2> QED
    BY <2>3, <2>4, Zenon DEF merged
<1>5. CASE k \notin DOMAIN overlay
  <2>1. Section(merged, k) = Section(raw, k)
    <3>1. CASE k \in DOMAIN raw
      <4>1. k \in DOMAIN merged /\ merged[k] = raw[k]
        BY <3>1, <1>5, <1>6
      <4> QED
        BY <3>1, <4>1, Zenon DEF Section
    <3>2. CASE k \notin DOMAIN raw
      <4>1. k \notin DOMAIN merged
        BY <3>2, <1>5, <1>6
      <4> QED
        BY <3>2, <4>1, Zenon DEF Section
    <3> QED
      BY <3>1, <3>2
  <2> QED
    BY <2>1, Zenon DEF Range, merged
<1> QED
  BY <1>4, <1>5

\* The configuration of a run, if it has one, refers to what it declares and reaches
\* what the base does or a host the service allows.
LEMMA RunConfiguration ==
  ASSUME NEW raw, NEW overlay, NEW allowed,
         load_session_config(raw, overlay, allowed) # None
  PROVE  LET c == load_session_config(raw, overlay, allowed)
         IN /\ validate_references(c)
            /\ \A n \in DOMAIN c.mcp_clients :
                 \/ c.mcp_clients[n] \in Range(Section(raw, "mcp_clients"))
                 \/ check_overlay_client(c.mcp_clients[n], allowed)
<1> DEFINE c == load_session_config(raw, overlay, allowed)
<1>1. CASE overlay = None
  <2>1. c = validate_raw_config(raw)
    BY <1>1, Zenon DEF load_session_config
  <2>2. c = Complete(raw) /\ validate_references(c)
    BY <2>1, ValidatedFacts, Zenon
  <2>3. c.mcp_clients = Section(raw, "mcp_clients")
    BY <2>2, CompleteFacts
  <2> QED
    BY <2>2, <2>3, Zenon DEF Range
<1>2. CASE overlay # None
  <2> DEFINE read == read_source(overlay)
             merged == merge_session_overlay(raw, read, allowed)
  <2>1. c = IF read = None THEN None ELSE Validated(merged)
    BY <1>2, Zenon DEF load_session_config
  <2>2. merged # None /\ c = validate_raw_config(merged)
    BY <2>1, Zenon DEF Validated
  <2>3. c = Complete(merged) /\ validate_references(c)
    BY <2>2, ValidatedFacts, Zenon
  <2>4. c.mcp_clients = Section(merged, "mcp_clients")
    BY <2>3, CompleteFacts
  <2>5. LET s == Section(merged, "mcp_clients")
        IN \A n \in DOMAIN s : \/ s[n] \in Range(Section(raw, "mcp_clients"))
                               \/ check_overlay_client(s[n], allowed)
    BY <2>2, OverlaidClients, Zenon
  <2> QED
    BY <2>3, <2>4, <2>5, Zenon
<1> QED
  BY <1>1, <1>2

-----------------------------------------------------------------------------
(* Who holds a client session.                                             *)

\* The process, its configuration and its lifecycle go through their states together.
Coherent ==
  /\ app \in {"cold", "loaded", "resolved", "serving", "stopped", "refused"}
  /\ app = "cold" => config = None
  /\ app \in {"loaded", "resolved", "serving", "stopped"} => config # None
  /\ config # None => config = Complete(base) /\ validate_references(config)
  /\ app \in {"cold", "loaded"} => phase = "cold"
  /\ phase = "closing" <=> app = "stopped"
  /\ app = "serving" => phase = "started"
  /\ app \in {"resolved", "serving", "stopped"} => DOMAIN thread = DOMAIN config.mcp_servers

\* A thread started runs or has failed until the lifecycle stops it.
Served ==
  /\ phase \in {"cold", "waiting", "started", "closing"}
  /\ phase = "cold" => \A s \in DOMAIN thread : thread[s] = "none"
  /\ phase \in {"waiting", "started"} =>
       \A s \in DOMAIN thread : thread[s] \in {"starting", "up", "failed"}
  /\ phase = "started" => ready = DOMAIN thread

\* What a client session held by a run may be to.
Reachable(d) ==
  \/ d \in {Connection(e) : e \in Range(config.mcp_clients)}
  \/ d.command = None /\ (d.url = None \/ given.allowed = None \/ d.url.host \in given.allowed)

\* Nobody holds one before he is built nor after he has ended, and each is to what he
\* may reach, on a server of the process's.
Held ==
  /\ DOMAIN open = Runs \cup {Boot} /\ DOMAIN runs = Runs
  /\ \A r \in Runs : DOMAIN runs[r] = {"phase", "source", "config"}
  /\ app \notin {"serving", "refused"} => open[Boot] = {}
  /\ open[Boot] # {} => given.way # "perRun"
  /\ app = "refused" /\ phase # "started" => open[Boot] = {}
  /\ \A r \in Runs :
       /\ runs[r].phase \in {"built", "lost"} => app \in {"serving", "stopped"}
       /\ runs[r].phase = "built" => app = "serving"
       /\ open[r] # {} => runs[r].phase \in {"built", "lost"}
       /\ \A d \in open[r] : Reachable(d)
  /\ \A o \in Runs \cup {Boot} : \A d \in open[o] : d.server = None \/ d.server \in DOMAIN thread

Owned == Coherent /\ Served /\ Held

LEMMA OwnedOwns == Owned => ConnectionsOwned
<1> SUFFICES ASSUME Owned PROVE ConnectionsOwned
  OBVIOUS
<1> USE DEF Owned
<1>1. open[Boot] # {} => given.way # "perRun" /\ app \in {"serving", "refused"}
  BY Zenon DEF Held
<1>2. \A r \in Runs : open[r] # {} => runs[r].phase \in {"built", "lost"}
  BY Zenon DEF Held
<1>3. \A r \in Runs : \A d \in open[r] :
        \/ d \in {Connection(e) : e \in Range(config.mcp_clients)}
        \/ d.command = None /\ (d.url = None \/ given.allowed = None \/ d.url.host \in given.allowed)
  BY Zenon DEF Held, Reachable
<1>4. ASSUME NEW o \in Runs \cup {Boot}, NEW d \in open[o], d.server # None,
             thread[d.server] \in {"none", "abandoned"}
      PROVE  o # Boot /\ runs[o].phase = "lost"
  <2>1. d.server \in DOMAIN thread
    BY <1>4, Zenon DEF Held
  <2>2. phase # "started"
    BY <2>1, <1>4 DEF Served
  <2>3. app # "serving"
    BY <2>2 DEF Coherent
  <2>4. o # Boot
    BY <2>2, <2>3, <1>4 DEF Held
  <2> QED
    BY <2>3, <2>4, <1>4 DEF Held
<1>5. \A s \in DOMAIN thread : thread[s] = "abandoned" => phase = "closing"
  BY DEF Served
<1>6. app = "serving" => phase = "started" /\ ready = DOMAIN thread
  BY DEF Coherent, Served
<1> QED
  BY <1>1, <1>2, <1>3, <1>4, <1>5, <1>6, Zenon DEF ConnectionsOwned

-----------------------------------------------------------------------------
(* The invariant is kept.                                                  *)

LEMMA OwnedInit == Init => Owned
<1> SUFFICES ASSUME Init PROVE Owned
  OBVIOUS
<1>1. Coherent /\ Served
  BY DEF Init, McpInit, Coherent, Served
<1>2. Held
  BY DEF Init, McpInit, Held, Without
<1> QED
  BY <1>1, <1>2 DEF Owned

LEMMA CoherentNext == Owned /\ [Next]_vars => Coherent'
<1> SUFFICES ASSUME Owned, [Next]_vars PROVE Coherent'
  OBVIOUS
<1>0. Coherent /\ Served
  BY DEF Owned
<1>1. CASE Load
  <2>1. /\ app = "cold" /\ UNCHANGED mcpVars
        /\ config' = IF base' = None THEN None ELSE validate_raw_config(base')
        /\ app' = IF config' = None THEN "refused" ELSE "loaded"
    BY <1>1, Zenon DEF Load
  <2>2. config' # None => config' = Complete(base') /\ validate_references(config')
    BY <2>1, ValidatedFacts, Zenon
  <2> QED
    BY <2>1, <2>2, <1>0 DEF Coherent, mcpVars
<1>2. CASE Resolve
  BY <1>2, <1>0 DEF Resolve, Coherent, AddServers, mcpVars
<1>3. CASE BootServers
  <2>1. /\ app = "resolved" /\ app' \in {"resolved", "refused"}
        /\ UNCHANGED <<base, config>>
        /\ \/ StartServers \/ Started \/ \E s \in DOMAIN thread : wait_ready(s) \/ NotReady(s)
    BY <1>3, Zenon DEF BootServers
  <2>2. DOMAIN thread' = DOMAIN thread /\ (phase' = phase \/ phase' \in {"waiting", "started"})
    BY <2>1 DEF StartServers, Started, wait_ready, NotReady
  <2> QED
    BY <2>1, <2>2, <1>0 DEF Coherent
<1>4. CASE ServerThread
  <2>1. UNCHANGED <<app, base, config, phase>> /\ DOMAIN thread' = DOMAIN thread
    BY <1>4 DEF ServerThread, Bind
  <2> QED
    BY <2>1, <1>0 DEF Coherent
<1>5. CASE BuildStatic
  <2>1. /\ app = "resolved" /\ phase = "started" /\ app' \in {"serving", "refused"}
        /\ UNCHANGED <<base, config, phase, thread>>
    BY <1>5, Zenon DEF BuildStatic
  <2> QED
    BY <2>1, <1>0 DEF Coherent
<1>6. CASE ServeRuns
  BY <1>6, <1>0 DEF ServeRuns, Coherent, mcpVars
<1>7. CASE Shutdown
  BY <1>7, <1>0 DEF Shutdown, StopClients, Coherent
<1>8. CASE StopServers
  <2>1. UNCHANGED <<app, base, config, phase>> /\ DOMAIN thread' = DOMAIN thread
    BY <1>8 DEF StopServers, StopServer
  <2> QED
    BY <2>1, <1>0 DEF Coherent
<1>9. ASSUME UNCHANGED <<app, base, config, phase, thread>> PROVE Coherent'
  BY <1>9, <1>0 DEF Coherent
<1>10. ASSUME NEW t \in Threads, Warm(t) \/ Cold(t) \/ forget(t) PROVE Coherent'
  BY <1>9, <1>10, Zenon DEF Warm, Cold, forget, mcpVars
<1>11. ASSUME NEW r \in Runs, Submit(r) \/ aclose(r) \/ Lose(r) \/ Collect(r) PROVE Coherent'
  BY <1>9, <1>11, Zenon DEF Submit, aclose, Lose, Collect, mcpVars
<1>12. CASE UNCHANGED vars
  BY <1>9, <1>12, Zenon DEF vars, mcpVars
<1> QED
  BY <1>1, <1>2, <1>3, <1>4, <1>5, <1>6, <1>7, <1>8, <1>10, <1>11, <1>12, Zenon DEF Next

LEMMA ServedNext == Owned /\ [Next]_vars => Served'
<1> SUFFICES ASSUME Owned, [Next]_vars PROVE Served'
  OBVIOUS
<1>0. Coherent /\ Served
  BY DEF Owned
<1>1. ASSUME UNCHANGED <<phase, thread, ready>> PROVE Served'
  BY <1>1, <1>0 DEF Served
<1>2. CASE Load \/ BuildStatic \/ ServeRuns
  BY <1>1, <1>2, Zenon DEF Load, BuildStatic, ServeRuns, mcpVars
<1>3. CASE Resolve
  BY <1>3, <1>0 DEF Resolve, AddServers, Served, mcpVars
<1>4. CASE BootServers
  <2>1. StartServers \/ Started \/ \E s \in DOMAIN thread : wait_ready(s) \/ NotReady(s)
    BY <1>4, Zenon DEF BootServers
  <2> QED
    BY <2>1, <1>0 DEF StartServers, Started, wait_ready, NotReady, Served
<1>5. CASE ServerThread
  <2>1. PICK s \in DOMAIN thread : Bind(s)
    BY <1>5, Zenon DEF ServerThread
  <2> QED
    BY <2>1, <1>0 DEF Bind, Served
<1>6. CASE Shutdown
  BY <1>6, <1>0 DEF Shutdown, StopClients, Served
<1>7. CASE StopServers
  <2>1. PICK s \in DOMAIN thread : StopServer(s)
    BY <1>7, Zenon DEF StopServers
  <2> QED
    BY <2>1, <1>0 DEF StopServer, Served
<1>10. ASSUME NEW t \in Threads, Warm(t) \/ Cold(t) \/ forget(t) PROVE Served'
  BY <1>1, <1>10, Zenon DEF Warm, Cold, forget, mcpVars
<1>11. ASSUME NEW r \in Runs, Submit(r) \/ aclose(r) \/ Lose(r) \/ Collect(r) PROVE Served'
  BY <1>1, <1>11, Zenon DEF Submit, aclose, Lose, Collect, mcpVars
<1>12. CASE UNCHANGED vars
  BY <1>1, <1>12, Zenon DEF vars, mcpVars
<1> QED
  BY <1>2, <1>3, <1>4, <1>5, <1>6, <1>7, <1>10, <1>11, <1>12, Zenon DEF Next

LEMMA HeldNext == Owned /\ [Next]_vars => Held'
<1> SUFFICES ASSUME Owned, [Next]_vars PROVE Held'
  OBVIOUS
<1>0. Coherent /\ Served /\ Held
  BY DEF Owned
\* Sessions stay as they are while the process goes on.
<1>1. ASSUME UNCHANGED <<given, config, open, runs>>, DOMAIN thread' = DOMAIN thread,
             \/ app' = app /\ (phase' = phase \/ phase # "started")
             \/ app = "resolved" /\ app' \in {"serving", "refused"}
      PROVE  Held'
  <2>1. app \in {"resolved", "serving", "stopped"} /\ app' # app =>
          /\ open[Boot] = {}
          /\ \A r \in Runs : runs[r].phase \notin {"built", "lost"}
    BY <1>1, <1>0 DEF Held
  <2>2. \A r \in Runs : \A d \in open[r] : Reachable(d)'
    BY <1>1, <1>0, Zenon DEF Held, Reachable
  <2> QED
    BY <1>1, <1>0, <2>1, <2>2 DEF Held
<1>2. CASE Load
  <2>1. /\ app = "cold" /\ app' \in {"refused", "loaded"}
        /\ UNCHANGED <<given, runs, open, thread, phase>> /\ phase = "cold"
    BY <1>2, <1>0 DEF Load, Coherent, mcpVars
  <2>2. \A r \in Runs : open[r] = {} /\ runs[r].phase \notin {"built", "lost"}
    BY <2>1, <1>0 DEF Held
  <2> QED
    BY <2>1, <2>2, <1>0 DEF Held
<1>3. CASE Resolve
  <2>1. /\ app = "loaded" /\ app' \in {"refused", "resolved"}
        /\ UNCHANGED <<given, runs, open, phase>> /\ phase = "cold"
    BY <1>3, <1>0 DEF Resolve, Coherent, AddServers, mcpVars
  <2>2. \A r \in Runs : open[r] = {} /\ runs[r].phase \notin {"built", "lost"}
    BY <2>1, <1>0 DEF Held
  <2> QED
    BY <2>1, <2>2, <1>0 DEF Held
<1>4. CASE BootServers
  <2>1. /\ app = "resolved" /\ app' \in {"resolved", "refused"}
        /\ UNCHANGED <<given, config, runs>>
        /\ StartServers \/ Started \/ \E s \in DOMAIN thread : wait_ready(s) \/ NotReady(s)
    BY <1>4, Zenon DEF BootServers
  <2>2. UNCHANGED open /\ DOMAIN thread' = DOMAIN thread /\ (phase' = phase \/ phase # "started")
    BY <2>1 DEF StartServers, Started, wait_ready, NotReady
  <2> QED
    BY <1>1, <2>1, <2>2
<1>5. CASE ServerThread
  <2>1. UNCHANGED <<given, config, open, runs, app, phase>> /\ DOMAIN thread' = DOMAIN thread
    BY <1>5 DEF ServerThread, Bind
  <2> QED
    BY <1>1, <2>1
<1>6. CASE BuildStatic
  <2>1. /\ app = "resolved" /\ phase = "started" /\ given.way # "perRun"
        /\ app' \in {"serving", "refused"}
        /\ UNCHANGED <<given, config, runs, thread, phase>>
    BY <1>6, Zenon DEF BuildStatic
  <2>2. PICK some : /\ some \subseteq {config.mcp_clients[n] : n \in Used(config)}
                    /\ open' = Opened(Boot, some)
    BY <1>6, Zenon DEF BuildStatic
  <2>3. \A r \in Runs : open'[r] = open[r] /\ r # Boot
    BY <2>2, <1>0, SessionLifeAssumption DEF Opened, Held
  <2>4. DOMAIN open' = Runs \cup {Boot} /\ open[Boot] = {} /\ open'[Boot] = some
    BY <2>1, <2>2, <1>0 DEF Opened, Held
  <2>5. config # None /\ DOMAIN thread = DOMAIN config.mcp_servers
    BY <2>1, <1>0 DEF Coherent
  <2>6. \A d \in some : d.server = None \/ d.server \in DOMAIN thread
    <3>1. Used(config) \subseteq DOMAIN config.mcp_clients
      BY <2>5, <1>0, ReferencesDefined, Zenon DEF Coherent
    <3>2. \A d \in Range(config.mcp_clients) : d.server = None \/ d.server \in DOMAIN thread
      BY <2>5, <1>0, ReferencesDefined, Zenon DEF Coherent
    <3>3. \A n \in Used(config) : config.mcp_clients[n] \in Range(config.mcp_clients)
      BY <3>1, Zenon DEF Range
    <3> QED
      BY <2>2, <3>2, <3>3, Zenon
  <2>7. \A r \in Runs : open'[r] = {} /\ runs[r].phase \notin {"built", "lost"}
    BY <2>1, <2>3, <1>0 DEF Held
  <2> QED
    BY <2>1, <2>3, <2>4, <2>6, <2>7, <1>0 DEF Held
<1>7. CASE ServeRuns
  <2>1. /\ app = "resolved" /\ app' = "serving"
        /\ UNCHANGED <<given, config, open, runs, thread>>
    BY <1>7, Zenon DEF ServeRuns, mcpVars
  <2> QED
    BY <1>1, <2>1
<1>8. ASSUME NEW t \in Threads, Warm(t) \/ Cold(t) \/ forget(t) PROVE Held'
  <2>1. UNCHANGED <<given, config, open, runs, app, phase, thread>>
    BY <1>8, Zenon DEF Warm, Cold, forget, mcpVars
  <2> QED
    BY <1>1, <2>1
<1>9. ASSUME NEW r \in Runs, Submit(r) PROVE Held'
  <2> DEFINE c(overlay) == load_session_config(base, overlay, given.allowed)
             clients(overlay) == IF c(overlay) = None THEN None
                                 ELSE resolve_run_clients(c(overlay).mcp_clients, DOMAIN thread)
  <2>1. /\ app = "serving" /\ runs[r].phase = "new"
        /\ UNCHANGED <<given, app, config, thread, phase>>
    BY <1>9, Zenon DEF Submit
  <2>2. PICK overlay \in Overlays : BuildRun(r, overlay, c(overlay), clients(overlay))
    BY <1>9, Zenon DEF Submit
  <2>3. config # None /\ config = Complete(base)
    BY <2>1, <1>0 DEF Coherent
  <2> DEFINE k == c(overlay)
             made == clients(overlay)
  <2>4. /\ made # None => /\ k # None
                          /\ made = resolve_run_clients(k.mcp_clients, DOMAIN thread)
    BY Zenon
  <2>5. BuildRun(r, overlay, k, made)
    BY <2>2
  <2>6. k # None => /\ validate_references(k)
                    /\ \A n \in DOMAIN k.mcp_clients :
                         \/ k.mcp_clients[n] \in Range(config.mcp_clients)
                         \/ check_overlay_client(k.mcp_clients[n], given.allowed)
    <3>1. config.mcp_clients = Section(base, "mcp_clients")
      BY <2>3, CompleteFacts
    <3> QED
      BY <3>1, RunConfiguration, Zenon
  <2> HIDE DEF c, clients, k, made
  <2>7. CASE made = None
    <3>1. runs' = [runs EXCEPT ![r] = Without("refused")] /\ open' = open
      BY <2>5, <2>7, Zenon DEF BuildRun
    <3>2. open[r] = {}
      BY <2>1, <1>0 DEF Held
    <3>3. \A d \in UNION {open[q] : q \in Runs} : Reachable(d)' <=> Reachable(d)
      BY <2>1, Zenon DEF Reachable
    <3> QED
      BY <2>1, <3>1, <3>2, <3>3, <1>0 DEF Held, Without
  <2>8. CASE made # None
    <3>1. PICK down : LET run(p) == [runs EXCEPT ![r] = [phase |-> p, source |-> overlay, config |-> k]]
                          reached == {made[n] : n \in Used(k) \ down}
                      IN IF load_session(k, down) = {}
                         THEN runs' = run("built") /\ open' = Opened(r, reached)
                         ELSE runs' = run("lost") /\ \E s \in SUBSET reached : open' = Opened(r, s)
      BY <2>5, <2>8, Zenon DEF BuildRun
    <3>2. {made[n] : n \in Used(k) \ down} \subseteq {made[n] : n \in Used(k)}
      BY Zenon
    <3>3. PICK some : some \subseteq {made[n] : n \in Used(k)} /\ open' = Opened(r, some)
      BY <3>1, <3>2, Zenon
    <3>4. PICK kind \in {"built", "lost"} :
             runs' = [runs EXCEPT ![r] = [phase |-> kind, source |-> overlay, config |-> k]]
      BY <3>1, Zenon
    <3>5. /\ some \subseteq {made[n] : n \in Used(k)}
          /\ runs' = [runs EXCEPT ![r] = [phase |-> kind, source |-> overlay, config |-> k]]
          /\ open' = Opened(r, some)
      BY <3>3, <3>4
    <3>6. /\ k # None /\ made = [n \in DOMAIN k.mcp_clients |-> Connection(k.mcp_clients[n])]
          /\ \A e \in Range(k.mcp_clients) : e.server = None \/ e.server \in DOMAIN thread
      BY <2>4, <2>8, Zenon DEF resolve_run_clients
    <3>7. ASSUME NEW d \in some
          PROVE  Reachable(d)' /\ (d.server = None \/ d.server \in DOMAIN thread)
      <4>1. PICK n \in Used(k) : d = made[n]
        BY <3>5, Zenon
      <4> DEFINE e == k.mcp_clients[n]
      <4>2. n \in DOMAIN k.mcp_clients /\ d = Connection(e) /\ e \in Range(k.mcp_clients)
        BY <4>1, <3>6, <2>6, ReferencesDefined, Zenon DEF Range
      <4>3. e \in Range(config.mcp_clients) \/ check_overlay_client(e, given.allowed)
        BY <4>2, <3>6, <2>6, Zenon
      <4>4. e.server = None \/ e.server \in DOMAIN thread
        BY <4>2, <3>6, Zenon
      <4> HIDE DEF e
      <4>5. d.server = e.server /\ d.command = e.command /\ d.url = e.url
        BY <4>2 DEF Connection
      <4>6. CASE e \in Range(config.mcp_clients)
        BY <4>2, <4>4, <4>5, <4>6, <2>1, Zenon DEF Reachable
      <4>7. CASE check_overlay_client(e, given.allowed)
        BY <4>4, <4>5, <4>7, <2>1, Zenon DEF Reachable, check_overlay_client
      <4> QED
        BY <4>3, <4>6, <4>7
    <3>8. open[r] = {} /\ r # Boot
      BY <2>1, <1>0, SessionLifeAssumption DEF Held
    <3>9. /\ DOMAIN open' = Runs \cup {Boot} /\ open'[r] = some
          /\ \A o \in Runs \cup {Boot} : o # r => open'[o] = open[o]
      BY <3>5, <3>8, <1>0 DEF Held, Opened
    <3>10. /\ DOMAIN runs' = Runs /\ DOMAIN runs'[r] = {"phase", "source", "config"}
          /\ runs'[r].phase = kind
          /\ \A q \in Runs : q # r => runs'[q] = runs[q]
      BY <3>5, <1>0 DEF Held
    <3>11. \A q \in Runs : \A d \in open'[q] : Reachable(d)'
      <4>1. \A q \in Runs : \A d \in open[q] : Reachable(d)'
        BY <2>1, <1>0, Zenon DEF Held, Reachable
      <4> QED
        BY <4>1, <3>7, <3>9
    <3>12. \A o \in Runs \cup {Boot} : \A d \in open'[o] :
            d.server = None \/ d.server \in DOMAIN thread'
      BY <2>1, <3>7, <3>9, <1>0 DEF Held
    <3> QED
      BY <2>1, <3>8, <3>9, <3>10, <3>11, <3>12, <1>0 DEF Held
  <2> QED
    BY <2>7, <2>8
<1>10. ASSUME NEW r \in Runs, aclose(r) \/ Collect(r) PROVE Held'
  <2>1. /\ runs' = [runs EXCEPT ![r] = Without("ended")] /\ open' = [open EXCEPT ![r] = {}]
        /\ UNCHANGED <<given, app, config, thread, phase>>
    BY <1>10, Zenon DEF aclose, Collect
  <2>2. r # Boot
    BY SessionLifeAssumption
  <2>3. /\ DOMAIN open' = Runs \cup {Boot} /\ open'[r] = {}
        /\ \A o \in Runs \cup {Boot} : o # r => open'[o] = open[o]
    BY <2>1, <1>0 DEF Held
  <2>4. /\ DOMAIN runs' = Runs /\ DOMAIN runs'[r] = {"phase", "source", "config"}
        /\ runs'[r].phase = "ended"
        /\ \A q \in Runs : q # r => runs'[q] = runs[q]
    BY <2>1, <1>0 DEF Held, Without
  <2>5. \A q \in Runs : \A d \in open[q] : Reachable(d)'
    BY <2>1, <1>0, Zenon DEF Held, Reachable
  <2> QED
    BY <2>1, <2>2, <2>3, <2>4, <2>5, <1>0 DEF Held
<1>11. ASSUME NEW r \in Runs, Lose(r) PROVE Held'
  <2>1. /\ runs[r].phase = "built" /\ runs' = [runs EXCEPT ![r].phase = "lost"]
        /\ UNCHANGED <<given, app, config, thread, phase, open>>
    BY <1>11, Zenon DEF Lose, mcpVars
  <2>2. /\ DOMAIN runs' = Runs /\ DOMAIN runs'[r] = {"phase", "source", "config"}
        /\ runs'[r].phase = "lost"
        /\ \A q \in Runs : q # r => runs'[q] = runs[q]
    BY <2>1, <1>0 DEF Held
  <2>3. \A q \in Runs : \A d \in open[q] : Reachable(d)'
    BY <2>1, <1>0, Zenon DEF Held, Reachable
  <2> QED
    BY <2>1, <2>2, <2>3, <1>0 DEF Held
<1>12. CASE Shutdown
  <2>1. /\ app = "serving" /\ app' = "stopped" /\ \A r \in Runs : runs[r].phase # "built"
        /\ open' = [open EXCEPT ![Boot] = {}]
        /\ UNCHANGED <<given, config, runs, thread>>
    BY <1>12, Zenon DEF Shutdown, StopClients
  <2>2. /\ DOMAIN open' = Runs \cup {Boot} /\ open'[Boot] = {}
        /\ \A r \in Runs : open'[r] = open[r] /\ r # Boot
    BY <2>1, <1>0, SessionLifeAssumption DEF Held
  <2>3. \A q \in Runs : \A d \in open[q] : Reachable(d)'
    BY <2>1, <1>0, Zenon DEF Held, Reachable
  <2> QED
    BY <2>1, <2>2, <2>3, <1>0 DEF Held
<1>13. CASE StopServers
  <2>1. UNCHANGED <<given, config, open, runs, app, phase>> /\ DOMAIN thread' = DOMAIN thread
    BY <1>13 DEF StopServers, StopServer
  <2> QED
    BY <1>1, <2>1
<1>14. CASE UNCHANGED vars
  <2>1. UNCHANGED <<given, config, open, runs, app, phase, thread>>
    BY <1>14, Zenon DEF vars, mcpVars
  <2> QED
    BY <1>1, <2>1
<1> QED
  BY <1>2, <1>3, <1>4, <1>5, <1>6, <1>7, <1>8, <1>9, <1>10, <1>11, <1>12, <1>13, <1>14, Zenon DEF Next

\* A client session is open only while somebody will close it, reaches only what its
\* owner may, and its server outlives it, however many servers, clients, overlays and
\* runs there are (lifecycle.py 125-215, agui.py 693-709 and 862-885).
THEOREM SessionsOwned == Spec => []ConnectionsOwned
<1>1. Owned /\ [Next]_vars => Owned'
  BY CoherentNext, ServedNext, HeldNext DEF Owned
<1> QED
  BY <1>1, OwnedInit, OwnedOwns, PTL DEF Spec

=============================================================================
