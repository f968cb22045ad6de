------------------------- MODULE InstructionScanProofs -------------------------
(***************************************************************************)
(* Theorems about InstructionScan, for any instructions a host may send,   *)
(* any noise, any length of the ring buffer and any time-out.              *)
(***************************************************************************)
EXTENDS InstructionScan, SequenceTheorems, TLAPS

-----------------------------------------------------------------------------
(* Streams cut into frames *)

\* e[k] is where frame k of p ends in the stream s.
Ends(e, s, p) ==
  /\ e[0] = 0 /\ e[Len(p)] = Len(s)
  /\ \A k \in 1 .. Len(p) : e[k] = e[k-1] + Len(p[k])
  /\ \A j, k \in 0 .. Len(p) : j <= k => e[j] <= e[k]
  /\ \A k \in 1 .. Len(p) : \A i \in 1 .. Len(p[k]) : s[e[k-1] + i] = p[k][i]

\* The stream s is the frames of p, one after the other.
CutUp(s, p) == \E e \in [0 .. Len(p) -> Nat] : Ends(e, s, p)

\* What is assumed of a frame, with its length a number.
LEMMA FrameIs ==
  ASSUME NEW f \in Frames
  PROVE  /\ f \in Seq(Byte) /\ Len(f) \in Nat /\ Len(f) > 2 /\ f # <<>>
         /\ f[1] = FormatHead /\ Len(f) = DestLen(f[2])
         /\ f[1] \in Byte /\ f[2] \in Byte /\ Head(f) = f[1]
<1>1. f \in Seq(Byte) /\ Len(f) \in Nat /\ Len(f) > 2 /\ f[1] = FormatHead
      /\ Len(f) = DestLen(f[2])
  BY FramesAssumption, LenProperties
<1>2. f # <<>> /\ f[1] \in Byte /\ f[2] \in Byte
  BY <1>1, EmptySeq, ElementOfSeq
<1>3. Head(f) = f[1]
  BY <1>1, <1>2
<1> QED
  BY <1>1, <1>2, <1>3

\* Nothing is cut into no frames.
LEMMA CutNothing == CutUp(<<>>, <<>>)
<1> DEFINE e == [k \in 0 .. 0 |-> 0]
<1>1. Len(<<>>) = 0
  OBVIOUS
<1>2. e \in [0 .. Len(<<>>) -> Nat] /\ Ends(e, <<>>, <<>>)
  BY <1>1 DEF Ends
<1> QED
  BY <1>2 DEF CutUp

\* A frame sent after a stream of frames.
LEMMA CutMore ==
  ASSUME NEW s \in Seq(Byte), NEW p \in Seq(Frames), CutUp(s, p), NEW f \in Frames
  PROVE  CutUp(s \o f, Append(p, f))
<1> DEFINE n == Len(p)
           q == Append(p, f)
           t == s \o f
<1>1. PICK e \in [0 .. n -> Nat] : Ends(e, s, p)
  BY DEF CutUp
<1> DEFINE g == [k \in 0 .. n + 1 |-> IF k = n + 1 THEN Len(t) ELSE e[k]]
<1>2. /\ n \in Nat /\ q \in Seq(Frames) /\ Len(q) = n + 1 /\ q[n + 1] = f
      /\ \A k \in 1 .. n : q[k] = p[k]
  BY AppendProperties, LenProperties
<1>3. /\ f \in Seq(Byte) /\ Len(f) \in Nat /\ Len(s) \in Nat
      /\ Len(t) = Len(s) + Len(f) /\ Len(t) \in Nat
      /\ \A i \in 1 .. Len(s) + Len(f) : t[i] = IF i <= Len(s) THEN s[i] ELSE f[i - Len(s)]
  BY FrameIs, LenProperties, ConcatProperties
<1> HIDE DEF n, q, t
<1>4. \A k \in 1 .. n : Len(p[k]) \in Nat
  BY <1>2, ElementOfSeq, FrameIs DEF n
<1>5. /\ g \in [0 .. n + 1 -> Nat] /\ g[n + 1] = Len(t)
      /\ \A k \in 0 .. n : g[k] = e[k]
  BY <1>2, <1>3
<1> HIDE DEF g
<1>6. /\ e[0] = 0 /\ e[n] = Len(s)
      /\ \A k \in 1 .. n : e[k] = e[k-1] + Len(p[k])
      /\ \A j, k \in 0 .. n : j <= k => e[j] <= e[k]
      /\ \A k \in 1 .. n : \A i \in 1 .. Len(p[k]) : s[e[k-1] + i] = p[k][i]
  BY <1>1 DEF Ends, n
<1>7. \A k \in 1 .. n + 1 : g[k] = g[k-1] + Len(q[k])
  <2>1. ASSUME NEW k \in 1 .. n PROVE g[k] = g[k-1] + Len(q[k])
    <3>1. k \in 0 .. n /\ k - 1 \in 0 .. n
      BY <1>2
    <3>2. g[k] = e[k] /\ g[k-1] = e[k-1] /\ q[k] = p[k]
      BY <1>2, <1>5, <3>1
    <3> QED
      BY <1>6, <3>2
  <2>2. g[n + 1] = g[n + 1 - 1] + Len(q[n + 1])
    <3>1. n \in 0 .. n /\ n + 1 - 1 = n
      BY <1>2
    <3>2. g[n] = Len(s)
      BY <1>5, <1>6, <3>1
    <3> QED
      BY <1>2, <1>3, <1>5, <3>1, <3>2
  <2>3. ASSUME NEW k \in 1 .. n + 1 PROVE g[k] = g[k-1] + Len(q[k])
    <3>1. k \in 1 .. n \/ k = n + 1
      BY <1>2
    <3>2. CASE k \in 1 .. n
      BY <2>1, <3>2
    <3>3. CASE k = n + 1
      BY <1>2, <2>2, <3>3
    <3> QED
      BY <3>1, <3>2, <3>3
  <2> QED
    BY <2>3
<1>8. \A j, k \in 0 .. n + 1 : j <= k => g[j] <= g[k]
  <2> SUFFICES ASSUME NEW j \in 0 .. n + 1, NEW k \in 0 .. n + 1, j <= k
               PROVE  g[j] <= g[k]
    OBVIOUS
  <2>1. CASE k \in 0 .. n
    <3>1. j \in 0 .. n
      BY <1>2, <2>1
    <3>2. g[j] = e[j] /\ g[k] = e[k]
      BY <1>5, <2>1, <3>1
    <3>3. e[j] <= e[k]
      BY <1>6, <2>1, <3>1
    <3> QED
      BY <3>2, <3>3
  <2>2. CASE k = n + 1 /\ j \in 0 .. n
    <3>0. n \in 0 .. n /\ j <= n
      BY <1>2, <2>2
    <3>4. e[j] \in Nat
      BY <1>1, <2>2
    <3>1. e[j] <= e[n]
      BY <1>6, <2>2, <3>0
    <3>2. g[j] = e[j] /\ g[k] = Len(t) /\ e[n] = Len(s)
      BY <1>5, <1>6, <2>2
    <3>3. Len(s) \in Nat /\ Len(f) \in Nat /\ Len(t) = Len(s) + Len(f)
      BY <1>3
    <3> QED
      BY <3>1, <3>2, <3>3, <3>4
  <2>3. CASE k = n + 1 /\ j = n + 1
    BY <1>3, <1>5, <2>3
  <2> QED
    BY <1>2, <2>1, <2>2, <2>3
<1>9. \A k \in 1 .. n + 1 : \A i \in 1 .. Len(q[k]) : t[g[k-1] + i] = q[k][i]
  <2>1. ASSUME NEW k \in 1 .. n, NEW i \in 1 .. Len(p[k])
        PROVE  t[g[k-1] + i] = q[k][i]
    <3>1. /\ k - 1 \in 0 .. n /\ k \in 0 .. n /\ n \in 0 .. n
      BY <1>2
    <3>2. e[k-1] \in Nat /\ e[k] \in Nat
      BY <1>1, <3>1
    <3>5. e[k] <= Len(s) /\ e[k] = e[k-1] + Len(p[k])
      BY <1>2, <1>6, <3>1
    <3>8. Len(s) \in Nat /\ Len(p[k]) \in Nat
      BY <1>3, <1>4
    <3>3. e[k-1] + i \in 1 .. Len(s)
      BY <3>2, <3>5, <3>8
    <3>4. t[e[k-1] + i] = s[e[k-1] + i]
      BY <1>3, <3>3
    <3>6. g[k-1] = e[k-1] /\ q[k] = p[k]
      BY <1>2, <1>5, <3>1
    <3>7. s[e[k-1] + i] = p[k][i]
      BY <1>6
    <3> QED
      BY <3>4, <3>6, <3>7
  <2>2. ASSUME NEW i \in 1 .. Len(f)
        PROVE  t[g[n] + i] = q[n + 1][i]
    <3>1. g[n] = Len(s)
      BY <1>2, <1>5, <1>6
    <3>2. t[Len(s) + i] = f[i]
      <4>1. /\ Len(s) + i \in 1 .. Len(s) + Len(f) /\ ~(Len(s) + i <= Len(s))
            /\ Len(s) + i - Len(s) = i
        BY <1>3
      <4> QED
        BY <1>3, <4>1
    <3> QED
      BY <1>2, <3>1, <3>2
  <2>3. \A k \in 1 .. n + 1 : k \in 1 .. n \/ (k = n + 1 /\ k - 1 = n)
    BY <1>2
  <2>4. SUFFICES ASSUME NEW k \in 1 .. n + 1, NEW i \in 1 .. Len(q[k])
                 PROVE  t[g[k-1] + i] = q[k][i]
    OBVIOUS
  <2>5. CASE k \in 1 .. n
    BY <1>2, <2>1, <2>5
  <2>6. CASE k = n + 1 /\ k - 1 = n
    BY <1>2, <2>2, <2>6
  <2> QED
    BY <2>3, <2>5, <2>6
<1>10. Ends(g, t, q)
  <2>1. g[0] = 0 /\ g[Len(q)] = Len(t)
    BY <1>2, <1>5, <1>6
  <2> QED
    BY <1>2, <1>7, <1>8, <1>9, <2>1 DEF Ends
<1> QED
  BY <1>2, <1>5, <1>10 DEF CutUp, t, q

\* The first frame of a stream stands at its beginning.
LEMMA CutFirst ==
  ASSUME NEW s \in Seq(Byte), NEW p \in Seq(Frames), CutUp(s, p), p # <<>>
  PROVE  /\ Head(p) \in Frames /\ Len(Head(p)) <= Len(s)
         /\ \A i \in 1 .. Len(Head(p)) : s[i] = Head(p)[i]
<1>1. PICK e \in [0 .. Len(p) -> Nat] : Ends(e, s, p)
  BY DEF CutUp
<1>2. /\ Len(p) \in Nat \ {0} /\ 1 \in 1 .. Len(p) /\ p[1] \in Frames
      /\ Head(p) = p[1]
  BY EmptySeq, ElementOfSeq
<1>3. e[0] = 0 /\ e[1] = e[1-1] + Len(p[1]) /\ e[Len(p)] = Len(s)
      /\ \A i \in 1 .. Len(p[1]) : s[e[1-1] + i] = p[1][i]
  BY <1>1, <1>2 DEF Ends
<1>4. Len(p[1]) \in Nat /\ 1 - 1 = 0
  BY <1>2, FrameIs
<1>5. e[1] = Len(p[1]) /\ \A i \in 1 .. Len(p[1]) : s[i] = p[1][i]
  BY <1>3, <1>4
<1>6. e[1] <= e[Len(p)]
  BY <1>1, <1>2 DEF Ends
<1> QED
  BY <1>2, <1>3, <1>5, <1>6

\* A stream that is not empty has a frame.
LEMMA CutSome ==
  ASSUME NEW s \in Seq(Byte), NEW p \in Seq(Frames), CutUp(s, p), s # <<>>
  PROVE  p # <<>>
<1> SUFFICES ASSUME p = <<>> PROVE FALSE
  OBVIOUS
<1>1. Len(p) = 0 /\ Len(s) \in Nat \ {0}
  BY EmptySeq
<1>2. PICK e \in [0 .. Len(p) -> Nat] : Ends(e, s, p)
  BY DEF CutUp
<1> QED
  BY <1>1, <1>2 DEF Ends

\* Places that lie behind the first x of x + y.
LEMMA Within ==
  ASSUME NEW a \in Nat, NEW b \in Nat, NEW x \in Nat, NEW y \in Nat,
         x <= a, a + b <= x + y, NEW i \in 1 .. b
  PROVE  (a - x) + i \in 1 .. y /\ a + i = x + ((a - x) + i)
  OBVIOUS

\* What follows the first frame of a stream.
LEMMA CutRest ==
  ASSUME NEW p \in Seq(Frames), p # <<>>, NEW t \in Seq(Byte),
         CutUp(Head(p) \o t, p)
  PROVE  CutUp(t, Tail(p))
<1> DEFINE f == Head(p)
           n == Len(p) - 1
           q == Tail(p)
           s == f \o t
<1>1. PICK e \in [0 .. Len(p) -> Nat] : Ends(e, s, p)
  BY DEF CutUp
<1>2. /\ f \in Frames /\ f = p[1] /\ n \in Nat /\ Len(p) = n + 1
      /\ q \in Seq(Frames) /\ Len(q) = n /\ \A k \in 1 .. n : q[k] = p[k + 1]
  BY EmptySeq, HeadTailProperties
<1>3. /\ f \in Seq(Byte) /\ Len(f) \in Nat /\ Len(t) \in Nat
      /\ Len(s) = Len(f) + Len(t)
      /\ \A i \in 1 .. Len(t) : s[Len(f) + i] = t[i]
  <2>1. f \in Seq(Byte) /\ Len(f) \in Nat /\ Len(t) \in Nat
    BY <1>2, FrameIs, LenProperties
  <2>2. /\ Len(s) = Len(f) + Len(t)
        /\ \A i \in 1 .. Len(f) + Len(t) :
             s[i] = IF i <= Len(f) THEN f[i] ELSE t[i - Len(f)]
    BY <2>1, ConcatProperties
  <2>3. \A i \in 1 .. Len(t) : /\ Len(f) + i \in 1 .. Len(f) + Len(t)
                               /\ ~(Len(f) + i <= Len(f)) /\ Len(f) + i - Len(f) = i
    BY <2>1
  <2> QED
    BY <2>1, <2>2, <2>3
<1> HIDE DEF f, n, q, s
<1>4. /\ e \in [0 .. n + 1 -> Nat] /\ e[0] = 0 /\ e[n + 1] = Len(s)
      /\ \A k \in 1 .. n + 1 : e[k] = e[k-1] + Len(p[k])
      /\ \A j, k \in 0 .. n + 1 : j <= k => e[j] <= e[k]
      /\ \A k \in 1 .. n + 1 : \A i \in 1 .. Len(p[k]) : s[e[k-1] + i] = p[k][i]
  BY <1>1, <1>2 DEF Ends
<1>5. e[1] = Len(f)
  <2>1. 1 \in 1 .. n + 1 /\ 1 - 1 = 0
    BY <1>2
  <2>2. e[1] = e[1 - 1] + Len(p[1])
    BY <1>4, <2>1
  <2> QED
    BY <1>2, <1>3, <1>4, <2>1, <2>2
<1> DEFINE g == [k \in 0 .. n |-> e[k + 1] - e[1]]
<1>6. \A k \in 0 .. n : /\ k + 1 \in 0 .. n + 1 /\ e[k + 1] \in Nat
                        /\ e[1] \in Nat /\ e[1] <= e[k + 1]
  <2> SUFFICES ASSUME NEW k \in 0 .. n
               PROVE  /\ k + 1 \in 0 .. n + 1 /\ e[k + 1] \in Nat
                      /\ e[1] \in Nat /\ e[1] <= e[k + 1]
    OBVIOUS
  <2>1. k + 1 \in 0 .. n + 1 /\ 1 \in 0 .. n + 1 /\ 1 <= k + 1
    BY <1>2
  <2> QED
    BY <1>4, <2>1
<1>7. /\ g \in [0 .. n -> Nat]
      /\ \A k \in 0 .. n : g[k] = e[k + 1] - e[1]
  BY <1>6
<1> HIDE DEF g
<1>8. g[0] = 0 /\ g[n] = Len(t)
  <2>1. 0 \in 0 .. n /\ n \in 0 .. n /\ 0 + 1 = 1
    BY <1>2
  <2>2. g[0] = e[0 + 1] - e[1] /\ g[n] = e[n + 1] - e[1]
    BY <1>7, <2>1
  <2>3. g[0] = 0
    BY <1>3, <1>5, <2>1, <2>2
  <2>4. g[n] = Len(t)
    BY <1>3, <1>4, <1>5, <2>2
  <2> QED
    BY <2>3, <2>4
<1>9. ASSUME NEW k \in 1 .. n
      PROVE  /\ g[k] = g[k-1] + Len(q[k])
             /\ \A i \in 1 .. Len(q[k]) : t[g[k-1] + i] = q[k][i]
  <2>1. /\ k \in 0 .. n /\ k - 1 \in 0 .. n /\ k + 1 \in 1 .. n + 1
        /\ k + 1 - 1 = k /\ k - 1 + 1 = k
    BY <1>2
  <2>2. g[k] = e[k + 1] - e[1] /\ g[k-1] = e[k] - e[1]
    BY <1>7, <2>1
  <2>3. e[k + 1] = e[k] + Len(q[k])
    BY <1>2, <1>4, <2>1
  <2>4. q[k] \in Frames /\ Len(q[k]) \in Nat
    BY <1>2, ElementOfSeq, FrameIs
  <2>5. e[k] \in Nat /\ e[k + 1] \in Nat /\ e[1] \in Nat /\ e[1] <= e[k]
        /\ e[k + 1] <= Len(s)
    <3>1. n + 1 \in 0 .. n + 1 /\ k + 1 \in 0 .. n + 1 /\ k + 1 <= n + 1
      BY <1>2, <2>1
    <3>2. e[k + 1] <= e[n + 1]
      BY <1>4, <3>1
    <3> QED
      BY <1>4, <1>6, <2>1, <3>2
  <2>6. ASSUME NEW i \in 1 .. Len(q[k])
        PROVE  t[g[k-1] + i] = q[k][i]
    <3>1. p[k + 1] = q[k]
      BY <1>2
    <3>2. s[e[k + 1 - 1] + i] = p[k + 1][i]
      BY <1>4, <2>1, <3>1
    <3>3. s[e[k] + i] = q[k][i]
      BY <2>1, <3>1, <3>2
    <3>4. e[k] - Len(f) = g[k-1] /\ Len(f) <= e[k]
          /\ e[k] + Len(q[k]) <= Len(f) + Len(t)
      BY <1>3, <1>5, <2>2, <2>3, <2>5
    <3>5. g[k-1] + i \in 1 .. Len(t) /\ e[k] + i = Len(f) + (g[k-1] + i)
      <4>1. /\ (e[k] - Len(f)) + i \in 1 .. Len(t)
            /\ e[k] + i = Len(f) + ((e[k] - Len(f)) + i)
        <5>1. e[k] \in Nat /\ Len(q[k]) \in Nat /\ Len(f) \in Nat /\ Len(t) \in Nat
          BY <1>3, <2>4, <2>5
        <5>2. Len(f) <= e[k] /\ e[k] + Len(q[k]) <= Len(f) + Len(t)
          BY <3>4
        <5> QED
          BY <5>1, <5>2, Within, SMTT(30)
      <4> QED
        BY <3>4, <4>1
    <3> QED
      BY <1>3, <3>3, <3>5
  <2>7. g[k] = g[k-1] + Len(q[k])
    BY <2>2, <2>3, <2>4, <2>5
  <2> QED
    BY <2>6, <2>7
<1>10. \A j, k \in 0 .. n : j <= k => g[j] <= g[k]
  <2> SUFFICES ASSUME NEW j \in 0 .. n, NEW k \in 0 .. n, j <= k
               PROVE  g[j] <= g[k]
    OBVIOUS
  <2>1. j + 1 <= k + 1 /\ j + 1 \in 0 .. n + 1 /\ k + 1 \in 0 .. n + 1
    BY <1>2
  <2>2. e[j + 1] <= e[k + 1]
    BY <1>4, <2>1
  <2> QED
    BY <1>6, <1>7, <2>2
<1>11. Ends(g, t, q)
  BY <1>2, <1>8, <1>9, <1>10 DEF Ends
<1> QED
  BY <1>2, <1>7, <1>11 DEF CutUp, q

\* Taking a byte from the front of one piece to the end of the piece before.
LEMMA MoveByte ==
  ASSUME NEW a \in Seq(Byte), NEW b \in Seq(Byte), b # <<>>
  PROVE  /\ Append(a, Head(b)) \o Tail(b) = a \o b
         /\ Append(a, Head(b)) \in Seq(Byte) /\ Tail(b) \in Seq(Byte)
         /\ Len(Append(a, Head(b))) = Len(a) + 1 /\ Len(Tail(b)) = Len(b) - 1
         /\ Len(a) \in Nat /\ Len(b) \in Nat \ {0} /\ Head(b) = b[1]
         /\ Head(b) \in Byte
<1> DEFINE x == Append(a, Head(b))
           y == Tail(b)
<1>1. /\ x \in Seq(Byte) /\ Len(x) = Len(a) + 1 /\ x[Len(a) + 1] = Head(b)
      /\ \A i \in 1 .. Len(a) : x[i] = a[i]
      /\ Head(b) \in Byte /\ Head(b) = b[1]
  BY HeadTailProperties, AppendProperties
<1>2. /\ y \in Seq(Byte) /\ Len(y) = Len(b) - 1
      /\ \A i \in 1 .. Len(b) - 1 : y[i] = b[i + 1]
  BY HeadTailProperties
<1>3. Len(a) \in Nat /\ Len(b) \in Nat \ {0}
  BY EmptySeq, LenProperties
<1> HIDE DEF x, y
<1>4. /\ x \o y \in Seq(Byte) /\ a \o b \in Seq(Byte)
      /\ Len(x \o y) = Len(a) + Len(b) /\ Len(a \o b) = Len(a) + Len(b)
      /\ \A i \in 1 .. Len(a) + Len(b) :
           (x \o y)[i] = IF i <= Len(a) + 1 THEN x[i] ELSE y[i - (Len(a) + 1)]
      /\ \A i \in 1 .. Len(a) + Len(b) :
           (a \o b)[i] = IF i <= Len(a) THEN a[i] ELSE b[i - Len(a)]
  <2>1. /\ x \o y \in Seq(Byte) /\ Len(x \o y) = Len(x) + Len(y)
        /\ \A i \in 1 .. Len(x) + Len(y) :
             (x \o y)[i] = IF i <= Len(x) THEN x[i] ELSE y[i - Len(x)]
    BY <1>1, <1>2, ConcatProperties
  <2>2. /\ a \o b \in Seq(Byte) /\ Len(a \o b) = Len(a) + Len(b)
        /\ \A i \in 1 .. Len(a) + Len(b) :
             (a \o b)[i] = IF i <= Len(a) THEN a[i] ELSE b[i - Len(a)]
    BY ConcatProperties
  <2>3. Len(x) + Len(y) = Len(a) + Len(b)
    BY <1>1, <1>2, <1>3
  <2> QED
    BY <1>1, <2>1, <2>2, <2>3
<1>5. ASSUME NEW i \in 1 .. Len(a) + Len(b) PROVE (x \o y)[i] = (a \o b)[i]
  <2>1. CASE i <= Len(a)
    BY <1>1, <1>3, <1>4, <2>1
  <2>2. CASE i = Len(a) + 1
    BY <1>1, <1>3, <1>4, <2>2
  <2>3. CASE i > Len(a) + 1
    <3>1. /\ i - (Len(a) + 1) \in 1 .. Len(b) - 1
          /\ i - (Len(a) + 1) + 1 = i - Len(a)
          /\ ~(i <= Len(a)) /\ ~(i <= Len(a) + 1)
      BY <1>3, <2>3
    <3>2. (x \o y)[i] = y[i - (Len(a) + 1)]
      BY <1>4, <3>1
    <3>3. (a \o b)[i] = b[i - Len(a)]
      BY <1>4, <3>1
    <3>4. y[i - (Len(a) + 1)] = b[i - (Len(a) + 1) + 1]
      BY <1>2, <3>1
    <3> QED
      BY <3>1, <3>2, <3>3, <3>4
  <2>4. i <= Len(a) \/ i = Len(a) + 1 \/ i > Len(a) + 1
    BY <1>3
  <2> QED
    BY <2>1, <2>2, <2>3, <2>4
<1>6. x \o y = a \o b
  BY <1>4, <1>5, SeqEqual
<1> QED
  BY <1>1, <1>2, <1>3, <1>6 DEF x, y

\* Sending the next byte of what is left, behind what is queued.
LEMMA SendMoves ==
  ASSUME NEW a \in Seq(Byte), NEW q \in Seq(Byte), NEW l \in Seq(Byte), l # <<>>
  PROVE  (a \o Append(q, Head(l))) \o Tail(l) = (a \o q) \o l
<1> DEFINE x == Append(q, Head(l))
           y == Tail(l)
<1>1. x \in Seq(Byte) /\ y \in Seq(Byte) /\ x \o y = q \o l
  BY MoveByte
<1> HIDE DEF x, y
<1>2. (a \o x) \o y = a \o (x \o y)
  <2>1. \A u, v, w \in Seq(Byte) : (u \o v) \o w = u \o (v \o w)
    BY ConcatAssociative, SMTT(30)
  <2> QED
    BY <1>1, <2>1, ZenonT(30)
<1>3. a \o (q \o l) = (a \o q) \o l
  BY ConcatAssociative
<1>4. (a \o x) \o y = (a \o q) \o l
  BY <1>1, <1>2, <1>3
<1> QED
  BY <1>4 DEF x, y

\* A concatenation begins with its first piece.
LEMMA FirstPiece ==
  ASSUME NEW a \in Seq(Byte), NEW b \in Seq(Byte), NEW c \in Seq(Byte)
  PROVE  \A i \in 1 .. Len(a) : ((a \o b) \o c)[i] = a[i]
<1>1. /\ a \o b \in Seq(Byte) /\ Len(a \o b) = Len(a) + Len(b)
      /\ \A i \in 1 .. Len(a) + Len(b) :
           (a \o b)[i] = IF i <= Len(a) THEN a[i] ELSE b[i - Len(a)]
  BY ConcatProperties
<1>2. \A i \in 1 .. Len(a \o b) + Len(c) :
        ((a \o b) \o c)[i] = IF i <= Len(a \o b) THEN (a \o b)[i]
                                                 ELSE c[i - Len(a \o b)]
  BY <1>1, ConcatProperties
<1>3. Len(a) \in Nat /\ Len(b) \in Nat /\ Len(c) \in Nat
  BY LenProperties
<1>4. ASSUME NEW i \in 1 .. Len(a) PROVE ((a \o b) \o c)[i] = a[i]
  <2>1. /\ i \in 1 .. Len(a) + Len(b) /\ i <= Len(a) /\ i <= Len(a) + Len(b)
        /\ i \in 1 .. Len(a \o b) + Len(c)
    BY <1>1, <1>3
  <2> QED
    BY <1>1, <1>2, <2>1
<1> QED
  BY <1>4

-----------------------------------------------------------------------------
(* The inductive invariant.  A host in step and the scanner agree on where   *)
(* frames begin: what is received of a frame, what is queued and what is     *)
(* left to send make up the pending frames.  The host is in step again only  *)
(* when the scanner has dropped what it was in: while the host is silent the *)
(* scanner's time-out has counted at least as many loops as the host was.    *)

\* What the scanner holds of a frame.
Got == IF status = "NONE" THEN <<>> ELSE recv

Stream == (Got \o queue) \o left

\* How much the scanner has received where it stands.
ShapeInv ==
  /\ status = "FORMAT_HEAD" => Len(recv) = 1
  /\ status = "TYPE" => Len(recv) >= 2 /\ (Len(recv) = 2 \/ Len(recv) < dest)

StepInv == InStep =>
  /\ CutUp(Stream, pending)
  /\ status # "NONE" => pending # <<>> /\ timeout < Timeout
  /\ status \in {"FORMAT_HEAD", "TYPE"} => Len(recv) < Len(Head(pending))
  /\ status = "TYPE" => dest = Len(Head(pending))
  /\ status = "END" => recv = Head(pending) /\ dest = Len(recv)

SilenceInv == ~InStep =>
  /\ left = <<>> /\ pending = <<>>
  /\ quiet > 0 => queue = <<>> /\ status # "END"
  /\ status # "NONE" => timeout >= quiet

ScanInv == TypeOK /\ ShapeInv /\ StepInv /\ SilenceInv

\* The pieces of the stream are sequences of bytes.
LEMMA StreamType ==
  ASSUME TypeOK
  PROVE  /\ Got \in Seq(Byte) /\ queue \in Seq(Byte) /\ left \in Seq(Byte)
         /\ recv \in Seq(Byte) /\ pending \in Seq(Frames)
         /\ Got \o queue \in Seq(Byte) /\ Stream \in Seq(Byte)
         /\ Len(Stream) = Len(Got) + Len(queue) + Len(left)
         /\ Len(Got) \in Nat /\ Len(queue) \in Nat /\ Len(left) \in Nat
         /\ Len(recv) \in Nat
<1>1. /\ Got \in Seq(Byte) /\ queue \in Seq(Byte) /\ left \in Seq(Byte)
      /\ recv \in Seq(Byte) /\ pending \in Seq(Frames)
  BY EmptySeq DEF TypeOK, Got
<1>2. Got \o queue \in Seq(Byte) /\ Len(Got \o queue) = Len(Got) + Len(queue)
  BY <1>1, ConcatProperties
<1>3. Stream \in Seq(Byte) /\ Len(Stream) = Len(Got \o queue) + Len(left)
  BY <1>1, <1>2, ConcatProperties DEF Stream
<1>4. /\ Len(Got) \in Nat /\ Len(queue) \in Nat /\ Len(left) \in Nat
      /\ Len(recv) \in Nat
  BY <1>1, LenProperties
<1> QED
  BY <1>1, <1>2, <1>3, <1>4

\* The beginning of the stream is what the scanner holds, then the queue.
LEMMA StreamBytes ==
  ASSUME TypeOK
  PROVE  /\ \A i \in 1 .. Len(Got) : Stream[i] = Got[i]
         /\ queue # <<>> => Stream[Len(Got) + 1] = Head(queue)
<1>1. /\ Len(Got \o queue) = Len(Got) + Len(queue)
      /\ \A i \in 1 .. Len(Got) + Len(queue) :
           (Got \o queue)[i] = IF i <= Len(Got) THEN Got[i] ELSE queue[i - Len(Got)]
  BY StreamType, ConcatProperties
<1>2. \A i \in 1 .. Len(Got \o queue) + Len(left) :
        Stream[i] = IF i <= Len(Got \o queue) THEN (Got \o queue)[i]
                                              ELSE left[i - Len(Got \o queue)]
  BY StreamType, ConcatProperties DEF Stream
<1>3. Len(Got) \in Nat /\ Len(queue) \in Nat /\ Len(left) \in Nat
  BY StreamType
<1>4. \A i \in 1 .. Len(Got) + Len(queue) : Stream[i] = (Got \o queue)[i]
  BY <1>1, <1>2, <1>3
<1>5. ASSUME NEW i \in 1 .. Len(Got) PROVE Stream[i] = Got[i]
  <2>1. i \in 1 .. Len(Got) + Len(queue) /\ i <= Len(Got)
    BY <1>3
  <2> QED
    BY <1>1, <1>4, <2>1
<1>6. ASSUME queue # <<>> PROVE Stream[Len(Got) + 1] = Head(queue)
  <2>1. Len(queue) \in Nat \ {0} /\ Head(queue) = queue[1]
    BY <1>6, StreamType, EmptySeq
  <2>2. /\ Len(Got) + 1 \in 1 .. Len(Got) + Len(queue)
        /\ ~(Len(Got) + 1 <= Len(Got)) /\ Len(Got) + 1 - Len(Got) = 1
    BY <1>3, <2>1
  <2>3. (Got \o queue)[Len(Got) + 1] = queue[Len(Got) + 1 - Len(Got)]
    BY <1>1, <2>2
  <2> QED
    BY <1>4, <2>1, <2>2, <2>3
<1> QED
  BY <1>5, <1>6

\* At the start nothing was sent, and the host is in step.
LEMMA ScanInvInit == Init => ScanInv
<1> SUFFICES ASSUME Init PROVE ScanInv
  OBVIOUS
<1>1. TypeOK
  BY EmptySeq, LenAssumption, TimeoutAssumption DEF Init, TypeOK, RecvBuffLen
<1>2. Stream = <<>>
  BY DEF Init, Stream, Got
<1> QED
  BY <1>1, <1>2, CutNothing DEF Init, ScanInv, ShapeInv, StepInv, SilenceInv, InStep

-----------------------------------------------------------------------------
(* Steps of the host *)

\* A byte that fits into the queue keeps its type.
LEMMA QueueType ==
  ASSUME TypeOK, NEW b \in Byte, Len(queue) < BufferLen
  PROVE  Append(queue, b) \in Seq(Byte) /\ Len(Append(queue, b)) <= BufferLen
<1>1. queue \in Seq(Byte) /\ Len(queue) \in Nat
  BY StreamType
<1>2. Append(queue, b) \in Seq(Byte) /\ Len(Append(queue, b)) = Len(queue) + 1
  BY <1>1, AppendProperties
<1> QED
  BY <1>1, <1>2, LenAssumption

\* A new frame is sent behind those of the stream.
LEMMA BeginFrameKeeps ==
  ASSUME ScanInv, NEW f \in Frames, BeginFrame(f)
  PROVE  ScanInv'
<1>1. /\ InStep /\ left = <<>> /\ Len(queue) < BufferLen
      /\ queue' = Append(queue, Head(f)) /\ left' = Tail(f)
      /\ pending' = Append(pending, f)
      /\ UNCHANGED <<status, recv, dest, timeout, quiet>>
  BY DEF BeginFrame, scanner
<1>2. TypeOK /\ f \in Seq(Byte) /\ f # <<>> /\ pending \in Seq(Frames)
      /\ Head(f) \in Byte /\ Tail(f) \in Seq(Byte)
  BY FrameIs, HeadTailProperties, StreamType DEF ScanInv
<1>3. Append(pending, f) \in Seq(Frames)
      /\ (pending # <<>> => Append(pending, f) # <<>>
                            /\ Head(Append(pending, f)) = Head(pending))
  BY <1>2, AppendProperties, HeadTailAppend
<1>4. TypeOK'
  BY <1>1, <1>2, <1>3, QueueType DEF TypeOK
<1>5. Stream' = Stream \o f
  <2>1. Stream' = (Got \o Append(queue, Head(f))) \o Tail(f)
    BY <1>1 DEF Stream, Got
  <2>2. Stream' = (Got \o queue) \o f
    <3>1. Got \in Seq(Byte) /\ queue \in Seq(Byte)
      BY <1>2, StreamType
    <3>2. (Got \o Append(queue, Head(f))) \o Tail(f) = (Got \o queue) \o f
      <4>1. \A a, q, l \in Seq(Byte) : l # <<>> =>
              (a \o Append(q, Head(l))) \o Tail(l) = (a \o q) \o l
        BY SendMoves, Zenon
      <4> QED
        BY <1>2, <3>1, <4>1, ZenonT(30)
    <3> QED
      BY <2>1, <3>2
  <2>3. Stream = Got \o queue
    BY <1>1, <1>2, StreamType, ConcatEmptySeq DEF Stream
  <2> QED
    BY <2>2, <2>3
<1>6. CutUp(Stream', pending')
  BY <1>1, <1>2, <1>5, StreamType, CutMore DEF ScanInv, StepInv
<1>7. StepInv'
  BY <1>1, <1>3, <1>6 DEF ScanInv, StepInv, InStep
<1>8. ShapeInv' /\ SilenceInv'
  BY <1>1 DEF ScanInv, ShapeInv, SilenceInv, InStep
<1> QED
  BY <1>4, <1>7, <1>8 DEF ScanInv

\* A byte of a frame goes from what is left to the queue.
LEMMA SendByteKeeps ==
  ASSUME ScanInv, SendByte
  PROVE  ScanInv'
<1>1. /\ left # <<>> /\ Len(queue) < BufferLen
      /\ queue' = Append(queue, Head(left)) /\ left' = Tail(left)
      /\ UNCHANGED <<status, recv, dest, timeout, quiet, pending>>
  BY DEF SendByte, scanner
<1>2. TypeOK /\ Head(left) \in Byte /\ Tail(left) \in Seq(Byte)
  BY <1>1, StreamType, HeadTailProperties DEF ScanInv
<1>3. TypeOK'
  BY <1>1, <1>2, QueueType DEF TypeOK
<1>4. Stream' = Stream
  <2>1. Got \in Seq(Byte) /\ queue \in Seq(Byte) /\ left \in Seq(Byte)
    BY <1>2, StreamType
  <2>2. (Got \o Append(queue, Head(left))) \o Tail(left) = (Got \o queue) \o left
    BY <1>1, <2>1, SendMoves
  <2>3. Stream' = (Got \o Append(queue, Head(left))) \o Tail(left)
    BY <1>1 DEF Stream, Got
  <2> QED
    BY <2>2, <2>3 DEF Stream
<1>5. InStep
  BY <1>1 DEF ScanInv, SilenceInv
<1>6. StepInv'
  BY <1>1, <1>4 DEF ScanInv, StepInv, InStep
<1>7. ShapeInv' /\ SilenceInv'
  BY <1>1, <1>5 DEF ScanInv, ShapeInv, SilenceInv, InStep
<1> QED
  BY <1>3, <1>6, <1>7 DEF ScanInv

\* A host that breaks off, or noise: nothing is promised until it was silent.
LEMMA OutOfStep ==
  ASSUME ScanInv, BreakOff \/ \E b \in Noise : SendNoise(b)
  PROVE  ScanInv'
<1>1. /\ left' = <<>> /\ quiet' = 0 /\ pending' = <<>>
      /\ UNCHANGED <<status, recv, dest, timeout>>
  BY DEF BreakOff, SendNoise, scanner
<1>2. queue' \in Seq(Byte) /\ Len(queue') <= BufferLen
  <2>1. CASE BreakOff
    BY <2>1 DEF BreakOff, ScanInv, TypeOK
  <2>2. ASSUME NEW b \in Noise, SendNoise(b)
        PROVE  queue' \in Seq(Byte) /\ Len(queue') <= BufferLen
    BY <2>2, QueueType, NoiseAssumption DEF SendNoise, ScanInv
  <2> QED
    BY <2>1, <2>2
<1>3. TypeOK'
  BY <1>1, <1>2, TimeoutAssumption, EmptySeq DEF ScanInv, TypeOK
<1>4. ~InStep'
  BY <1>1, TimeoutAssumption DEF InStep
<1>5. SilenceInv'
  BY <1>1, TimeoutAssumption DEF SilenceInv, ScanInv, TypeOK
<1> QED
  BY <1>1, <1>3, <1>4, <1>5 DEF ScanInv, ShapeInv, StepInv

-----------------------------------------------------------------------------
(* Steps of the scanner *)

\* The lengths of instructions.
LEMMA DestLenType == \A b : DestLen(b) \in 0 .. RecvBuffLen
  BY DEF DestLen, RecvBuffLen

\* Whatever the byte and wherever the scanner stood, its buffer holds what its
\* status says, and does not run over.
LEMMA ReceiveShape ==
  ASSUME TypeOK, ShapeInv, status # "END", NEW b \in Byte,
         NEW s \in {"NONE", status}, Receive(s, b)
  PROVE  /\ ShapeInv'
         /\ status' \in {"NONE", "FORMAT_HEAD", "TYPE", "END"}
         /\ recv' \in Seq(Byte) /\ Len(recv') <= RecvBuffLen
         /\ dest' \in 0 .. RecvBuffLen
<1>1. /\ recv \in Seq(Byte) /\ Len(recv) \in Nat /\ Len(recv) <= RecvBuffLen
      /\ dest \in 0 .. RecvBuffLen /\ RecvBuffLen = 20
      /\ status \in {"NONE", "FORMAT_HEAD", "TYPE"}
  BY StreamType DEF TypeOK, RecvBuffLen
<1>2. /\ Append(recv, b) \in Seq(Byte) /\ Len(Append(recv, b)) = Len(recv) + 1
      /\ <<b>> \in Seq(Byte) /\ Len(<<b>>) = 1
  BY <1>1, AppendProperties
<1>3. CASE s = "NONE" /\ b = FormatHead
  <2>1. recv' = <<b>> /\ status' = "FORMAT_HEAD" /\ dest' = dest
    BY <1>3 DEF Receive
  <2> QED
    BY <1>1, <1>2, <2>1 DEF ShapeInv
<1>4. CASE s = "NONE" /\ b # FormatHead
  BY <1>1, <1>4 DEF Receive, ShapeInv
<1>5. CASE s = "FORMAT_HEAD"
  <2>1. recv' = Append(recv, b) /\ dest' = DestLen(b) /\ status' = "TYPE"
    BY <1>5 DEF Receive
  <2>2. Len(recv) = 1
    BY <1>1, <1>5 DEF ShapeInv
  <2> QED
    BY <1>1, <1>2, <2>1, <2>2, DestLenType DEF ShapeInv
<1>6. CASE s = "TYPE"
  <2>1. recv' = Append(recv, b) /\ UNCHANGED dest
        /\ status' = IF Len(recv') >= dest THEN "END" ELSE "TYPE"
    BY <1>6 DEF Receive
  <2>2. Len(recv) >= 2 /\ (Len(recv) = 2 \/ Len(recv) < dest)
    BY <1>1, <1>6 DEF ShapeInv
  <2>3. Len(recv') = Len(recv) + 1 /\ Len(recv') <= RecvBuffLen
    BY <1>1, <1>2, <2>1, <2>2
  <2>4. ShapeInv'
    BY <1>1, <2>1, <2>2, <2>3 DEF ShapeInv
  <2> QED
    BY <1>1, <1>2, <2>1, <2>3, <2>4
<1> QED
  BY <1>1, <1>3, <1>4, <1>5, <1>6

\* The byte the scanner of a host in step takes is the next one of the frame.
LEMMA NextByte ==
  ASSUME ScanInv, InStep, queue # <<>>, status # "END"
  PROVE  /\ pending # <<>> /\ Head(pending) \in Frames
         /\ Len(Got) < Len(Head(pending))
         /\ Head(queue) = Head(pending)[Len(Got) + 1]
         /\ \A i \in 1 .. Len(Got) : Got[i] = Head(pending)[i]
<1>1. TypeOK /\ CutUp(Stream, pending)
  BY DEF ScanInv, StepInv
<1>2. /\ Stream \in Seq(Byte) /\ pending \in Seq(Frames) /\ Len(Got) \in Nat
      /\ Len(Stream) = Len(Got) + Len(queue) + Len(left)
      /\ Len(queue) \in Nat \ {0} /\ Len(left) \in Nat
  BY <1>1, StreamType, EmptySeq
<1>3. Stream # <<>>
  BY <1>2
<1>4. pending # <<>>
  BY <1>1, <1>2, <1>3, CutSome
<1>5. /\ Head(pending) \in Frames
      /\ \A i \in 1 .. Len(Head(pending)) : Stream[i] = Head(pending)[i]
  BY <1>1, <1>2, <1>4, CutFirst
<1>6. Len(Head(pending)) \in Nat /\ Len(Head(pending)) > 2
  BY <1>5, FrameIs
<1>7. Len(Got) < Len(Head(pending))
  <2>1. CASE status = "NONE"
    BY <1>6, <2>1 DEF Got
  <2>2. CASE status # "NONE"
    BY <2>2 DEF Got, ScanInv, StepInv, TypeOK
  <2> QED
    BY <2>1, <2>2
<1>8. /\ Len(Got) + 1 \in 1 .. Len(Head(pending))
      /\ \A i \in 1 .. Len(Got) : i \in 1 .. Len(Head(pending))
  BY <1>2, <1>6, <1>7
<1> QED
  BY <1>1, <1>4, <1>5, <1>7, <1>8, StreamBytes

\* A byte of a host in step takes the scanner on in the frame.
LEMMA ByteInStep ==
  ASSUME ScanInv, InStep, ScanByte, TypeOK'
  PROVE  StepInv'
<1> DEFINE f == Head(pending)
<1>1. /\ queue # <<>> /\ status # "END" /\ queue' = Tail(queue) /\ timeout' = 0
      /\ UNCHANGED <<left, quiet, pending>>
  BY DEF ScanByte, host
<1>2. /\ pending # <<>> /\ f \in Frames /\ Len(Got) < Len(f)
      /\ Head(queue) = f[Len(Got) + 1]
      /\ \A i \in 1 .. Len(Got) : Got[i] = f[i]
  BY <1>1, NextByte
<1>3. /\ Len(f) \in Nat /\ Len(f) > 2 /\ f[1] = FormatHead /\ Len(f) = DestLen(f[2])
      /\ f \in Seq(Byte)
  BY <1>2, FrameIs
<1>4. TypeOK /\ CutUp(Stream, pending)
  BY DEF ScanInv, StepInv
<1>5. Receive(status, Head(queue))
  <2>1. ~Late
    BY TimeoutAssumption DEF Late, Waited, ScanInv, StepInv, TypeOK
  <2> QED
    BY <2>1 DEF ScanByte
<1>6. /\ Len(Got) \in Nat /\ Got \in Seq(Byte) /\ queue \in Seq(Byte)
      /\ Len(Append(Got, Head(queue))) = Len(Got) + 1
      /\ Append(Got, Head(queue)) \o Tail(queue) = Got \o queue
  BY <1>1, <1>4, StreamType, MoveByte
<1> HIDE DEF f
<1>7. /\ status' # "NONE"
      /\ recv' = Append(Got, Head(queue))
      /\ status' \in {"FORMAT_HEAD", "TYPE"} => Len(recv') < Len(f)
      /\ status' = "TYPE" => dest' = Len(f)
      /\ status' = "END" => Len(recv') = Len(f) /\ dest' = Len(f)
  <2>1. CASE status = "NONE"
    <3>1. Got = <<>> /\ Len(Got) = 0
      BY <2>1 DEF Got
    <3>2. Head(queue) = FormatHead
      BY <1>2, <1>3, <3>1
    <3>3. recv' = <<Head(queue)>> /\ status' = "FORMAT_HEAD"
      BY <1>5, <2>1, <3>2 DEF Receive
    <3>4. recv' = Append(Got, Head(queue))
      BY <3>1, <3>3
    <3> QED
      BY <1>3, <1>6, <3>1, <3>3, <3>4
  <2>2. CASE status = "FORMAT_HEAD"
    <3>1. Got = recv /\ Len(Got) = 1
      BY <2>2 DEF Got, ScanInv, ShapeInv
    <3>2. Head(queue) = f[2]
      BY <1>2, <3>1
    <3>3. /\ recv' = Append(recv, Head(queue)) /\ status' = "TYPE"
          /\ dest' = DestLen(Head(queue))
      BY <1>5, <2>2 DEF Receive
    <3> QED
      BY <1>3, <1>6, <3>1, <3>2, <3>3
  <2>3. CASE status = "TYPE"
    <3>1. Got = recv /\ dest = Len(f)
      BY <1>2, <2>3 DEF Got, ScanInv, StepInv, f
    <3>2. /\ recv' = Append(recv, Head(queue)) /\ dest' = dest
          /\ status' = IF Len(recv') >= dest THEN "END" ELSE "TYPE"
      BY <1>5, <2>3 DEF Receive
    <3>3. Len(recv') = Len(Got) + 1
      BY <1>6, <3>1, <3>2
    <3> QED
      BY <1>2, <1>3, <1>6, <3>1, <3>2, <3>3
  <2> QED
    BY <1>1, <1>4, <2>1, <2>2, <2>3 DEF TypeOK
<1>8. Got' = recv' /\ Stream' = Stream
  <2>1. Got' = recv'
    BY <1>7 DEF Got
  <2>2. Stream' = (Append(Got, Head(queue)) \o Tail(queue)) \o left
    BY <1>1, <1>7, <2>1 DEF Stream
  <2> QED
    BY <1>6, <2>1, <2>2 DEF Stream
<1>9. status' = "END" => recv' = f
  <2> SUFFICES ASSUME status' = "END" PROVE recv' = f
    OBVIOUS
  <2>1. recv' \in Seq(Byte) /\ Len(recv') = Len(f)
    BY <1>7 DEF TypeOK
  <2>2. Stream \in Seq(Byte) /\ pending \in Seq(Frames)
    BY <1>4, StreamType
  <2>3. \A i \in 1 .. Len(f) : Stream[i] = f[i]
    BY <1>2, <1>4, <2>2, CutFirst DEF f
  <2>4. \A i \in 1 .. Len(recv') : Stream'[i] = recv'[i]
    <3>1. recv' \in Seq(Byte) /\ queue' \in Seq(Byte) /\ left' \in Seq(Byte)
      BY DEF TypeOK
    <3>2. Stream' = (recv' \o queue') \o left'
      BY <1>8 DEF Stream
    <3> QED
      BY <3>1, <3>2, FirstPiece
  <2>5. \A i \in 1 .. Len(recv') : recv'[i] = f[i]
    BY <1>8, <2>1, <2>3, <2>4
  <2> QED
    BY <1>3, <2>1, <2>5, SeqEqual
<1> QED
  BY <1>1, <1>2, <1>4, <1>7, <1>8, <1>9, TimeoutAssumption DEF StepInv, f

\* instruction_scan with a byte.
LEMMA ScanByteKeeps ==
  ASSUME ScanInv, ScanByte
  PROVE  ScanInv'
<1>1. /\ queue # <<>> /\ status # "END" /\ queue' = Tail(queue) /\ timeout' = 0
      /\ UNCHANGED <<left, quiet, pending>>
      /\ Receive(IF Late THEN "NONE" ELSE status, Head(queue))
  BY DEF ScanByte, host
<1>2. TypeOK /\ ShapeInv
  BY DEF ScanInv
<1>3. Head(queue) \in Byte /\ Tail(queue) \in Seq(Byte)
      /\ Len(Tail(queue)) = Len(queue) - 1 /\ Len(queue) \in Nat
  BY <1>1, <1>2, StreamType, HeadTailProperties
<1>4. /\ ShapeInv'
      /\ status' \in {"NONE", "FORMAT_HEAD", "TYPE", "END"}
      /\ recv' \in Seq(Byte) /\ Len(recv') <= RecvBuffLen
      /\ dest' \in 0 .. RecvBuffLen
  BY <1>1, <1>2, <1>3, ReceiveShape
<1>5. Len(queue') <= BufferLen
  BY <1>1, <1>2, <1>3, LenAssumption DEF TypeOK
<1>6. TypeOK'
  BY <1>1, <1>2, <1>3, <1>4, <1>5, TimeoutAssumption DEF TypeOK
<1>7. StepInv'
  <2>1. CASE InStep
    BY <1>6, <2>1, ByteInStep
  <2>2. CASE ~InStep
    BY <1>1, <2>2 DEF StepInv, InStep
  <2> QED
    BY <2>1, <2>2
<1>8. SilenceInv'
  <2> SUFFICES ASSUME ~InStep' PROVE SilenceInv'
    BY DEF SilenceInv
  <2>1. ~InStep /\ ~(quiet > 0) /\ left = <<>> /\ pending = <<>>
    BY <1>1 DEF InStep, ScanInv, SilenceInv
  <2>2. quiet = 0 /\ quiet' = 0
    BY <1>1, <1>2, <2>1, TimeoutAssumption DEF TypeOK
  <2> QED
    BY <1>1, <2>1, <2>2 DEF SilenceInv
<1> QED
  BY <1>4, <1>6, <1>7, <1>8 DEF ScanInv

\* A scanner that has begun a frame of a host in step, and has no byte to take,
\* waits for one the host has yet to send.
LEMMA MoreToCome ==
  ASSUME ScanInv, InStep, queue = <<>>, status \in {"FORMAT_HEAD", "TYPE"}
  PROVE  left # <<>>
<1> SUFFICES ASSUME left = <<>> PROVE FALSE
  OBVIOUS
<1>1. /\ TypeOK /\ CutUp(Stream, pending) /\ pending # <<>>
      /\ Len(recv) < Len(Head(pending)) /\ Got = recv
  BY DEF ScanInv, StepInv, Got
<1>2. /\ Stream \in Seq(Byte) /\ pending \in Seq(Frames) /\ Len(recv) \in Nat
      /\ Len(Stream) = Len(Got) + Len(queue) + Len(left)
  BY <1>1, StreamType
<1>3. Len(Stream) = Len(recv)
  BY <1>1, <1>2
<1>4. Head(pending) \in Frames /\ Len(Head(pending)) <= Len(Stream)
  BY <1>1, <1>2, CutFirst
<1>5. Len(Head(pending)) \in Nat
  BY <1>4, FrameIs
<1> QED
  BY <1>1, <1>2, <1>3, <1>4, <1>5

\* instruction_scan with nothing in the buffer.
LEMMA ScanNothingKeeps ==
  ASSUME ScanInv, ScanNothing
  PROVE  ScanInv'
<1>1. /\ status # "END" /\ queue = <<>>
      /\ left # <<>> => timeout + 1 < Timeout
      /\ quiet' = IF InStep THEN quiet ELSE quiet + 1
      /\ UNCHANGED <<queue, recv, dest, left, pending>>
  BY DEF ScanNothing
<1>2. \/ status # "NONE" /\ timeout + 1 > Timeout /\ status' = "NONE" /\ timeout' = 0
      \/ status # "NONE" /\ ~(timeout + 1 > Timeout) /\ status' = status /\ timeout' = timeout + 1
      \/ status = "NONE" /\ status' = status /\ timeout' = timeout
  BY DEF ScanNothing, Late, Waited
<1>3. /\ TypeOK /\ timeout \in 0 .. Timeout /\ quiet \in 0 .. Timeout + 1
      /\ Timeout \in Nat \ {0} /\ status \in {"NONE", "FORMAT_HEAD", "TYPE", "END"}
  BY TimeoutAssumption DEF ScanInv, TypeOK
<1>4. timeout' \in 0 .. Timeout
  BY <1>2, <1>3
<1>5. quiet' \in 0 .. Timeout + 1
  BY <1>1, <1>3 DEF InStep
<1>6. status' \in {"NONE", "FORMAT_HEAD", "TYPE", "END"} /\ status' # "END"
  BY <1>1, <1>2, <1>3
<1>7. TypeOK'
  BY <1>1, <1>3, <1>4, <1>5, <1>6 DEF TypeOK
<1>8. ShapeInv'
  BY <1>1, <1>2 DEF ScanInv, ShapeInv
<1>9. CASE InStep
  <2>1. InStep' /\ quiet' = quiet
    BY <1>1, <1>9 DEF InStep
  <2>2. status # "NONE" => timeout + 1 < Timeout
    BY <1>1, <1>3, <1>9, MoreToCome
  <2>3. status' = status /\ (status # "NONE" => timeout' < Timeout)
    BY <1>2, <1>3, <2>2
  <2>4. Stream' = Stream
    BY <1>1, <2>3 DEF Stream, Got
  <2>5. StepInv'
    BY <1>1, <1>9, <2>3, <2>4 DEF ScanInv, StepInv
  <2> QED
    BY <1>7, <1>8, <2>1, <2>5 DEF ScanInv, SilenceInv
<1>10. CASE ~InStep
  <2>1. left = <<>> /\ pending = <<>> /\ (status # "NONE" => timeout >= quiet)
    BY <1>10 DEF ScanInv, SilenceInv
  <2>2. quiet' = quiet + 1 /\ quiet \in 0 .. Timeout
    BY <1>1, <1>3, <1>10 DEF InStep
  <2>3. status' # "NONE" => timeout' >= quiet'
    BY <1>2, <1>3, <2>1, <2>2
  <2>4. SilenceInv'
    BY <1>1, <1>6, <2>1, <2>3 DEF SilenceInv
  <2>5. StepInv'
    <3> SUFFICES ASSUME InStep' PROVE StepInv'
      BY DEF StepInv
    <3>1. quiet' = Timeout + 1
      BY DEF InStep
    <3>2. status' = "NONE"
      BY <1>3, <1>4, <2>3, <3>1
    <3>3. Stream' = <<>>
      BY <1>1, <2>1, <3>2 DEF Stream, Got
    <3>4. CutUp(Stream', pending')
      BY <1>1, <2>1, <3>3, CutNothing
    <3> QED
      BY <3>2, <3>4 DEF StepInv
  <2> QED
    BY <1>7, <1>8, <2>4, <2>5 DEF ScanInv
<1> QED
  BY <1>9, <1>10

\* instruction_handle with a whole instruction.
LEMMA HandleKeeps ==
  ASSUME ScanInv, Handle
  PROVE  ScanInv'
<1>1. /\ status = "END" /\ status' = "NONE" /\ recv' = <<>>
      /\ pending' = IF InStep THEN Tail(pending) ELSE pending
      /\ UNCHANGED <<queue, dest, timeout, left, quiet>>
  BY DEF Handle
<1>2. TypeOK
  BY DEF ScanInv
<1>3. ShapeInv' /\ recv' \in Seq(Byte) /\ Len(recv') <= RecvBuffLen
  BY <1>1 DEF ShapeInv, RecvBuffLen
<1>4. CASE InStep
  <2>1. pending # <<>> /\ recv = Head(pending) /\ CutUp(Stream, pending)
        /\ pending' = Tail(pending)
    BY <1>1, <1>4 DEF ScanInv, StepInv
  <2>2. pending \in Seq(Frames) /\ Tail(pending) \in Seq(Frames)
    BY <1>2, <2>1, StreamType, HeadTailProperties
  <2>3. TypeOK'
    BY <1>1, <1>2, <1>3, <2>1, <2>2 DEF TypeOK
  <2>4. recv \in Seq(Byte) /\ queue \in Seq(Byte) /\ left \in Seq(Byte)
        /\ queue \o left \in Seq(Byte)
    BY <1>2, StreamType, ConcatProperties
  <2>5. Stream = recv \o (queue \o left)
    <3>1. Stream = (recv \o queue) \o left
      BY <1>1 DEF Stream, Got
    <3> QED
      BY <2>4, <3>1, ConcatAssociative
  <2>6. Stream' = queue \o left
    <3>1. Stream' = (<<>> \o queue) \o left
      BY <1>1 DEF Stream, Got
    <3> QED
      BY <2>4, <3>1, ConcatEmptySeq
  <2>7. CutUp(Stream', pending')
    BY <2>1, <2>2, <2>4, <2>5, <2>6, CutRest
  <2>8. StepInv' /\ SilenceInv'
    BY <1>1, <1>4, <2>7 DEF StepInv, SilenceInv, InStep
  <2> QED
    BY <1>3, <2>3, <2>8 DEF ScanInv
<1>5. CASE ~InStep
  <2>1. ~InStep' /\ pending' = pending
    BY <1>1, <1>5 DEF InStep
  <2>2. TypeOK'
    BY <1>1, <1>2, <1>3, <2>1 DEF TypeOK
  <2>3. StepInv' /\ SilenceInv'
    BY <1>1, <1>5, <2>1 DEF ScanInv, StepInv, SilenceInv
  <2> QED
    BY <1>3, <2>2, <2>3 DEF ScanInv
<1> QED
  BY <1>4, <1>5

-----------------------------------------------------------------------------
(* The invariant holds, and what follows from it *)

\* Every step keeps it.
LEMMA ScanInvNext == ScanInv /\ [Next]_vars => ScanInv'
<1> SUFFICES ASSUME ScanInv, [Next]_vars PROVE ScanInv'
  OBVIOUS
<1>1. CASE UNCHANGED vars
  BY <1>1
  DEF vars, scanner, host, ScanInv, TypeOK, ShapeInv, StepInv, SilenceInv, InStep,
      Stream, Got
<1>2. CASE HostStep
  BY <1>2, BeginFrameKeeps, SendByteKeeps, OutOfStep DEF HostStep
<1>3. CASE UserTask
  BY <1>3, ScanNothingKeeps, ScanByteKeeps, HandleKeeps DEF UserTask
<1> QED
  BY <1>1, <1>2, <1>3 DEF Next

\* Whatever arrives, the ring buffer and the receive buffer do not run over, and
\* every status, length and count stays in its range.
THEOREM ScanTypes == Spec => []TypeOK
<1>1. ScanInv => TypeOK
  BY DEF ScanInv
<1> QED
  BY ScanInvInit, ScanInvNext, <1>1, PTL DEF Spec

\* Every frame a host in step sends is handled whole and in order, whatever its
\* payload looks like; and a host that was silent for the time-out after a broken
\* frame or noise is in step again.
THEOREM FramesInOrder == Spec => []InOrder
<1>1. ScanInv => InOrder
  BY DEF ScanInv, StepInv, InOrder
<1> QED
  BY ScanInvInit, ScanInvNext, <1>1, PTL DEF Spec
================================================================================
