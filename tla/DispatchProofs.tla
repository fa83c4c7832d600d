--------------------------- MODULE DispatchProofs ---------------------------
(***************************************************************************)
(* The dispatcher and its rate limiter, for any senders, replies, channels *)
(* and rates.                                                              *)
(***************************************************************************)
EXTENDS Dispatch, FiniteSetTheorems, WellFoundedInduction, TLAPS

-----------------------------------------------------------------------------
(* The cut, for every text and limit.  The library's induction takes an    *)
(* operator; a set of counterexamples with a least element serves as well. *)
Less == {p \in Nat \X Nat : p[1] < p[2]}

LEMMA Least ==
  ASSUME NEW S, S \subseteq Nat, S # {}
  PROVE  \E m \in S : \A k \in S : m <= k
<1>1. IsWellFoundedOn(Less, Nat)
  BY NatLessThanWellFounded DEF OpToRel, Less
<1>2. PICK m \in S : \A k \in S : ~(<<k, m>> \in Less)
  BY <1>1, WFMin
<1>3. ASSUME NEW k \in S PROVE m <= k
  <2>1. ~(<<k, m>> \in Less) /\ k \in Nat /\ m \in Nat
    BY <1>2
  <2>2. <<k, m>> \in Nat \X Nat /\ <<k, m>>[1] = k /\ <<k, m>>[2] = m
    BY <2>1
  <2>3. ~(k < m)
    BY <2>1, <2>2 DEF Less
  <2>4. QED
    BY <2>1, <2>3
<1>4. QED
  BY <1>3

(* A set of numbers below a bound has a least and a greatest. *)
LEMMA Extremes ==
  ASSUME NEW a \in Int, NEW b \in Int, NEW S, S \subseteq a..b, S # {}
  PROVE  /\ Min(S) \in S /\ \A k \in S : Min(S) <= k
         /\ Max(S) \in S /\ \A k \in S : k <= Max(S)
<1>1. \E m \in S : \A k \in S : m <= k
  <2> DEFINE T == {k - a : k \in S}
  <2>1. T \subseteq Nat /\ T # {}
    <3>1. \A k \in S : k - a \in Nat
      OBVIOUS
    <3>2. QED
      BY <3>1
  <2>2. PICK n \in T : \A k \in T : n <= k
    BY <2>1, Least
  <2>3. PICK m \in S : n = m - a
    OBVIOUS
  <2>4. \A k \in S : m - a <= k - a
    BY <2>2, <2>3
  <2>5. QED
    BY <2>4
<1>2. \E m \in S : \A k \in S : k <= m
  <2> DEFINE T == {b - k : k \in S}
  <2>1. T \subseteq Nat /\ T # {}
    OBVIOUS
  <2>2. PICK n \in T : \A k \in T : n <= k
    BY <2>1, Least
  <2>3. PICK m \in S : n = b - m
    OBVIOUS
  <2>4. \A k \in S : b - m <= b - k
    BY <2>2, <2>3
  <2>5. QED
    BY <2>4
<1>3. Min(S) \in S /\ \A k \in S : Min(S) <= k
  BY <1>1 DEF Min
<1>4. Max(S) \in S /\ \A k \in S : k <= Max(S)
  BY <1>2 DEF Max
<1>5. QED
  BY <1>3, <1>4

(* A loop whose state shrinks at every pass ends, and there is a function  *)
(* that makes its passes.  A partial one knows the states it leads to.     *)
Makes(f, d, on, next, out) == f[d] = IF d \in on THEN out[d] \o f[next[d]] ELSE out[d]

MakesAll(f, D, on, next, out) == \A d \in D : Makes(f, d, on, next, out)

Shrinks(D, size, on, next) ==
  \A d \in D : size[d] \in Nat /\ (d \in on => next[d] \in D /\ size[next[d]] < size[d])

Partial(f, D, R, on, next, out) ==
  /\ DOMAIN f \subseteq D
  /\ \A d \in DOMAIN f : /\ d \in on => next[d] \in DOMAIN f
                         /\ f[d] \in Seq(R)
                         /\ Makes(f, d, on, next, out)

LEMMA LoopIsOne ==
  ASSUME NEW D, NEW size, NEW on, NEW next, NEW out, NEW f, NEW g,
         Shrinks(D, size, on, next), MakesAll(f, D, on, next, out),
         MakesAll(g, D, on, next, out), NEW e \in D
  PROVE  f[e] = g[e]
<1> DEFINE bad == {k \in Nat : \E d \in D : size[d] = k /\ f[d] # g[d]}
<1>1. SUFFICES ASSUME bad # {} PROVE FALSE
  <2>1. size[e] \in Nat
    BY DEF Shrinks
  <2>2. QED
    BY <2>1
<1>2. PICK k \in bad : \A j \in bad : k <= j
  BY <1>1, Least
<1>3. PICK d \in D : size[d] = k /\ f[d] # g[d]
  BY <1>2
<1>4. Makes(f, d, on, next, out) /\ Makes(g, d, on, next, out)
  BY DEF MakesAll
<1>5. d \in on
  BY <1>3, <1>4 DEF Makes
<1>6. /\ next[d] \in D /\ size[next[d]] \in Nat
      /\ size[next[d]] < k /\ k \in Nat
  BY <1>2, <1>3, <1>5 DEF Shrinks
<1>7. f[next[d]] = g[next[d]]
  BY <1>2, <1>6
<1>8. QED
  BY <1>3, <1>4, <1>5, <1>7 DEF Makes

LEMMA LoopEnds ==
  ASSUME NEW D, NEW R, NEW size \in [D -> Nat], NEW on \in SUBSET D,
         NEW next \in [D -> D], NEW out \in [D -> Seq(R)],
         \A d \in on : size[next[d]] < size[d]
  PROVE  \E f \in [D -> Seq(R)] : \A d \in D : Makes(f, d, on, next, out)
<1> DEFINE Part(f) == Partial(f, D, R, on, next, out)
<1>1. ASSUME NEW f, NEW g, Part(f), Part(g), NEW d \in DOMAIN f \cap DOMAIN g
      PROVE  f[d] = g[d]
  <2> DEFINE S == DOMAIN f \cap DOMAIN g
  <2>1. \A e \in S : size[e] \in Nat
    BY <1>1 DEF Partial
  <2>2. \A e \in S : e \in on => next[e] \in S /\ size[next[e]] < size[e]
    BY <1>1 DEF Partial
  <2>3. Shrinks(S, size, on, next)
    BY <2>1, <2>2 DEF Shrinks
  <2>4. MakesAll(f, S, on, next, out) /\ MakesAll(g, S, on, next, out) /\ d \in S
    BY <1>1 DEF Partial, MakesAll
  <2> HIDE DEF S
  <2>5. QED
    BY <2>3, <2>4, LoopIsOne
<1>2. ASSUME NEW d \in D
      PROVE  \E f : Part(f) /\ d \in DOMAIN f
  <2> DEFINE bad == {k \in Nat : \E e \in D : size[e] = k /\ ~ \E f : Part(f) /\ e \in DOMAIN f}
  <2>1. SUFFICES ASSUME bad # {} PROVE FALSE
    <3>1. size[d] \in Nat
      OBVIOUS
    <3>2. QED
      BY <3>1
  <2>2. PICK k \in bad : \A j \in bad : k <= j
    BY <2>1, Least
  <2>3. PICK e \in D : size[e] = k /\ ~ \E f : Part(f) /\ e \in DOMAIN f
    BY <2>2
  <2>4. CASE e \notin on
    <3> DEFINE f == [x \in {e} |-> out[e]]
    <3>1. Part(f) /\ e \in DOMAIN f
      BY <2>4 DEF Partial, Makes
    <3>2. QED
      BY <2>3, <3>1
  <2>5. CASE e \in on
    <3>1. next[e] \in D /\ size[next[e]] \in Nat /\ size[next[e]] < k /\ k \in Nat
      BY <2>2, <2>3, <2>5
    <3>2. PICK g : Part(g) /\ next[e] \in DOMAIN g
      <4>1. size[next[e]] \notin bad
        BY <2>2, <3>1
      <4>2. QED
        BY <3>1, <4>1
    <3>3. e \notin DOMAIN g
      BY <2>3, <3>2
    <3> DEFINE f == [x \in DOMAIN g \cup {e} |-> IF x = e THEN out[e] \o g[next[e]] ELSE g[x]]
    <3>4. f[e] = out[e] \o f[next[e]] /\ f[e] \in Seq(R)
      <4>1. next[e] # e /\ f[next[e]] = g[next[e]]
        BY <3>2, <3>3
      <4>2. out[e] \in Seq(R) /\ g[next[e]] \in Seq(R)
        BY <2>3, <3>2 DEF Partial
      <4>3. f[e] = out[e] \o g[next[e]]
        OBVIOUS
      <4> HIDE DEF f
      <4>4. out[e] \o g[next[e]] \in Seq(R)
        BY <4>2
      <4>5. QED
        BY <4>1, <4>3, <4>4
    <3>5. ASSUME NEW x \in DOMAIN g
          PROVE  /\ x \in on => next[x] \in DOMAIN f
                 /\ f[x] \in Seq(R)
                 /\ Makes(f, x, on, next, out)
      <4>1. /\ x \in on => next[x] \in DOMAIN g
            /\ g[x] \in Seq(R)
            /\ Makes(g, x, on, next, out)
        BY <3>2 DEF Partial
      <4>2. f[x] = g[x] /\ (x \in on => f[next[x]] = g[next[x]])
        BY <3>3, <4>1
      <4> HIDE DEF f
      <4>3. f[x] \in Seq(R) /\ Makes(f, x, on, next, out)
        BY <4>1, <4>2 DEF Makes
      <4>4. QED
        BY <4>1, <4>3 DEF f
    <3>6. DOMAIN f = DOMAIN g \cup {e} /\ DOMAIN f \subseteq D
      BY <3>2 DEF Partial
    <3> HIDE DEF f
    <3>7. Part(f)
      BY <2>5, <3>2, <3>4, <3>5, <3>6 DEF Partial, Makes
    <3>8. QED
      BY <2>3, <3>6, <3>7
  <2>6. QED
    BY <2>4, <2>5
<1> DEFINE part(d) == CHOOSE f : Part(f) /\ d \in DOMAIN f
           whole == [d \in D |-> part(d)[d]]
<1>3. \A d \in D : Part(part(d)) /\ d \in DOMAIN part(d)
  BY <1>2
<1> HIDE DEF Part, part
<1>4. ASSUME NEW d \in D
      PROVE  whole[d] \in Seq(R) /\ Makes(whole, d, on, next, out)
  <2>1. Part(part(d)) /\ d \in DOMAIN part(d) /\ whole[d] = part(d)[d]
    BY <1>3
  <2>2. /\ d \in on => next[d] \in DOMAIN part(d)
        /\ part(d)[d] \in Seq(R)
        /\ Makes(part(d), d, on, next, out)
    BY <2>1 DEF Part, Partial
  <2>3. d \in on => whole[next[d]] = part(d)[next[d]]
    <3>1. HAVE d \in on
    <3>2. next[d] \in D
      OBVIOUS
    <3>3. Part(part(next[d])) /\ next[d] \in DOMAIN part(next[d])
      BY <1>3, <3>2
    <3>4. part(next[d])[next[d]] = part(d)[next[d]]
      BY <1>1, <2>1, <2>2, <3>1, <3>3
    <3>5. QED
      BY <3>2, <3>4
  <2> HIDE DEF whole
  <2>4. QED
    BY <2>1, <2>2, <2>3 DEF Makes
<1>5. whole \in [D -> Seq(R)]
  BY <1>4
<1> HIDE DEF whole
<1>6. QED
  BY <1>4, <1>5

(* A blank text strips to nothing, any other from its first letter to its  *)
(* last.                                                                   *)
Trims(t, i, j) ==
  /\ i \in 1..Len(t) /\ j \in 1..Len(t)
  /\ ~Blank(t[i]) /\ ~Blank(t[j])
  /\ \A k \in 1..Len(t) : ~Blank(t[k]) => i <= k /\ k <= j

AllBlank(t) == \A k \in 1..Len(t) : Blank(t[k])

LEMMA BlankStrips ==
  ASSUME NEW A, NEW t \in Seq(A), AllBlank(t)
  PROVE  Strip(t) = <<>> /\ StripStart(t) = <<>>
BY DEF AllBlank, Strip, StripStart

LEMMA InkTrims ==
  ASSUME NEW A, NEW t \in Seq(A), ~AllBlank(t)
  PROVE  \E i, j \in 1..Len(t) : Trims(t, i, j)
<1> DEFINE inked == {i \in 1..Len(t) : ~Blank(t[i])}
<1>1. inked # {} /\ inked \subseteq 1..Len(t) /\ Len(t) \in Int /\ 1 \in Int
  BY DEF AllBlank
<1>2. \A k \in 1..Len(t) : k \in inked <=> ~Blank(t[k])
  OBVIOUS
<1> HIDE DEF inked
<1>3. /\ Min(inked) \in inked /\ \A k \in inked : Min(inked) <= k
      /\ Max(inked) \in inked /\ \A k \in inked : k <= Max(inked)
  BY <1>1, Extremes
<1>4. Trims(t, Min(inked), Max(inked))
  BY <1>1, <1>2, <1>3 DEF Trims
<1>5. QED
  BY <1>1, <1>3, <1>4

LEMMA TrimsStrip ==
  ASSUME NEW A, NEW t \in Seq(A), NEW i, NEW j, Trims(t, i, j)
  PROVE  Strip(t) = SubSeq(t, i, j) /\ StripStart(t) = SubSeq(t, i, Len(t))
<1> DEFINE inked == {k \in DOMAIN t : ~Blank(t[k])}
<1>1. /\ inked \subseteq 1..Len(t) /\ Len(t) \in Int /\ 1 \in Int
      /\ i \in inked /\ j \in inked /\ \A k \in inked : i <= k /\ k <= j
  BY DEF Trims
<1>2. /\ Strip(t) = IF inked = {} THEN <<>> ELSE SubSeq(t, Min(inked), Max(inked))
      /\ StripStart(t) = IF inked = {} THEN <<>> ELSE SubSeq(t, Min(inked), Len(t))
  BY DEF Strip, StripStart
<1> HIDE DEF inked
<1>3. inked # {}
  BY <1>1
<1>4. /\ Min(inked) \in inked /\ \A k \in inked : Min(inked) <= k
      /\ Max(inked) \in inked /\ \A k \in inked : k <= Max(inked)
  BY <1>1, <1>3, Extremes
<1>5. Min(inked) = i /\ Max(inked) = j
  <2>1. Min(inked) <= i /\ i <= Min(inked) /\ Max(inked) <= j /\ j <= Max(inked)
    BY <1>1, <1>4
  <2>2. Min(inked) \in Int /\ Max(inked) \in Int /\ i \in Int /\ j \in Int
    <3>1. \A k \in inked : k \in Int
      BY <1>1
    <3>2. QED
      BY <1>1, <1>4, <3>1
  <2>3. QED
    BY <2>1, <2>2
<1>6. QED
  BY <1>2, <1>3, <1>5

LEMMA StripShrinks ==
  ASSUME NEW A, NEW t \in Seq(A)
  PROVE  /\ Strip(t) \in Seq(A) /\ Len(Strip(t)) <= Len(t)
         /\ StripStart(t) \in Seq(A) /\ Len(StripStart(t)) <= Len(t)
<1>1. CASE AllBlank(t)
  <2>1. Strip(t) = <<>> /\ StripStart(t) = <<>>
    BY <1>1, BlankStrips
  <2>2. <<>> \in Seq(A) /\ Len(<<>>) = 0 /\ Len(t) \in Nat
    OBVIOUS
  <2>3. QED
    BY <2>1, <2>2
<1>2. CASE ~AllBlank(t)
  <2>1. PICK i, j \in 1..Len(t) : Trims(t, i, j)
    BY <1>2, InkTrims
  <2>2. i <= j
    BY <2>1 DEF Trims
  <2>3. Strip(t) = SubSeq(t, i, j) /\ StripStart(t) = SubSeq(t, i, Len(t))
    BY <2>1, TrimsStrip
  <2>4. QED
    BY <2>2, <2>3
<1>3. QED
  BY <1>1, <1>2

(* Where a text is cut: at a blank, unless there is none after its first   *)
(* character and before the limit.                                         *)
LEMMA LastIndexIs ==
  ASSUME NEW A, NEW t \in Seq(A), NEW c
  PROVE  /\ LastIndex(t, c) \in -1..(Len(t) - 1)
         /\ LastIndex(t, c) > 0 => t[LastIndex(t, c) + 1] = c
         /\ ~(LastIndex(t, c) > 0) => \A k \in 2..Len(t) : t[k] # c
<1> DEFINE S == {i - 1 : i \in {j \in DOMAIN t : t[j] = c}} \cup {-1}
<1>1. Len(t) \in Nat /\ S \subseteq -1..(Len(t) - 1) /\ S # {}
  OBVIOUS
<1>2. LastIndex(t, c) = Max(S)
  BY DEF LastIndex
<1>3. \A v \in S : v > 0 => t[v + 1] = c
  OBVIOUS
<1>4. \A k \in 1..Len(t) : t[k] = c => k - 1 \in S
  OBVIOUS
<1> HIDE DEF S
<1>5. -1 \in Int /\ Len(t) - 1 \in Int
  BY <1>1
<1>6. Max(S) \in S /\ \A k \in S : k <= Max(S)
  BY <1>1, <1>5, Extremes
<1> DEFINE v == Max(S)
<1> HIDE DEF v
<1>7. v \in -1..(Len(t) - 1) /\ v \in S /\ \A k \in S : k <= v
  BY <1>1, <1>6 DEF v
<1>8. ~(v > 0) => \A k \in 2..Len(t) : t[k] # c
  BY <1>1, <1>4, <1>7
<1>9. QED
  BY <1>2, <1>3, <1>7, <1>8 DEF v

LEMMA CutIs ==
  ASSUME NEW A, NEW t \in Seq(A), NEW limit \in Nat \ {0}, limit < Len(t)
  PROVE  /\ Cut(t, limit) \in 1..limit
         /\ \/ Blank(t[Cut(t, limit) + 1])
            \/ Cut(t, limit) = limit /\ \A k \in 2..limit : ~Blank(t[k])
<1> DEFINE window == SubSeq(t, 1, limit)
           line == LastIndex(window, "\n")
           word == LastIndex(window, " ")
<1>1. /\ window \in Seq(A) /\ Len(window) = limit
      /\ \A k \in 1..limit : window[k] = t[k]
  OBVIOUS
<1>2. Cut(t, limit) = IF line > 0 THEN line ELSE IF word > 0 THEN word ELSE limit
  BY DEF Cut
<1> HIDE DEF window
<1>3. /\ line \in -1..(limit - 1)
      /\ line > 0 => window[line + 1] = "\n"
      /\ ~(line > 0) => \A k \in 2..limit : window[k] # "\n"
  BY <1>1, LastIndexIs
<1>4. /\ word \in -1..(limit - 1)
      /\ word > 0 => window[word + 1] = " "
      /\ ~(word > 0) => \A k \in 2..limit : window[k] # " "
  BY <1>1, LastIndexIs
<1> HIDE DEF line, word
<1>5. CASE line > 0
  <2>1. line + 1 \in 1..limit /\ Cut(t, limit) = line /\ line \in 1..limit
    BY <1>2, <1>3, <1>5
  <2>2. t[line + 1] = "\n"
    BY <1>1, <1>3, <1>5, <2>1
  <2>3. QED
    BY <2>1, <2>2 DEF Blank
<1>6. CASE ~(line > 0) /\ word > 0
  <2>1. word \in -1..(limit - 1) /\ word > 0
    BY <1>4, <1>6
  <2>2. word + 1 \in 1..limit /\ word \in 1..limit
    BY <2>1
  <2>3. Cut(t, limit) = word
    BY <1>2, <1>6
  <2>4. t[word + 1] = " "
    BY <1>1, <1>4, <1>6, <2>2
  <2>5. QED
    BY <2>2, <2>3, <2>4 DEF Blank
<1>7. CASE ~(line > 0) /\ ~(word > 0)
  <2>1. Cut(t, limit) = limit /\ limit \in 1..limit
    BY <1>2, <1>7
  <2>2. ASSUME NEW k \in 2..limit PROVE ~Blank(t[k])
    <3>1. k \in 1..limit
      OBVIOUS
    <3>2. window[k] # "\n"
      BY <1>3, <1>7
    <3>3. window[k] # " "
      BY <1>4, <1>7
    <3>4. QED
      BY <1>1, <3>1, <3>2, <3>3 DEF Blank
  <2>3. QED
    BY <2>1, <2>2
<1>8. QED
  BY <1>5, <1>6, <1>7

Fitting(limit) == {p \in Seq(Char) : Len(p) \in 1..limit}

(* The loop of chunk_text: one that goes on, what it leaves, what it adds. *)
PassOn(limit) == {t \in Seq(Char) : limit < Len(Strip(t))}

PassLeaves(limit) ==
  [t \in Seq(Char) |->
     IF t \in PassOn(limit) THEN SubSeq(Strip(t), Cut(Strip(t), limit) + 1, Len(Strip(t)))
     ELSE t]

Piece(p) == IF p = <<>> THEN <<>> ELSE <<p>>

PassAdds(limit) ==
  [t \in Seq(Char) |->
     IF t \in PassOn(limit) THEN Piece(Strip(SubSeq(Strip(t), 1, Cut(Strip(t), limit))))
     ELSE Piece(Strip(t))]

Cutter(f, limit) ==
  \A t \in Seq(Char) : f[t] \in Seq(Fitting(limit)) /\ f[t] = Pass(f, t, limit)

LEMMA PassMakes ==
  ASSUME NEW f, NEW t \in Seq(Char), NEW limit \in Nat \ {0}
  PROVE  f[t] = Pass(f, t, limit)
           <=> Makes(f, t, PassOn(limit), PassLeaves(limit), PassAdds(limit))
<1>1. Strip(t) \in Seq(Char) /\ Len(Strip(t)) \in Nat
  BY StripShrinks
<1>2. CASE t \in PassOn(limit)
  <2>1. ~(Len(Strip(t)) <= limit)
    BY <1>1, <1>2 DEF PassOn
  <2>2. Pass(f, t, limit) = PassAdds(limit)[t] \o f[PassLeaves(limit)[t]]
    BY <1>2, <2>1 DEF Pass, PassAdds, PassLeaves, Piece
  <2>3. QED
    BY <1>2, <2>2 DEF Makes
<1>3. CASE t \notin PassOn(limit)
  <2>1. Len(Strip(t)) <= limit
    BY <1>1, <1>3 DEF PassOn
  <2>2. Pass(f, t, limit) = PassAdds(limit)[t]
    BY <1>3, <2>1 DEF Pass, PassAdds, Piece
  <2>3. QED
    BY <1>3, <2>2 DEF Makes
<1>4. QED
  BY <1>2, <1>3

LEMMA PassTyped ==
  ASSUME NEW limit \in Nat \ {0}, NEW t \in Seq(Char)
  PROVE  /\ PassLeaves(limit)[t] \in Seq(Char)
         /\ PassAdds(limit)[t] \in Seq(Fitting(limit))
         /\ t \in PassOn(limit) => Len(PassLeaves(limit)[t]) < Len(t)
<1> DEFINE r == Strip(t)
           cut == Cut(r, limit)
<1>1. r \in Seq(Char) /\ Len(r) \in Nat /\ Len(r) <= Len(t)
  BY StripShrinks
<1>2. /\ t \in PassOn(limit) => PassLeaves(limit)[t] = SubSeq(r, cut + 1, Len(r))
      /\ t \notin PassOn(limit) => PassLeaves(limit)[t] = t
      /\ t \in PassOn(limit) => PassAdds(limit)[t] = Piece(Strip(SubSeq(r, 1, cut)))
      /\ t \notin PassOn(limit) => PassAdds(limit)[t] = Piece(r)
      /\ t \in PassOn(limit) <=> limit < Len(r)
  BY DEF PassLeaves, PassAdds, PassOn
<1>3. \A p \in Seq(Char) : Len(p) <= limit => Piece(p) \in Seq(Fitting(limit))
  <2>1. TAKE p \in Seq(Char)
  <2>2. HAVE Len(p) <= limit
  <2>3. p # <<>> => p \in Fitting(limit)
    BY <2>2 DEF Fitting
  <2>4. QED
    BY <2>3 DEF Piece
<1> HIDE DEF r
<1>4. CASE t \in PassOn(limit)
  <2>1. cut \in 1..limit /\ limit < Len(r)
    BY <1>1, <1>2, <1>4, CutIs
  <2> HIDE DEF cut
  <2>2. SubSeq(r, 1, cut) \in Seq(Char) /\ Len(SubSeq(r, 1, cut)) = cut
    BY <1>1, <2>1
  <2> DEFINE p == SubSeq(r, 1, cut)
  <2>3. Strip(p) \in Seq(Char) /\ Len(Strip(p)) <= cut
    BY <2>2, StripShrinks
  <2>4. Piece(Strip(p)) \in Seq(Fitting(limit))
    BY <1>3, <2>1, <2>3
  <2>5. SubSeq(r, cut + 1, Len(r)) \in Seq(Char) /\ Len(SubSeq(r, cut + 1, Len(r))) < Len(t)
    BY <1>1, <2>1
  <2>6. QED
    BY <1>2, <1>4, <2>4, <2>5
<1>5. CASE t \notin PassOn(limit)
  <2>1. Piece(r) \in Seq(Fitting(limit))
    BY <1>1, <1>2, <1>3, <1>5
  <2>2. QED
    BY <1>2, <1>5, <2>1
<1>6. QED
  BY <1>4, <1>5

LEMMA PiecesByPasses ==
  ASSUME NEW limit \in Nat \ {0}
  PROVE  \E f : Cutter(f, limit) /\ \A t \in Seq(Char) : Pieces(t, limit) = f[t]
<1> DEFINE D == Seq(Char)
           size == [t \in D |-> Len(t)]
           on == PassOn(limit)
           next == PassLeaves(limit)
           out == PassAdds(limit)
           from == CHOOSE f : f = [t \in Seq(Char) |-> Pass(f, t, limit)]
<1>1. /\ size \in [D -> Nat] /\ on \in SUBSET D
      /\ next \in [D -> D] /\ out \in [D -> Seq(Fitting(limit))]
  <2>1. DOMAIN next = D /\ next = [t \in D |-> next[t]]
    BY DEF PassLeaves
  <2>2. DOMAIN out = D /\ out = [t \in D |-> out[t]]
    BY DEF PassAdds
  <2>3. on \in SUBSET D /\ size \in [D -> Nat]
    BY DEF PassOn
  <2>4. \A t \in D : next[t] \in D /\ out[t] \in Seq(Fitting(limit))
    BY PassTyped
  <2> HIDE DEF on, next, out, D
  <2>5. QED
    BY <2>1, <2>2, <2>3, <2>4
<1>2. \A t \in on : size[next[t]] < size[t]
  <2>1. TAKE t \in on
  <2>2. t \in D /\ next[t] \in D
    BY <1>1
  <2>3. Len(next[t]) < Len(t)
    BY <2>2, PassTyped
  <2>4. QED
    BY <2>2, <2>3
<1> HIDE DEF size, on, next, out
<1>3. PICK whole \in [D -> Seq(Fitting(limit))] : \A t \in D : Makes(whole, t, on, next, out)
  BY <1>1, <1>2, LoopEnds
<1>4. from = [t \in D |-> Pass(from, t, limit)]
  <2>1. \A t \in D : whole[t] = Pass(whole, t, limit)
    BY <1>3, PassMakes DEF on, next, out
  <2>2. whole = [t \in D |-> Pass(whole, t, limit)]
    BY <2>1
  <2>3. QED
    BY <2>2
<1> HIDE DEF from
<1>5. \A t \in D : from[t] = Pass(from, t, limit)
  BY <1>4
<1>6. \A t \in D : Makes(from, t, on, next, out)
  BY <1>5, PassMakes DEF on, next, out
<1>7. \A t \in D : from[t] = whole[t]
  <2>1. Shrinks(D, size, on, next)
    BY <1>1, <1>2 DEF Shrinks
  <2>2. MakesAll(from, D, on, next, out) /\ MakesAll(whole, D, on, next, out)
    BY <1>3, <1>6 DEF MakesAll
  <2> HIDE DEF D
  <2>3. QED
    BY <2>1, <2>2, LoopIsOne
<1>8. \A t \in D : from[t] \in Seq(Fitting(limit))
  BY <1>7
<1>9. \A t \in D : Pieces(t, limit) = from[t]
  BY DEF Pieces, from
<1>10. QED
  BY <1>5, <1>8, <1>9 DEF Cutter
(* The same of the composer's loop: its state is a text and an offset. *)
MarkState == Seq(Unit) \X Nat

MarkOn(limit) == {s \in MarkState : limit < Len(s[1])}

Rest(r, limit) == SubSeq(r, Cut(r, limit) + 1, Len(r))

MarkLeaves(limit) ==
  [s \in MarkState |->
     IF s \in MarkOn(limit)
       THEN <<StripStart(Rest(s[1], limit)),
              s[2] + Cut(s[1], limit) + Discarded(Rest(s[1], limit))>>
       ELSE s]

MarkAdds(limit) ==
  [s \in MarkState |-> IF s \in MarkOn(limit) THEN <<s[2] + Cut(s[1], limit)>> ELSE <<>>]

Marker(g, limit) == \A s \in MarkState : g[s] = MarkPass(g, s[1], s[2], limit)

LEMMA MarkMakes ==
  ASSUME NEW g, NEW s \in MarkState, NEW limit \in Nat \ {0}
  PROVE  g[s] = MarkPass(g, s[1], s[2], limit)
           <=> Makes(g, s, MarkOn(limit), MarkLeaves(limit), MarkAdds(limit))
<1>1. s[1] \in Seq(Unit) /\ Len(s[1]) \in Nat
  BY DEF MarkState
<1>2. CASE s \in MarkOn(limit)
  <2>1. ~(Len(s[1]) <= limit)
    BY <1>1, <1>2 DEF MarkOn
  <2>2. MarkPass(g, s[1], s[2], limit) = MarkAdds(limit)[s] \o g[MarkLeaves(limit)[s]]
    BY <1>2, <2>1 DEF MarkPass, MarkAdds, MarkLeaves, Rest
  <2>3. QED
    BY <1>2, <2>2 DEF Makes
<1>3. CASE s \notin MarkOn(limit)
  <2>1. Len(s[1]) <= limit
    BY <1>1, <1>3 DEF MarkOn
  <2>2. MarkPass(g, s[1], s[2], limit) = MarkAdds(limit)[s]
    BY <1>3, <2>1 DEF MarkPass, MarkAdds
  <2>3. QED
    BY <1>3, <2>2 DEF Makes
<1>4. QED
  BY <1>2, <1>3

LEMMA MarkTyped ==
  ASSUME NEW limit \in Nat \ {0}, NEW s \in MarkState
  PROVE  /\ MarkLeaves(limit)[s] \in MarkState
         /\ MarkAdds(limit)[s] \in Seq(Nat)
         /\ s \in MarkOn(limit) => Len(MarkLeaves(limit)[s][1]) < Len(s[1])
<1>1. CASE s \in MarkOn(limit)
  <2> DEFINE r == s[1]
             cut == Cut(r, limit)
             rest == Rest(r, limit)
             left == StripStart(rest)
             gone == Discarded(rest)
  <2>1. r \in Seq(Unit) /\ Len(r) \in Nat /\ limit < Len(r) /\ s[2] \in Nat
    BY <1>1 DEF MarkOn, MarkState
  <2>2. MarkLeaves(limit)[s] = <<left, s[2] + cut + gone>> /\ MarkAdds(limit)[s] = <<s[2] + cut>>
    BY <1>1 DEF MarkLeaves, MarkAdds
  <2> HIDE DEF r
  <2>3. cut \in 1..limit
    BY <2>1, CutIs
  <2> HIDE DEF cut
  <2>4. rest \in Seq(Unit) /\ Len(rest) = Len(r) - cut
    BY <2>1, <2>3 DEF Rest, cut
  <2> HIDE DEF rest
  <2>5. left \in Seq(Unit) /\ Len(left) <= Len(rest)
    BY <2>4, StripShrinks
  <2>6. gone = Len(rest) - Len(left)
    BY DEF Discarded
  <2> HIDE DEF left, gone
  <2>7. gone \in Nat /\ Len(left) < Len(r)
    BY <2>1, <2>3, <2>4, <2>5, <2>6
  <2>8. s[2] + cut + gone \in Nat /\ s[2] + cut \in Nat
    BY <2>1, <2>3, <2>7
  <2>9. <<left, s[2] + cut + gone>> \in MarkState /\ <<left, s[2] + cut + gone>>[1] = left
    BY <2>5, <2>8 DEF MarkState
  <2>10. <<s[2] + cut>> \in Seq(Nat)
    BY <2>8
  <2>11. QED
    BY <2>2, <2>7, <2>9, <2>10 DEF r
<1>2. CASE s \notin MarkOn(limit)
  <2>1. MarkLeaves(limit)[s] = s /\ MarkAdds(limit)[s] = <<>>
    BY <1>2 DEF MarkLeaves, MarkAdds
  <2>2. <<>> \in Seq(Nat)
    OBVIOUS
  <2>3. QED
    BY <1>2, <2>1, <2>2
<1>3. QED
  BY <1>1, <1>2

LEMMA MarksByPasses ==
  ASSUME NEW limit \in Nat \ {0}
  PROVE  \E g : /\ Marker(g, limit)
                /\ \A t : ChunkBoundaries(t, limit) = g[<<Strip(Utf16[t]), 0>>]
<1> DEFINE D == MarkState
           size == [s \in D |-> Len(s[1])]
           on == MarkOn(limit)
           next == MarkLeaves(limit)
           out == MarkAdds(limit)
           from == CHOOSE g : g = [s \in Seq(Unit) \X Nat |-> MarkPass(g, s[1], s[2], limit)]
<1>1. /\ size \in [D -> Nat] /\ on \in SUBSET D
      /\ next \in [D -> D] /\ out \in [D -> Seq(Nat)]
  <2>1. DOMAIN next = D /\ next = [t \in D |-> next[t]]
    BY DEF MarkLeaves
  <2>2. DOMAIN out = D /\ out = [t \in D |-> out[t]]
    BY DEF MarkAdds
  <2>3. on \in SUBSET D /\ size \in [D -> Nat]
    BY DEF MarkOn, MarkState
  <2>4. \A t \in D : next[t] \in D /\ out[t] \in Seq(Nat)
    BY MarkTyped
  <2> HIDE DEF on, next, out, D
  <2>5. QED
    BY <2>1, <2>2, <2>3, <2>4
<1>2. \A t \in on : size[next[t]] < size[t]
  <2>1. TAKE t \in on
  <2>2. t \in D /\ next[t] \in D
    BY <1>1
  <2>3. Len(next[t][1]) < Len(t[1])
    BY <2>2, MarkTyped
  <2>4. QED
    BY <2>2, <2>3
<1> HIDE DEF size, on, next, out
<1>3. PICK whole \in [D -> Seq(Nat)] : \A t \in D : Makes(whole, t, on, next, out)
  BY <1>1, <1>2, LoopEnds
<1>4. from = [s \in D |-> MarkPass(from, s[1], s[2], limit)]
  <2>1. \A s \in D : whole[s] = MarkPass(whole, s[1], s[2], limit)
    BY <1>3, MarkMakes DEF on, next, out
  <2>2. whole = [s \in Seq(Unit) \X Nat |-> MarkPass(whole, s[1], s[2], limit)]
    BY <2>1 DEF MarkState
  <2>3. QED
    BY <2>2 DEF MarkState
<1>5. \A t : ChunkBoundaries(t, limit) = from[<<Strip(Utf16[t]), 0>>]
  BY DEF ChunkBoundaries
<1> HIDE DEF from
<1>6. Marker(from, limit)
  BY <1>4 DEF Marker
<1>7. QED
  BY <1>5, <1>6

(* Text in the basic plane is as long for JavaScript as for Python. *)
Basic == Char \ {"emoji"}

LEMMA Utf16Same ==
  ASSUME NEW t \in Seq(Basic)
  PROVE  Utf16[t] = t
<1> DEFINE D == Seq(Char)
           units(c) == IF c = "emoji" THEN <<"high", "low">> ELSE <<c>>
           size == [u \in D |-> Len(u)]
           on == {u \in D : u # <<>>}
           next == [u \in D |-> IF u = <<>> THEN u ELSE Tail(u)]
           out == [u \in D |-> IF u = <<>> THEN <<>> ELSE units(u[1])]
           eq(f, u) == IF u = <<>> THEN <<>>
                       ELSE (IF u[1] = "emoji" THEN <<"high", "low">> ELSE <<u[1]>>) \o f[Tail(u)]
<1>1. /\ size \in [D -> Nat] /\ on \in SUBSET D
      /\ next \in [D -> D] /\ out \in [D -> Seq(Unit)]
  <2>1. ASSUME NEW c \in Char PROVE units(c) \in Seq(Unit)
    <3>1. CASE c = "emoji"
      <4>1. "high" \in Unit /\ "low" \in Unit
        BY DEF Unit
      <4>2. <<"high", "low">> \in Seq(Unit)
        BY <4>1
      <4>3. QED
        BY <3>1, <4>2
    <3>2. CASE c # "emoji"
      <4>1. c \in Unit
        BY <3>2 DEF Char, Unit
      <4>2. QED
        BY <3>2, <4>1
    <3>3. QED
      BY <3>1, <3>2
  <2>2. <<>> \in Seq(Unit)
    OBVIOUS
  <2>3. \A u \in D : u # <<>> => u[1] \in Char /\ Tail(u) \in D
    OBVIOUS
  <2> HIDE DEF units
  <2>4. \A u \in D : (IF u = <<>> THEN <<>> ELSE units(u[1])) \in Seq(Unit)
    BY <2>1, <2>2, <2>3
  <2>5. out \in [D -> Seq(Unit)]
    BY <2>4
  <2>6. QED
    BY <2>3, <2>5
<1>2. \A u \in on : size[next[u]] < size[u]
  OBVIOUS
<1>3. \A f : \A u \in D : eq(f, u) = IF u \in on THEN out[u] \o f[next[u]] ELSE out[u]
  OBVIOUS
<1> HIDE DEF size, on, next, out
<1>4. PICK f \in [D -> Seq(Unit)] : \A u \in D : Makes(f, u, on, next, out)
  BY <1>1, <1>2, LoopEnds
<1>5. f = [u \in D |-> eq(f, u)]
  <2>1. \A u \in D : f[u] = IF u \in on THEN out[u] \o f[next[u]] ELSE out[u]
    BY <1>4 DEF Makes
  <2>2. \A u \in D : eq(f, u) = IF u \in on THEN out[u] \o f[next[u]] ELSE out[u]
    BY <1>3
  <2> HIDE DEF eq
  <2>3. \A u \in D : f[u] = eq(f, u)
    BY <2>1, <2>2
  <2>4. QED
    BY <2>3
<1>6. Utf16 = [u \in D |-> eq(Utf16, u)]
  BY <1>5 DEF Utf16
<1> DEFINE bad == {k \in Nat : \E u \in Seq(Basic) : Len(u) = k /\ Utf16[u] # u}
<1>7. SUFFICES ASSUME bad # {} PROVE FALSE
  <2>1. Len(t) \in Nat
    OBVIOUS
  <2>2. QED
    BY <2>1
<1>8. PICK k \in bad : \A j \in bad : k <= j
  BY <1>7, Least
<1>9. PICK u \in Seq(Basic) : Len(u) = k /\ Utf16[u] # u
  BY <1>8
<1>10. u \in D /\ \A i \in 1..Len(u) : u[i] \in Basic
  BY DEF Basic
<1>11. Utf16[u] = eq(Utf16, u)
  BY <1>6, <1>10
<1>12. u # <<>>
  BY <1>9, <1>11
<1>13. /\ u[1] \in Basic /\ u[1] # "emoji" /\ Tail(u) \in Seq(Basic)
       /\ Len(Tail(u)) = k - 1 /\ k - 1 \in Nat /\ k - 1 < k
  BY <1>9, <1>12 DEF Basic
<1>14. Utf16[Tail(u)] = Tail(u)
  <2>1. k - 1 \notin bad
    BY <1>8, <1>13
  <2> DEFINE v == Tail(u)
  <2>2. v \in Seq(Basic) /\ Len(v) = k - 1
    BY <1>13
  <2> HIDE DEF v
  <2>3. Utf16[v] = v
    BY <1>13, <2>1, <2>2
  <2>4. QED
    BY <2>3 DEF v
<1>15. Utf16[u] = <<u[1]>> \o Tail(u)
  BY <1>11, <1>12, <1>13, <1>14
<1>16. <<u[1]>> \o Tail(u) = u
  BY <1>12
<1>17. QED
  BY <1>9, <1>15, <1>16
(* One pass by positions: of a text that ends in a letter, the part after  *)
(* `o`, which begins with one.  The piece ends at `e`, and after the cut   *)
(* and the blanks around it the next begins behind `n`.                    *)
From(w, o) == SubSeq(w, o + 1, Len(w))

Stretch(w, o, limit, cut, e, n) ==
  /\ cut \in 1..limit /\ e \in (o + 1)..(o + cut) /\ n \in (o + cut)..(Len(w) - 1)
  /\ \A k \in (e + 1)..n : Blank(w[k])
  /\ ~Blank(w[n + 1])
  /\ Blank(w[e + 1]) \/ (e = o + limit /\ \A k \in (o + 1)..e : ~Blank(w[k]))

Trimmed(w, o) ==
  /\ w \in Seq(Char) /\ o \in Nat /\ o < Len(w)
  /\ ~Blank(w[o + 1]) /\ ~Blank(w[Len(w)])

LEMMA SameText ==
  ASSUME NEW A, NEW p \in Seq(A), NEW q \in Seq(A), Len(p) = Len(q),
         \A k \in 1..Len(p) : p[k] = q[k]
  PROVE  p = q
OBVIOUS

LEMMA SubOfSub ==
  ASSUME NEW A, NEW w \in Seq(A), NEW o \in Nat, NEW m \in Nat, m <= Len(w), o <= m,
         NEW x \in Nat, NEW y \in Nat, 1 <= x, x <= y + 1, y <= m - o
  PROVE  SubSeq(SubSeq(w, o + 1, m), x, y) = SubSeq(w, o + x, o + y)
<1> DEFINE r == SubSeq(w, o + 1, m)
           p == SubSeq(r, x, y)
           q == SubSeq(w, o + x, o + y)
<1>1. r \in Seq(A) /\ Len(r) = m - o /\ \A k \in 1..(m - o) : r[k] = w[o + k]
  OBVIOUS
<1>2. q \in Seq(A) /\ Len(q) = y - x + 1 /\ \A k \in 1..(y - x + 1) : q[k] = w[o + x + k - 1]
  OBVIOUS
<1> HIDE DEF r
<1>3. p \in Seq(A) /\ Len(p) = y - x + 1 /\ \A k \in 1..(y - x + 1) : p[k] = r[x + k - 1]
  BY <1>1
<1> HIDE DEF p, q
<1>4. \A k \in 1..(y - x + 1) : p[k] = q[k]
  <2>1. TAKE k \in 1..(y - x + 1)
  <2>2. x + k - 1 \in 1..(m - o) /\ o + (x + k - 1) = o + x + k - 1
    OBVIOUS
  <2>3. QED
    BY <1>1, <1>2, <1>3, <2>2
<1>5. p = q
  <2>1. Len(p) = Len(q) /\ \A k \in 1..Len(p) : p[k] = q[k]
    BY <1>2, <1>3, <1>4
  <2>2. QED
    BY <1>2, <1>3, <2>1, SameText
<1>6. QED
  BY <1>5 DEF p, q, r

LEMMA FromIs ==
  ASSUME NEW A, NEW w \in Seq(A), NEW o \in Nat, o < Len(w)
  PROVE  /\ From(w, o) \in Seq(A) /\ Len(From(w, o)) = Len(w) - o
         /\ \A k \in 1..(Len(w) - o) : From(w, o)[k] = w[o + k]
BY DEF From

LEMMA FromStrips ==
  ASSUME NEW w, NEW o, Trimmed(w, o)
  PROVE  Strip(From(w, o)) = From(w, o) /\ StripStart(From(w, o)) = From(w, o)
<1> DEFINE r == From(w, o)
           m == Len(w) - o
<1>1. w \in Seq(Char) /\ o \in Nat /\ o < Len(w) /\ Len(w) \in Nat
  BY DEF Trimmed
<1>2. r \in Seq(Char) /\ Len(r) = m /\ \A k \in 1..m : r[k] = w[o + k]
  BY <1>1, FromIs
<1>3. o + m = Len(w) /\ 1 \in 1..m /\ m \in 1..m
  BY <1>1
<1>4. r[1] = w[o + 1] /\ r[m] = w[Len(w)]
  BY <1>2, <1>3
<1> HIDE DEF r, m
<1>5. Trims(r, 1, m)
  BY <1>2, <1>3, <1>4 DEF Trims, Trimmed
<1>6. Strip(r) = SubSeq(r, 1, m) /\ StripStart(r) = SubSeq(r, 1, Len(r))
  BY <1>2, <1>5, TrimsStrip
<1>7. SubSeq(r, 1, m) = r
  BY <1>2
<1>8. QED
  BY <1>2, <1>6, <1>7 DEF r

PassesBy(w, o, limit, e, n) ==
  LET r == From(w, o)
      cut == Cut(r, limit)
  IN /\ Stretch(w, o, limit, cut, e, n)
     /\ Strip(SubSeq(r, 1, cut)) = SubSeq(w, o + 1, e)
     /\ Strip(Rest(r, limit)) = From(w, n) /\ StripStart(Rest(r, limit)) = From(w, n)
     /\ o + cut + Discarded(Rest(r, limit)) = n

LEMMA OnePass ==
  ASSUME NEW w, NEW o, Trimmed(w, o), NEW limit \in Nat \ {0}, limit < Len(w) - o
  PROVE  \E e, n \in Nat : PassesBy(w, o, limit, e, n)
<1> DEFINE r == From(w, o)
           m == Len(w) - o
           cut == Cut(r, limit)
           p == SubSeq(r, 1, cut)
           q == Rest(r, limit)
<1>1. /\ w \in Seq(Char) /\ o \in Nat /\ o < Len(w) /\ Len(w) \in Nat
      /\ ~Blank(w[o + 1]) /\ ~Blank(w[Len(w)])
  BY DEF Trimmed
<1>2. r \in Seq(Char) /\ Len(r) = m /\ \A k \in 1..m : r[k] = w[o + k]
  BY <1>1, FromIs
<1>3. m \in Nat /\ o + m = Len(w) /\ limit < m
  BY <1>1
<1> HIDE DEF r, m
<1>4. /\ cut \in 1..limit
      /\ Blank(r[cut + 1]) \/ (cut = limit /\ \A k \in 2..limit : ~Blank(r[k]))
  BY <1>2, <1>3, CutIs
<1> HIDE DEF cut
<1>5. p \in Seq(Char) /\ Len(p) = cut /\ \A k \in 1..cut : p[k] = w[o + k]
  <2>1. p \in Seq(Char) /\ Len(p) = cut /\ \A k \in 1..cut : p[k] = r[k]
    BY <1>2, <1>3, <1>4
  <2>2. \A k \in 1..cut : k \in 1..m
    BY <1>3, <1>4
  <2>3. QED
    BY <1>2, <2>1, <2>2
<1>6. q \in Seq(Char) /\ Len(q) = m - cut /\ \A k \in 1..(m - cut) : q[k] = w[o + cut + k]
  <2>1. q \in Seq(Char) /\ Len(q) = m - cut /\ \A k \in 1..(m - cut) : q[k] = r[cut + k]
    <3>1. q = SubSeq(r, cut + 1, m)
      BY <1>2 DEF Rest, cut
    <3> HIDE DEF q
    <3>2. QED
      BY <1>2, <1>3, <1>4, <3>1
  <2>2. \A k \in 1..(m - cut) : cut + k \in 1..m /\ o + (cut + k) = o + cut + k
    BY <1>1, <1>3, <1>4
  <2>3. QED
    BY <1>2, <2>1, <2>2
<1>7. SubSeq(r, 1, cut) = p /\ q = SubSeq(w, o + cut + 1, Len(w))
  <2>1. SubSeq(SubSeq(w, o + 1, Len(w)), cut + 1, m) = SubSeq(w, o + (cut + 1), o + m)
    BY <1>1, <1>3, <1>4, SubOfSub
  <2>2. o + (cut + 1) = o + cut + 1
    BY <1>1, <1>4
  <2>3. q = SubSeq(SubSeq(w, o + 1, Len(w)), cut + 1, m)
    BY <1>2 DEF Rest, cut, r, From
  <2>4. QED
    BY <1>3, <2>1, <2>2, <2>3
<1> HIDE DEF p, q
<1>8. PICK i, j \in 1..cut : Trims(p, i, j)
  <2>1. ~AllBlank(p)
    BY <1>1, <1>4, <1>5 DEF AllBlank
  <2>2. QED
    BY <1>5, <2>1, InkTrims
<1>9. i = 1
  <2>1. 1 \in 1..Len(p) /\ p[1] = w[o + 1]
    BY <1>4, <1>5
  <2>2. i <= 1
    BY <1>1, <2>1, <1>8 DEF Trims
  <2>3. QED
    BY <2>2
<1>10. PICK a, b \in 1..(m - cut) : Trims(q, a, b)
  <2>1. m - cut \in 1..Len(q) /\ q[m - cut] = w[Len(w)]
    <3>1. m - cut \in 1..(m - cut) /\ o + cut + (m - cut) = Len(w)
      BY <1>1, <1>3, <1>4
    <3>2. QED
      BY <1>6, <3>1
  <2>2. ~AllBlank(q)
    BY <1>1, <2>1 DEF AllBlank
  <2>3. QED
    BY <1>6, <2>2, InkTrims
<1>11. b = m - cut
  <2>1. m - cut \in 1..Len(q) /\ q[m - cut] = w[Len(w)]
    <3>1. m - cut \in 1..(m - cut) /\ o + cut + (m - cut) = Len(w)
      BY <1>1, <1>3, <1>4
    <3>2. QED
      BY <1>6, <3>1
  <2>2. m - cut <= b
    BY <1>1, <2>1, <1>10 DEF Trims
  <2>3. QED
    BY <1>3, <1>4, <2>2
<1> DEFINE e == o + j
           n == o + cut + a - 1
<1>12. Strip(p) = SubSeq(w, o + 1, e)
  <2>1. Strip(p) = SubSeq(p, 1, j)
    BY <1>5, <1>8, <1>9, TrimsStrip
  <2>2. SubSeq(p, 1, j) = SubSeq(w, o + 1, e)
    <3>1. SubSeq(p, 1, j) \in Seq(Char) /\ Len(SubSeq(p, 1, j)) = j
          /\ \A k \in 1..j : SubSeq(p, 1, j)[k] = w[o + k]
      <4>1. \A k \in 1..j : k \in 1..cut
        BY <1>4, <1>8
      <4>2. SubSeq(p, 1, j) \in Seq(Char) /\ Len(SubSeq(p, 1, j)) = j
            /\ \A k \in 1..j : SubSeq(p, 1, j)[k] = p[k]
        BY <1>4, <1>5, <1>8
      <4>3. QED
        BY <1>5, <4>1, <4>2
    <3>2. SubSeq(w, o + 1, e) \in Seq(Char) /\ Len(SubSeq(w, o + 1, e)) = j
          /\ \A k \in 1..j : SubSeq(w, o + 1, e)[k] = w[o + k]
      <4>1. e \in Nat /\ o + 1 <= e /\ e <= Len(w) /\ e - (o + 1) + 1 = j
        BY <1>1, <1>3, <1>4, <1>8
      <4> HIDE DEF e
      <4>2. QED
        BY <1>1, <4>1
    <3> DEFINE x == SubSeq(p, 1, j)
               y == SubSeq(w, o + 1, e)
    <3> HIDE DEF x, y
    <3>3. x \in Seq(Char) /\ y \in Seq(Char) /\ Len(x) = Len(y) /\ \A k \in 1..Len(x) : x[k] = y[k]
      BY <3>1, <3>2 DEF x, y
    <3>4. x = y
      BY <3>3, SameText
    <3>5. QED
      BY <3>4 DEF x, y
  <2>3. QED
    BY <2>1, <2>2
<1>13. SubSeq(q, a, b) = From(w, n) /\ Strip(q) = From(w, n) /\ StripStart(q) = From(w, n)
  <2>1. Strip(q) = SubSeq(q, a, b) /\ StripStart(q) = SubSeq(q, a, b)
    BY <1>6, <1>10, <1>11, TrimsStrip
  <2>2. SubSeq(SubSeq(w, (o + cut) + 1, Len(w)), a, b) = SubSeq(w, (o + cut) + a, (o + cut) + b)
    BY <1>1, <1>3, <1>4, <1>10, <1>11, SubOfSub
  <2>3. (o + cut) + 1 = o + cut + 1 /\ (o + cut) + a = n + 1 /\ (o + cut) + b = Len(w)
    BY <1>1, <1>3, <1>4, <1>10, <1>11
  <2>4. QED
    BY <1>7, <2>1, <2>2, <2>3 DEF From
<1>14. n \in Nat /\ e \in Nat /\ n < Len(w) /\ n \in (o + cut)..(Len(w) - 1) /\ e \in (o + 1)..(o + cut)
  BY <1>1, <1>3, <1>4, <1>8, <1>10
<1>15. o + cut + Discarded(q) = n
  <2>1. Len(StripStart(q)) = Len(w) - n
    BY <1>1, <1>13, <1>14, FromIs
  <2>2. Discarded(q) = (m - cut) - (Len(w) - n)
    BY <1>6, <2>1 DEF Discarded
  <2>3. QED
    BY <1>1, <1>3, <1>4, <1>10, <2>2
<1>16. \A k \in (e + 1)..n : Blank(w[k])
  <2>1. TAKE k \in (e + 1)..n
  <2>2. CASE k <= o + cut
    <3>1. k - o \in 1..Len(p) /\ ~(k - o <= j) /\ o + (k - o) = k
      BY <1>1, <1>4, <1>5, <1>8, <2>2
    <3>2. Blank(p[k - o])
      BY <1>8, <3>1 DEF Trims
    <3>3. QED
      BY <1>5, <3>1, <3>2
  <2>3. CASE ~(k <= o + cut)
    <3> DEFINE l == k - (o + cut)
    <3>1. l \in 1..Len(q) /\ ~(a <= l) /\ o + cut + l = k
      BY <1>1, <1>3, <1>4, <1>6, <1>10, <2>3
    <3> HIDE DEF l
    <3>2. Blank(q[l])
      BY <1>10, <3>1 DEF Trims
    <3>3. QED
      BY <1>6, <3>1, <3>2
  <2>4. QED
    BY <2>2, <2>3
<1>17. ~Blank(w[n + 1])
  <2>1. n + 1 = o + cut + a /\ ~Blank(q[a])
    BY <1>1, <1>4, <1>10 DEF Trims
  <2>2. QED
    BY <1>6, <1>10, <2>1
<1>18. Blank(w[e + 1]) \/ (e = o + limit /\ \A k \in (o + 1)..e : ~Blank(w[k]))
  <2>1. CASE j < cut
    <3>1. e + 1 \in (e + 1)..n
      BY <1>14, <1>1, <1>4, <1>8, <2>1
    <3>2. QED
      BY <1>16, <3>1
  <2>2. CASE j = cut /\ Blank(r[cut + 1])
    <3>1. cut + 1 \in 1..m /\ o + (cut + 1) = e + 1
      BY <1>1, <1>3, <1>4, <2>2
    <3>2. QED
      BY <1>2, <2>2, <3>1
  <2>3. CASE j = cut /\ cut = limit /\ \A k \in 2..limit : ~Blank(r[k])
    <3>1. ASSUME NEW k \in (o + 1)..e PROVE ~Blank(w[k])
      <4>1. k - o \in 1..m /\ o + (k - o) = k /\ (k - o \in 2..limit \/ k = o + 1)
        BY <1>1, <1>3, <1>4, <2>3
      <4>2. QED
        BY <1>1, <1>2, <2>3, <4>1
    <3>2. QED
      BY <2>3, <3>1
  <2>4. QED
    BY <1>4, <1>8, <2>1, <2>2, <2>3
<1> HIDE DEF e, n
<1>19. Stretch(w, o, limit, cut, e, n)
  BY <1>4, <1>14, <1>16, <1>17, <1>18 DEF Stretch
<1>20. PassesBy(w, o, limit, e, n)
  BY <1>7, <1>12, <1>13, <1>15, <1>19 DEF PassesBy, r, cut, q
<1>21. QED
  BY <1>14, <1>20
(* ... and what both loops make of it. *)
LEMMA PassStrips ==
  ASSUME NEW limit \in Nat \ {0}, NEW f, Cutter(f, limit),
         NEW t \in Seq(Char), NEW u \in Seq(Char), Strip(t) = Strip(u)
  PROVE  f[t] = f[u]
<1>1. f[t] = Pass(f, t, limit) /\ f[u] = Pass(f, u, limit)
  BY DEF Cutter
<1>2. Pass(f, t, limit) = Pass(f, u, limit)
  BY DEF Pass
<1>3. QED
  BY <1>1, <1>2

LEMMA PiecesLast ==
  ASSUME NEW w, NEW o, Trimmed(w, o), NEW limit \in Nat \ {0}, Len(w) - o <= limit,
         NEW f, Cutter(f, limit)
  PROVE  f[From(w, o)] = <<From(w, o)>>
<1> DEFINE r == From(w, o)
<1>1. r \in Seq(Char) /\ Len(r) = Len(w) - o /\ r # <<>>
  BY FromIs DEF Trimmed
<1>2. f[r] = Pass(f, r, limit) /\ Strip(r) = r
  BY <1>1, FromStrips DEF Cutter
<1> HIDE DEF r
<1>3. Pass(f, r, limit) = <<r>>
  BY <1>1, <1>2 DEF Pass
<1>4. QED
  BY <1>2, <1>3 DEF r

LEMMA PassesTrimmed ==
  ASSUME NEW w, NEW o, Trimmed(w, o), NEW limit \in Nat \ {0},
         NEW e \in Nat, NEW n \in Nat, PassesBy(w, o, limit, e, n)
  PROVE  /\ Trimmed(w, n) /\ o < n
         /\ Stretch(w, o, limit, Cut(From(w, o), limit), e, n)
BY DEF Trimmed, PassesBy, Stretch

LEMMA PiecesMore ==
  ASSUME NEW w, NEW o, Trimmed(w, o), NEW limit \in Nat \ {0}, limit < Len(w) - o,
         NEW e \in Nat, NEW n \in Nat, PassesBy(w, o, limit, e, n),
         NEW f, Cutter(f, limit)
  PROVE  f[From(w, o)] = <<SubSeq(w, o + 1, e)>> \o f[From(w, n)]
<1> DEFINE r == From(w, o)
           cut == Cut(r, limit)
           q == Rest(r, limit)
           s == From(w, n)
           p == SubSeq(w, o + 1, e)
<1>1. /\ w \in Seq(Char) /\ o \in Nat /\ o < Len(w) /\ Trimmed(w, n) /\ o < n
      /\ Stretch(w, o, limit, cut, e, n)
  BY PassesTrimmed DEF Trimmed
<1>2. r \in Seq(Char) /\ Len(r) = Len(w) - o /\ Strip(r) = r
  BY <1>1, FromIs, FromStrips
<1>3. s \in Seq(Char) /\ Strip(s) = s
  BY <1>1, FromIs, FromStrips DEF Trimmed
<1>4. Strip(SubSeq(r, 1, cut)) = p /\ Strip(q) = s
  BY DEF PassesBy
<1>5. cut \in 1..limit /\ e \in (o + 1)..(o + cut) /\ e <= Len(w)
  BY <1>1 DEF Stretch
<1>6. p # <<>>
  <2>1. Len(p) = e - o
    BY <1>1, <1>5
  <2>2. QED
    BY <1>1, <1>5, <2>1
<1>7. q \in Seq(Char)
  BY <1>2, <1>5 DEF Rest
<1>8. f[r] = Pass(f, r, limit)
  BY <1>2 DEF Cutter
<1>9. Pass(f, r, limit) = <<p>> \o f[q]
  <2>1. ~(Len(r) <= limit)
    BY <1>1, <1>2
  <2>2. q = SubSeq(r, cut + 1, Len(r))
    BY DEF Rest
  <2> HIDE DEF r, cut, q, p
  <2>3. Pass(f, r, limit) = Piece(p) \o f[q]
    BY <1>2, <1>4, <2>1, <2>2 DEF Pass, Piece, cut
  <2>4. QED
    BY <1>6, <2>3 DEF Piece
<1>10. f[q] = f[s]
  BY <1>3, <1>4, <1>7, PassStrips
<1>11. QED
  BY <1>8, <1>9, <1>10

MarksFrom(g, w, o) == g[<<From(w, o), o>>]

LEMMA MarksStart ==
  ASSUME NEW w \in Seq(Unit), NEW o, Trimmed(w, o), NEW limit \in Nat \ {0},
         NEW g, Marker(g, limit)
  PROVE  /\ MarksFrom(g, w, o) = MarkPass(g, From(w, o), o, limit)
         /\ Len(From(w, o)) = Len(w) - o /\ Len(w) - o \in Nat
<1> DEFINE r == From(w, o)
           s == <<r, o>>
<1>1. o \in Nat /\ o < Len(w) /\ Len(w) \in Nat
  BY DEF Trimmed
<1>2. r \in Seq(Unit) /\ Len(r) = Len(w) - o
  BY <1>1, FromIs
<1> HIDE DEF r
<1>3. s \in MarkState /\ s[1] = r /\ s[2] = o
  BY <1>1, <1>2 DEF MarkState
<1> HIDE DEF s
<1>4. g[s] = MarkPass(g, r, o, limit)
  BY <1>3 DEF Marker
<1>5. QED
  BY <1>1, <1>2, <1>4 DEF r, s, MarksFrom

LEMMA MarksLast ==
  ASSUME NEW w \in Seq(Unit), NEW o, Trimmed(w, o), NEW limit \in Nat \ {0},
         Len(w) - o <= limit, NEW g, Marker(g, limit)
  PROVE  MarksFrom(g, w, o) = <<>>
<1>1. MarkPass(g, From(w, o), o, limit) = <<>>
  BY MarksStart DEF MarkPass
<1>2. QED
  BY <1>1, MarksStart

LEMMA MarksMore ==
  ASSUME NEW w \in Seq(Unit), NEW o, Trimmed(w, o), NEW limit \in Nat \ {0},
         limit < Len(w) - o, NEW e, NEW n, PassesBy(w, o, limit, e, n),
         NEW g, Marker(g, limit)
  PROVE  MarksFrom(g, w, o) = <<o + Cut(From(w, o), limit)>> \o MarksFrom(g, w, n)
<1> DEFINE r == From(w, o)
<1>1. /\ MarksFrom(g, w, o) = MarkPass(g, r, o, limit)
      /\ ~(Len(r) <= limit)
  BY MarksStart
<1>2. /\ StripStart(Rest(r, limit)) = From(w, n)
      /\ o + Cut(r, limit) + Discarded(Rest(r, limit)) = n
  BY DEF PassesBy
<1> HIDE DEF r
<1>3. MarkPass(g, r, o, limit)
        = <<o + Cut(r, limit)>> \o g[<<StripStart(Rest(r, limit)),
                                     o + Cut(r, limit) + Discarded(Rest(r, limit))>>]
  BY <1>1 DEF MarkPass, Rest
<1>4. QED
  BY <1>1, <1>2, <1>3 DEF r, MarksFrom

(* The pieces from `o` on, laid out in the text, and the marks in it. *)
Breaks(w, limit, p, last) ==
  \/ Blank(w[last + 1])
  \/ Len(p) = limit /\ \A k \in 1..limit : ~Blank(p[k])

Laid(w, o, limit, at, pieces) ==
  /\ pieces \in Seq(Seq(Char)) /\ pieces # <<>>
  /\ at \in [1..Len(pieces) -> (o + 1)..Len(w)] /\ at[1] = o + 1
  /\ \A i \in 1..Len(pieces) :
       /\ LastOf(at, pieces, i) \in at[i]..Len(w)
       /\ pieces[i] = SubSeq(w, at[i], LastOf(at, pieces, i))
  /\ \A i \in 1..(Len(pieces) - 1) :
       /\ LastOf(at, pieces, i) < at[i + 1]
       /\ Breaks(w, limit, pieces[i], LastOf(at, pieces, i))
  /\ \A k \in (o + 1)..Len(w) :
       Blank(w[k]) \/ \E i \in 1..Len(pieces) : k \in at[i]..LastOf(at, pieces, i)

Marked(at, pieces, marks) ==
  /\ marks \in Seq(Nat) /\ Len(marks) = Len(pieces) - 1
  /\ \A i \in 1..Len(marks) :
       LastOf(at, pieces, i) <= marks[i] /\ marks[i] < at[i + 1]

LEMMA LaidLast ==
  ASSUME NEW w, NEW o, Trimmed(w, o), NEW limit \in Nat \ {0}
  PROVE  LET at == [i \in 1..1 |-> o + 1] IN
         Laid(w, o, limit, at, <<From(w, o)>>) /\ Marked(at, <<From(w, o)>>, <<>>)
<1> DEFINE r == From(w, o)
           at == [i \in 1..1 |-> o + 1]
           pieces == <<r>>
<1>1. w \in Seq(Char) /\ o \in Nat /\ o < Len(w) /\ Len(w) \in Nat
  BY DEF Trimmed
<1>2. r \in Seq(Char) /\ Len(r) = Len(w) - o /\ r = SubSeq(w, o + 1, Len(w))
  BY <1>1, FromIs DEF From
<1> HIDE DEF r
<1>3. pieces \in Seq(Seq(Char)) /\ Len(pieces) = 1 /\ pieces # <<>> /\ pieces[1] = r
  BY <1>2
<1>4. at[1] = o + 1 /\ at \in [1..Len(pieces) -> (o + 1)..Len(w)]
  BY <1>1, <1>3
<1> HIDE DEF at, pieces
<1>5. LastOf(at, pieces, 1) = Len(w)
  <2>1. Len(pieces[1]) = Len(w) - o /\ at[1] = o + 1
    BY <1>2, <1>3, <1>4
  <2>2. (o + 1) + (Len(w) - o) - 1 = Len(w)
    BY <1>1
  <2>3. QED
    BY <2>1, <2>2 DEF LastOf
<1>6. \A i \in 1..Len(pieces) :
        /\ LastOf(at, pieces, i) \in at[i]..Len(w)
        /\ pieces[i] = SubSeq(w, at[i], LastOf(at, pieces, i))
  <2>1. TAKE i \in 1..Len(pieces)
  <2>2. i = 1
    BY <1>3
  <2>3. QED
    BY <1>1, <1>2, <1>3, <1>4, <1>5, <2>2
<1>7. \A k \in (o + 1)..Len(w) :
        Blank(w[k]) \/ \E i \in 1..Len(pieces) : k \in at[i]..LastOf(at, pieces, i)
  BY <1>3, <1>4, <1>5
<1>8. Laid(w, o, limit, at, pieces)
  BY <1>3, <1>4, <1>6, <1>7 DEF Laid
<1>9. Marked(at, pieces, <<>>)
  BY <1>3 DEF Marked
<1>10. QED
  BY <1>8, <1>9 DEF at, pieces, r

LEMMA LaidMore ==
  ASSUME NEW w, NEW o, Trimmed(w, o), NEW limit \in Nat \ {0},
         NEW cut, NEW e, NEW n, Stretch(w, o, limit, cut, e, n),
         NEW after, NEW rest, Laid(w, n, limit, after, rest)
  PROVE  LET pieces == <<SubSeq(w, o + 1, e)>> \o rest
             at == [i \in 1..(Len(rest) + 1) |-> IF i = 1 THEN o + 1 ELSE after[i - 1]]
         IN /\ Laid(w, o, limit, at, pieces)
            /\ \A marks : Marked(after, rest, marks) => Marked(at, pieces, <<o + cut>> \o marks)
<1> DEFINE p == SubSeq(w, o + 1, e)
           pieces == <<p>> \o rest
           at == [i \in 1..(Len(rest) + 1) |-> IF i = 1 THEN o + 1 ELSE after[i - 1]]
           m == Len(rest)
<1>1. w \in Seq(Char) /\ o \in Nat /\ o < Len(w) /\ Len(w) \in Nat
  BY DEF Trimmed
<1>2. /\ cut \in 1..limit /\ e \in (o + 1)..(o + cut) /\ n \in (o + cut)..(Len(w) - 1)
      /\ cut \in Int /\ e \in Int /\ n \in Int
      /\ \A k \in (e + 1)..n : Blank(w[k])
  BY <1>1 DEF Stretch
<1>3. /\ rest \in Seq(Seq(Char)) /\ m \in Nat \ {0}
      /\ after \in [1..m -> (n + 1)..Len(w)] /\ after[1] = n + 1
  BY DEF Laid
<1>4. p \in Seq(Char) /\ Len(p) = e - o /\ \A k \in 1..(e - o) : p[k] = w[o + k]
  <2>1. e \in (o + 1)..Len(w) /\ e - (o + 1) + 1 = e - o
    BY <1>1, <1>2
  <2>2. QED
    BY <1>1, <2>1
<1>5. /\ pieces \in Seq(Seq(Char)) /\ Len(pieces) = m + 1 /\ pieces # <<>> /\ pieces[1] = p
      /\ \A i \in 1..m : pieces[i + 1] = rest[i]
  <2> HIDE DEF p
  <2>1. <<p>> \in Seq(Seq(Char)) /\ Len(<<p>>) = 1
    BY <1>4
  <2>2. QED
    BY <1>3, <2>1
<1>6. at[1] = o + 1 /\ \A i \in 1..m : at[i + 1] = after[i]
  BY <1>3
<1>7. at \in [1..(m + 1) -> (o + 1)..Len(w)]
  <2>1. \A i \in 1..m : after[i] \in (o + 1)..Len(w)
    <3>1. \A x \in (n + 1)..Len(w) : x \in (o + 1)..Len(w)
      BY <1>1, <1>2
    <3> HIDE DEF m
    <3>2. \A i \in 1..m : after[i] \in (n + 1)..Len(w)
      BY <1>3
    <3>3. QED
      BY <3>1, <3>2
  <2>2. o + 1 \in (o + 1)..Len(w)
    BY <1>1
  <2> HIDE DEF m
  <2>3. \A i \in 1..(m + 1) : i = 1 \/ i - 1 \in 1..m
    BY <1>3
  <2>4. QED
    BY <2>1, <2>2, <2>3 DEF m
<1> HIDE DEF p, pieces, at, m
<1>8. LastOf(at, pieces, 1) = e
  <2>1. Len(pieces[1]) = e - o /\ at[1] = o + 1
    BY <1>4, <1>5, <1>6
  <2>2. (o + 1) + (e - o) - 1 = e
    BY <1>1, <1>2
  <2>3. QED
    BY <2>1, <2>2 DEF LastOf
<1>9. \A i \in 1..m : LastOf(at, pieces, i + 1) = LastOf(after, rest, i)
  BY <1>5, <1>6 DEF LastOf
<1>10. /\ \A i \in 1..m : /\ LastOf(after, rest, i) \in after[i]..Len(w)
                          /\ rest[i] = SubSeq(w, after[i], LastOf(after, rest, i))
       /\ \A i \in 1..(m - 1) : /\ LastOf(after, rest, i) < after[i + 1]
                               /\ Breaks(w, limit, rest[i], LastOf(after, rest, i))
       /\ \A k \in (n + 1)..Len(w) :
            Blank(w[k]) \/ \E i \in 1..m : k \in after[i]..LastOf(after, rest, i)
  BY DEF Laid, m
<1>11. \A i \in 1..(m + 1) : i = 1 \/ \E j \in 1..m : i = j + 1
  <2>1. TAKE i \in 1..(m + 1)
  <2>2. i = 1 \/ (i - 1 \in 1..m /\ i = (i - 1) + 1)
    BY <1>3
  <2>3. QED
    BY <2>2
<1>12. ASSUME NEW i \in 1..(m + 1)
       PROVE  /\ LastOf(at, pieces, i) \in at[i]..Len(w)
              /\ pieces[i] = SubSeq(w, at[i], LastOf(at, pieces, i))
  <2>1. CASE i = 1
    <3>1. e \in (o + 1)..Len(w)
      BY <1>1, <1>2
    <3>2. QED
      BY <1>5, <1>6, <1>8, <2>1, <3>1 DEF p
  <2>2. CASE i # 1
    <3>1. PICK j \in 1..m : i = j + 1
      BY <1>11, <2>2
    <3>2. QED
      BY <1>5, <1>6, <1>9, <1>10, <3>1
  <2>3. QED
    BY <2>1, <2>2
<1>13. ASSUME NEW i \in 1..m
       PROVE  /\ LastOf(at, pieces, i) < at[i + 1]
              /\ Breaks(w, limit, pieces[i], LastOf(at, pieces, i))
  <2>1. CASE i = 1
    <3>1. 1 \in 1..m /\ at[1 + 1] = n + 1
      BY <1>3, <1>6
    <3>2. e < n + 1
      BY <1>1, <1>2
    <3>3. Breaks(w, limit, p, e)
      <4>1. CASE Blank(w[e + 1])
        BY <4>1 DEF Breaks
      <4>2. CASE e = o + limit /\ \A k \in (o + 1)..e : ~Blank(w[k])
        <5>1. Len(p) = limit
          BY <1>1, <1>4, <4>2
        <5>2. ASSUME NEW k \in 1..limit PROVE ~Blank(p[k])
          <6>1. k \in 1..(e - o) /\ o + k \in (o + 1)..e
            BY <1>1, <4>2
          <6>2. QED
            BY <1>4, <4>2, <6>1
        <5>3. QED
          BY <5>1, <5>2 DEF Breaks
      <4>3. QED
        BY <4>1, <4>2 DEF Stretch
    <3>4. QED
      BY <1>5, <1>8, <2>1, <3>1, <3>2, <3>3
  <2>2. CASE i # 1
    <3>1. i \in 1..(m + 1)
      BY <1>3
    <3>2. PICK j \in 1..m : i = j + 1
      BY <1>11, <2>2, <3>1
    <3>3. j \in 1..(m - 1) /\ j + 1 \in 1..m
      BY <1>3, <3>2
    <3>4. QED
      BY <1>5, <1>6, <1>9, <1>10, <3>2, <3>3
  <2>3. QED
    BY <2>1, <2>2
<1>14. ASSUME NEW k \in (o + 1)..Len(w)
       PROVE  Blank(w[k]) \/ \E i \in 1..(m + 1) : k \in at[i]..LastOf(at, pieces, i)
  <2>1. CASE k <= e
    <3>1. k \in at[1]..LastOf(at, pieces, 1) /\ 1 \in 1..(m + 1)
      BY <1>1, <1>2, <1>3, <1>6, <1>8, <2>1
    <3>2. QED
      BY <3>1
  <2>2. CASE ~(k <= e) /\ k <= n
    <3>1. k \in (e + 1)..n
      BY <1>1, <1>2, <2>2
    <3>2. QED
      BY <1>2, <3>1
  <2>3. CASE ~(k <= n)
    <3>1. k \in (n + 1)..Len(w)
      BY <1>1, <1>2, <2>3
    <3>2. CASE \E i \in 1..m : k \in after[i]..LastOf(after, rest, i)
      <4>1. PICK j \in 1..m : k \in after[j]..LastOf(after, rest, j)
        BY <3>2
      <4>2. j + 1 \in 1..(m + 1) /\ k \in at[j + 1]..LastOf(at, pieces, j + 1)
        BY <1>3, <1>6, <1>9, <4>1
      <4>3. QED
        BY <4>2
    <3>3. QED
      BY <1>10, <3>1, <3>2
  <2>4. QED
    BY <2>1, <2>2, <2>3
<1>15. Laid(w, o, limit, at, pieces)
  <2>1. (m + 1) - 1 = m
    BY <1>3
  <2>2. QED
    BY <1>5, <1>6, <1>7, <1>12, <1>13, <1>14, <2>1 DEF Laid
<1>16. ASSUME NEW marks, Marked(after, rest, marks)
       PROVE  Marked(at, pieces, <<o + cut>> \o marks)
  <2> DEFINE more == <<o + cut>> \o marks
  <2>1. /\ marks \in Seq(Nat) /\ Len(marks) = m - 1
        /\ \A i \in 1..(m - 1) : LastOf(after, rest, i) <= marks[i] /\ marks[i] < after[i + 1]
    BY <1>16 DEF Marked, m
  <2>2. /\ more \in Seq(Nat) /\ Len(more) = m /\ more[1] = o + cut
        /\ \A i \in 1..(m - 1) : more[i + 1] = marks[i]
    <3>1. o + cut \in Nat
      BY <1>1, <1>2
    <3>2. <<o + cut>> \in Seq(Nat) /\ Len(<<o + cut>>) = 1
      BY <3>1
    <3>3. QED
      BY <1>3, <2>1, <3>2
  <2> HIDE DEF more
  <2>3. ASSUME NEW i \in 1..m
        PROVE  LastOf(at, pieces, i) <= more[i] /\ more[i] < at[i + 1]
    <3>1. CASE i = 1
      <4>1. 1 \in 1..m /\ at[1 + 1] = n + 1 /\ e <= o + cut /\ o + cut < n + 1
        BY <1>1, <1>2, <1>3, <1>6
      <4>2. QED
        BY <1>8, <2>2, <3>1, <4>1
    <3>2. CASE i # 1
      <4>1. i \in 1..(m + 1)
        BY <1>3
      <4>2. PICK j \in 1..m : i = j + 1
        BY <1>11, <3>2, <4>1
      <4>3. j \in 1..(m - 1) /\ j + 1 \in 1..m
        BY <1>3, <4>2
      <4>4. LastOf(at, pieces, i) = LastOf(after, rest, j) /\ more[i] = marks[j]
            /\ at[i + 1] = after[j + 1]
        BY <1>6, <1>9, <2>2, <4>2, <4>3
      <4>5. QED
        BY <2>1, <4>3, <4>4
    <3>3. QED
      BY <3>1, <3>2
  <2>4. (m + 1) - 1 = m
    BY <1>3
  <2>5. QED
    BY <1>5, <2>2, <2>3, <2>4 DEF Marked, more
<1>17. QED
  BY <1>15, <1>16 DEF at, pieces, p, m

(* All passes, from the last back to the first. *)
Lays(w, o, limit, f, g) ==
  \E at : /\ Laid(w, o, limit, at, f[From(w, o)])
          /\ w \in Seq(Unit) => Marked(at, f[From(w, o)], MarksFrom(g, w, o))

LEMMA LaysLast ==
  ASSUME NEW w, NEW o, Trimmed(w, o), NEW limit \in Nat \ {0}, Len(w) - o <= limit,
         NEW f, Cutter(f, limit), NEW g, Marker(g, limit)
  PROVE  Lays(w, o, limit, f, g)
<1>1. f[From(w, o)] = <<From(w, o)>>
  BY PiecesLast
<1>2. w \in Seq(Unit) => MarksFrom(g, w, o) = <<>>
  BY MarksLast
<1> DEFINE at == [i \in 1..1 |-> o + 1]
<1>3. Laid(w, o, limit, at, <<From(w, o)>>) /\ Marked(at, <<From(w, o)>>, <<>>)
  BY LaidLast
<1> HIDE DEF at
<1>4. QED
  BY <1>1, <1>2, <1>3 DEF Lays

LEMMA LaysMore ==
  ASSUME NEW w, NEW o, Trimmed(w, o), NEW limit \in Nat \ {0}, limit < Len(w) - o,
         NEW e \in Nat, NEW n \in Nat, PassesBy(w, o, limit, e, n),
         NEW f, Cutter(f, limit), NEW g, Marker(g, limit), Lays(w, n, limit, f, g)
  PROVE  Lays(w, o, limit, f, g)
<1> DEFINE r == From(w, o)
           cut == Cut(r, limit)
           p == SubSeq(w, o + 1, e)
           rest == f[From(w, n)]
           more == MarksFrom(g, w, n)
<1>1. Stretch(w, o, limit, cut, e, n)
  BY PassesTrimmed
<1>2. f[r] = <<p>> \o rest
  BY PiecesMore
<1>3. ASSUME w \in Seq(Unit)
      PROVE  MarksFrom(g, w, o) = <<o + cut>> \o more
  BY <1>3, MarksMore
<1>4. PICK after : Laid(w, n, limit, after, rest) /\ (w \in Seq(Unit) => Marked(after, rest, more))
  BY DEF Lays
<1> DEFINE at == [i \in 1..(Len(rest) + 1) |-> IF i = 1 THEN o + 1 ELSE after[i - 1]]
<1> HIDE DEF cut, rest, more
<1>5. /\ Laid(w, o, limit, at, <<p>> \o rest)
      /\ \A marks : Marked(after, rest, marks)
            => Marked(at, <<p>> \o rest, <<o + cut>> \o marks)
  BY <1>1, <1>4, LaidMore
<1> HIDE DEF at, p
<1>6. QED
  BY <1>2, <1>3, <1>4, <1>5 DEF Lays

LEMMA PassesLay ==
  ASSUME NEW w, NEW o, Trimmed(w, o), NEW limit \in Nat \ {0},
         NEW f, Cutter(f, limit), NEW g, Marker(g, limit)
  PROVE  Lays(w, o, limit, f, g)
<1> DEFINE bad == {k \in Nat : \E x \in Nat : x + k = Len(w) /\ Trimmed(w, x)
                                             /\ ~Lays(w, x, limit, f, g)}
<1>1. SUFFICES ASSUME bad # {} PROVE FALSE
  <2>1. Len(w) - o \in Nat /\ o \in Nat /\ o + (Len(w) - o) = Len(w)
    BY DEF Trimmed
  <2>2. QED
    BY <2>1
<1>2. PICK k \in bad : \A j \in bad : k <= j
  BY <1>1, Least
<1>3. PICK x \in Nat : x + k = Len(w) /\ Trimmed(w, x) /\ ~Lays(w, x, limit, f, g)
  BY <1>2
<1>4. x < Len(w) /\ Len(w) \in Nat /\ k \in Nat
  BY <1>2, <1>3 DEF Trimmed
<1>5. limit < Len(w) - x
  <2>1. ~(Len(w) - x <= limit)
    BY <1>3, LaysLast
  <2>2. QED
    BY <1>4, <2>1
<1>6. PICK e, n \in Nat : PassesBy(w, x, limit, e, n)
  BY <1>3, <1>5, OnePass
<1>7. Trimmed(w, n) /\ x < n
  BY <1>3, <1>6, PassesTrimmed
<1>8. Lays(w, n, limit, f, g)
  <2> DEFINE j == Len(w) - n
  <2>1. j \in Nat /\ n + j = Len(w) /\ ~(k <= j)
    BY <1>3, <1>4, <1>7 DEF Trimmed
  <2>2. j \notin bad
    BY <1>2, <2>1
  <2> HIDE DEF j
  <2>3. QED
    BY <1>7, <2>1, <2>2
<1>9. QED
  BY <1>3, <1>5, <1>6, <1>8, LaysMore

(* The whole text: between its first letter and its last. *)
LEMMA InkOfText ==
  ASSUME NEW t \in Seq(Char), NEW i, NEW j, Trims(t, i, j)
  PROVE  /\ Trimmed(SubSeq(t, 1, j), i - 1)
         /\ From(SubSeq(t, 1, j), i - 1) = Strip(t)
         /\ Strip(Strip(t)) = Strip(t)
         /\ Len(SubSeq(t, 1, j)) = j /\ \A k \in 1..j : SubSeq(t, 1, j)[k] = t[k]
         /\ i \in 1..j /\ j \in 1..Len(t)
<1> DEFINE w == SubSeq(t, 1, j)
           o == i - 1
<1>1. /\ i \in 1..j /\ j \in 1..Len(t) /\ ~Blank(t[i]) /\ ~Blank(t[j])
      /\ Len(t) \in Nat
  BY DEF Trims
<1>2. w \in Seq(Char) /\ Len(w) = j /\ \A k \in 1..j : w[k] = t[k]
  BY <1>1
<1>3. o \in Nat /\ o < j /\ o + 1 = i /\ j \in 1..j /\ j \in Nat
  BY <1>1
<1>4. From(w, o) = SubSeq(w, i, j)
  BY <1>2, <1>3 DEF From
<1>5. SubSeq(SubSeq(t, 0 + 1, j), i, j) = SubSeq(t, 0 + i, 0 + j)
  BY <1>1, SubOfSub
<1>6. SubSeq(w, i, j) = SubSeq(t, i, j)
  BY <1>1, <1>5
<1> HIDE DEF w, o
<1>7. w[o + 1] = t[i] /\ w[Len(w)] = t[j]
  BY <1>1, <1>2, <1>3
<1>8. Trimmed(w, o)
  BY <1>1, <1>2, <1>3, <1>7 DEF Trimmed
<1>9. Strip(t) = From(w, o)
  BY <1>4, <1>6, TrimsStrip
<1>10. Strip(From(w, o)) = From(w, o)
  BY <1>8, FromStrips
<1>11. QED
  BY <1>1, <1>2, <1>8, <1>9, <1>10 DEF w, o

LEMMA TextLaid ==
  ASSUME NEW t \in Seq(Char), NEW i, NEW j, Trims(t, i, j), NEW limit \in Nat \ {0},
         NEW f, Cutter(f, limit), NEW g, Marker(g, limit)
  PROVE  \E at : /\ Laid(SubSeq(t, 1, j), i - 1, limit, at, f[t])
                 /\ SubSeq(t, 1, j) \in Seq(Unit)
                      => Marked(at, f[t], MarksFrom(g, SubSeq(t, 1, j), i - 1))
<1> DEFINE w == SubSeq(t, 1, j)
           o == i - 1
<1>1. Trimmed(w, o) /\ From(w, o) = Strip(t) /\ Strip(Strip(t)) = Strip(t)
  BY InkOfText
<1>2. Strip(t) \in Seq(Char)
  BY StripShrinks
<1>3. f[From(w, o)] = f[t]
  BY <1>1, <1>2, PassStrips
<1> HIDE DEF w, o
<1>4. Lays(w, o, limit, f, g)
  BY <1>1, PassesLay
<1>5. QED
  BY <1>3, <1>4 DEF Lays, w, o

LEMMA LaidIsLayout ==
  ASSUME NEW t \in Seq(Char), NEW i, NEW j, Trims(t, i, j), NEW limit \in Nat \ {0},
         NEW at, NEW pieces, Laid(SubSeq(t, 1, j), i - 1, limit, at, pieces)
  PROVE  /\ at \in Layouts(t, pieces)
         /\ \A x \in 1..(Len(pieces) - 1) : Breaks(t, limit, pieces[x], LastOf(at, pieces, x))
<1> DEFINE w == SubSeq(t, 1, j)
           m == Len(pieces)
<1>1. /\ Len(w) = j /\ \A k \in 1..j : w[k] = t[k]
      /\ i \in 1..j /\ j \in 1..Len(t) /\ Len(t) \in Nat
  BY InkOfText
<1>2. (i - 1) + 1 = i
  BY <1>1
<1>3. /\ pieces \in Seq(Seq(Char))
      /\ at \in [1..m -> i..j]
      /\ \A x \in 1..m : /\ LastOf(at, pieces, x) \in at[x]..j
                         /\ pieces[x] = SubSeq(w, at[x], LastOf(at, pieces, x))
      /\ \A x \in 1..(m - 1) : /\ LastOf(at, pieces, x) < at[x + 1]
                               /\ Breaks(w, limit, pieces[x], LastOf(at, pieces, x))
      /\ \A k \in i..j : Blank(w[k]) \/ \E x \in 1..m : k \in at[x]..LastOf(at, pieces, x)
  BY <1>1, <1>2 DEF Laid
<1>4. DOMAIN pieces = 1..m /\ DOMAIN t = 1..Len(t) /\ m \in Nat
  BY <1>3
<1>5. at \in [DOMAIN pieces -> DOMAIN t]
  <2>1. \A k \in i..j : k \in DOMAIN t
    BY <1>1, <1>4
  <2> HIDE DEF m
  <2>2. QED
    BY <1>3, <1>4, <2>1
<1> HIDE DEF m
<1>6. ASSUME NEW x \in 1..m
      PROVE  /\ LastOf(at, pieces, x) \in DOMAIN t
             /\ pieces[x] = SubSeq(t, at[x], LastOf(at, pieces, x))
  <2> DEFINE a == at[x]
             b == LastOf(at, pieces, x)
  <2>1. a \in i..j /\ b \in a..j /\ pieces[x] = SubSeq(w, a, b)
    BY <1>3
  <2> HIDE DEF a, b
  <2>2. a \in Nat /\ b \in Nat /\ 1 <= a /\ a <= b /\ b <= j /\ j <= Len(t) /\ j \in Nat
    BY <1>1, <2>1
  <2>3. SubSeq(SubSeq(t, 0 + 1, j), a, b) = SubSeq(t, 0 + a, 0 + b)
    BY <2>2, SubOfSub
  <2>4. SubSeq(w, a, b) = SubSeq(t, a, b)
    BY <2>2, <2>3
  <2>5. b \in DOMAIN t
    BY <1>1, <1>4, <2>2
  <2>6. QED
    BY <2>1, <2>4, <2>5 DEF a, b
<1>7. ASSUME NEW k \in DOMAIN t
      PROVE  Blank(t[k]) \/ \E x \in 1..m : k \in at[x]..LastOf(at, pieces, x)
  <2>1. CASE k \in i..j
    <3>1. w[k] = t[k]
      BY <1>1, <2>1
    <3>2. QED
      BY <1>3, <2>1, <3>1
  <2>2. CASE k \notin i..j
    <3>1. k \in 1..Len(t) /\ ~(i <= k /\ k <= j)
      BY <1>1, <1>4, <2>2
    <3>2. Blank(t[k])
      BY <3>1 DEF Trims
    <3>3. QED
      BY <3>2
  <2>3. QED
    BY <2>1, <2>2
<1>8. at \in Layouts(t, pieces)
  <2>1. \A x \in 1..(m - 1) : LastOf(at, pieces, x) < at[x + 1]
    BY <1>3
  <2>2. QED
    BY <1>4, <1>5, <1>6, <1>7, <2>1 DEF Layouts, m
<1>9. ASSUME NEW x \in 1..(m - 1)
      PROVE  Breaks(t, limit, pieces[x], LastOf(at, pieces, x))
  <2> DEFINE b == LastOf(at, pieces, x)
  <2>1. Breaks(w, limit, pieces[x], b)
    BY <1>3
  <2>2. b + 1 \in 1..j
    <3>1. x \in 1..m /\ x + 1 \in 1..m
      BY <1>4
    <3>2. at[x] \in i..j /\ b \in at[x]..j /\ b < at[x + 1] /\ at[x + 1] \in i..j
      BY <1>3, <3>1
    <3>3. at[x] \in Int /\ at[x + 1] \in Int /\ b \in Int
      BY <3>2
    <3> HIDE DEF b
    <3>4. QED
      BY <1>1, <3>2, <3>3
  <2>3. w[b + 1] = t[b + 1]
    BY <1>1, <2>2
  <2>4. QED
    BY <2>1, <2>3 DEF Breaks
<1>10. QED
  BY <1>8, <1>9 DEF m

(* A blank text has no pieces, and no marks. *)
LEMMA BlankText ==
  ASSUME NEW t \in Seq(Char), AllBlank(t), NEW limit \in Nat \ {0}, NEW f, Cutter(f, limit)
  PROVE  f[t] = <<>> /\ <<>> \in Layouts(t, <<>>)
<1>1. Strip(t) = <<>>
  BY BlankStrips
<1>2. f[t] = <<>>
  <2>1. f[t] = Pass(f, t, limit)
    BY DEF Cutter
  <2>2. Len(<<>>) <= limit
    OBVIOUS
  <2>3. QED
    BY <1>1, <2>1, <2>2 DEF Pass
<1>3. DOMAIN t = 1..Len(t) /\ DOMAIN <<>> = {} /\ Len(<<>>) - 1 < 1
  OBVIOUS
<1>4. <<>> \in [DOMAIN <<>> -> DOMAIN t]
  BY <1>3
<1>5. \A k \in DOMAIN t : Blank(t[k])
  BY <1>3 DEF AllBlank
<1>6. <<>> \in Layouts(t, <<>>)
  BY <1>3, <1>4, <1>5 DEF Layouts
<1>7. QED
  BY <1>2, <1>6

(* chunk_text ends for every text and every limit, and no piece is empty   *)
(* or longer than the limit.                                               *)
THEOREM EveryPieceFits ==
  ASSUME NEW text \in Seq(Char), NEW limit \in Nat \ {0}
  PROVE  Pieces(text, limit) \in Seq(Fitting(limit))
BY PiecesByPasses DEF Cutter

(* chunk_text, for every text and every limit: it ends, its pieces fit, no *)
(* word is lost, repeated, moved, or broken without need.                  *)
THEOREM CutKeepsEveryText ==
  ASSUME NEW text \in Seq(Char), NEW limit \in Nat \ {0}
  PROVE  CutKeepsText(text, limit) /\ CutKeepsWords(text, limit)
<1> DEFINE pieces == Pieces(text, limit)
<1>1. PICK f : Cutter(f, limit) /\ \A t \in Seq(Char) : Pieces(t, limit) = f[t]
  BY PiecesByPasses
<1>2. PICK g : Marker(g, limit)
  BY MarksByPasses
<1>3. pieces = f[text] /\ pieces \in Seq(Fitting(limit))
  BY <1>1 DEF Cutter
<1>4. \A i \in DOMAIN pieces : Len(pieces[i]) \in 1..limit
  <2> HIDE DEF pieces
  <2>1. \A i \in DOMAIN pieces : pieces[i] \in Fitting(limit)
    BY <1>3
  <2>2. QED
    BY <2>1 DEF Fitting
<1>5. \E at \in Layouts(text, pieces) : \A x \in 1..(Len(pieces) - 1) :
        Breaks(text, limit, pieces[x], LastOf(at, pieces, x))
  <2> HIDE DEF pieces
  <2>1. CASE AllBlank(text)
    <3>1. pieces = <<>> /\ <<>> \in Layouts(text, pieces)
      BY <1>1, <1>3, <2>1, BlankText
    <3>2. 1..(Len(pieces) - 1) = {}
      BY <3>1
    <3>3. QED
      BY <3>1, <3>2
  <2>2. CASE ~AllBlank(text)
    <3>1. PICK i, j \in 1..Len(text) : Trims(text, i, j)
      BY <2>2, InkTrims
    <3>2. PICK at : Laid(SubSeq(text, 1, j), i - 1, limit, at, f[text])
      BY <1>1, <1>2, <3>1, TextLaid
    <3>3. QED
      BY <1>3, <3>1, <3>2, LaidIsLayout
  <2>3. QED
    BY <2>1, <2>2
<1>6. CutKeepsText(text, limit)
  BY <1>4, <1>5 DEF CutKeepsText
<1>7. CutKeepsWords(text, limit)
  BY <1>5 DEF CutKeepsWords, Breaks
<1>8. QED
  BY <1>6, <1>7

(* The composer's marks, for every plain text and every limit, are where   *)
(* chunk_text cuts.                                                        *)
THEOREM EveryPlainCutIsMarked ==
  ASSUME NEW text \in Seq(Char), Plain(text), NEW limit \in Nat \ {0}
  PROVE  MarksAreCuts(text, limit)
<1> DEFINE pieces == Pieces(text, limit)
           marks == ChunkBoundaries(text, limit)
<1>1. PICK f : Cutter(f, limit) /\ \A t \in Seq(Char) : Pieces(t, limit) = f[t]
  BY PiecesByPasses
<1>2. PICK g : Marker(g, limit) /\ \A t : ChunkBoundaries(t, limit) = g[<<Strip(Utf16[t]), 0>>]
  BY MarksByPasses
<1>3. text \in Seq(Basic) /\ text \in Seq(Unit)
  <2>1. \A k \in 1..Len(text) : text[k] \in Char /\ text[k] # "emoji"
    BY DEF Plain, Range
  <2>2. \A k \in 1..Len(text) : text[k] \in Basic /\ text[k] \in Unit
    BY <2>1 DEF Basic, Char, Unit
  <2>3. QED
    BY <2>2
<1>4. marks = g[<<Strip(text), 0>>]
  BY <1>2, <1>3, Utf16Same
<1>5. pieces = f[text]
  BY <1>1
<1>6. CASE AllBlank(text)
  <2>1. pieces = <<>> /\ <<>> \in Layouts(text, <<>>) /\ Strip(text) = <<>>
    BY <1>1, <1>5, <1>6, BlankText, BlankStrips
  <2> HIDE DEF pieces, marks
  <2>2. marks = <<>>
    <3> DEFINE s == <<Strip(text), 0>>
    <3>1. s \in MarkState /\ s[1] = <<>>
      <4>1. <<>> \in Seq(Unit) /\ 0 \in Nat
        OBVIOUS
      <4>2. QED
        BY <2>1, <4>1 DEF MarkState
    <3> HIDE DEF s
    <3>2. g[s] = MarkPass(g, s[1], s[2], limit)
      BY <1>2, <3>1 DEF Marker
    <3>3. MarkPass(g, s[1], s[2], limit) = <<>>
      BY <3>1 DEF MarkPass
    <3>4. QED
      BY <1>4, <3>2, <3>3 DEF s
  <2>3. Max({Len(pieces) - 1, 0}) = 0
    <3> DEFINE S == {Len(pieces) - 1, 0}
    <3>1. S \subseteq -1..0 /\ S # {} /\ 0 \in S /\ -1 \in Int /\ 0 \in Int
      BY <2>1
    <3> HIDE DEF S
    <3>2. Max(S) \in S /\ \A k \in S : k <= Max(S)
      BY <3>1, Extremes
    <3>3. Max(S) \in -1..0 /\ 0 <= Max(S)
      BY <3>1, <3>2
    <3>4. Max(S) = 0
      BY <3>3
    <3>5. QED
      BY <3>4 DEF S
  <2>4. QED
    BY <2>1, <2>2, <2>3 DEF MarksAreCuts, pieces, marks
<1>7. CASE ~AllBlank(text)
  <2>1. PICK i, j \in 1..Len(text) : Trims(text, i, j)
    BY <1>7, InkTrims
  <2> DEFINE w == SubSeq(text, 1, j)
  <2>2. /\ From(w, i - 1) = Strip(text) /\ i \in 1..j /\ j \in 1..Len(text)
        /\ Len(text) \in Nat
    BY <2>1, InkOfText
  <2>3. i = 1
    <3>1. 1 \in 1..Len(text) /\ text # <<>>
      BY <2>2
    <3>2. ~Blank(text[1])
      BY <3>1 DEF Plain
    <3>3. i <= 1
      BY <2>1, <3>1, <3>2 DEF Trims
    <3>4. QED
      BY <2>2, <3>3
  <2>4. MarksFrom(g, w, i - 1) = marks
    <3>1. i - 1 = 0
      BY <2>3
    <3> HIDE DEF marks, w
    <3>2. MarksFrom(g, w, 0) = g[<<From(w, 0), 0>>]
      BY DEF MarksFrom
    <3>3. QED
      BY <1>4, <2>2, <3>1, <3>2
  <2>5. w \in Seq(Unit)
    BY <1>3, <2>2
  <2>6. PICK at : /\ Laid(w, i - 1, limit, at, f[text])
                  /\ w \in Seq(Unit) => Marked(at, f[text], MarksFrom(g, w, i - 1))
    BY <1>1, <1>2, <2>1, TextLaid
  <2>7. at \in Layouts(text, pieces)
    BY <1>5, <2>1, <2>6, LaidIsLayout
  <2> HIDE DEF pieces, marks
  <2>8. Marked(at, pieces, marks)
    BY <1>5, <2>4, <2>5, <2>6
  <2>9. pieces \in Seq(Seq(Char)) /\ pieces # <<>>
    BY <1>5, <2>6 DEF Laid
  <2>10. Max({Len(pieces) - 1, 0}) = Len(pieces) - 1
    <3> DEFINE n == Len(pieces) - 1
               S == {n, 0}
    <3>1. n \in Nat
      BY <2>9
    <3> HIDE DEF n
    <3>2. S \subseteq 0..n /\ S # {} /\ n \in S /\ 0 \in Int /\ n \in Int
      BY <3>1
    <3> HIDE DEF S
    <3>3. Max(S) \in S /\ \A k \in S : k <= Max(S)
      BY <3>2, Extremes
    <3>4. Max(S) \in 0..n /\ n <= Max(S)
      BY <3>2, <3>3
    <3>5. Max(S) = n
      BY <3>1, <3>4
    <3>6. QED
      BY <3>5 DEF S, n
  <2>11. DOMAIN marks = 1..Len(marks) /\ Len(marks) = Len(pieces) - 1
    BY <2>8 DEF Marked
  <2>12. \A x \in DOMAIN marks : LastOf(at, pieces, x) <= marks[x] /\ marks[x] < at[x + 1]
    BY <2>8, <2>11 DEF Marked
  <2>13. QED
    BY <2>7, <2>10, <2>11, <2>12 DEF MarksAreCuts, pieces, marks
<1>8. QED
  BY <1>6, <1>7

-----------------------------------------------------------------------------
(* What a step makes of its sender's state. *)
SenderFields == {"pc", "draft", "parts", "piece", "attempt", "read", "wake", "status"}

Senders ==
  /\ sender = [s \in Sender |-> sender[s]]
  /\ \A s \in Sender : DOMAIN sender[s] = SenderFields

Ended(o, n, status) ==
  /\ n.pc = "done" /\ n.status = status /\ n.parts = o.parts

Moved(o, n, pc) ==
  /\ n.pc = pc /\ n.piece = o.piece /\ n.attempt = o.attempt
  /\ n.parts = o.parts /\ n.status = o.status

NextPiece(o, n) ==
  /\ n.pc = "ready" /\ n.piece = o.piece + 1 /\ n.attempt = 0
  /\ n.parts = o.parts /\ n.status = o.status

NextAttempt(o, n) ==
  /\ n.pc = "asleep" /\ n.piece = o.piece /\ n.attempt = o.attempt + 1
  /\ n.parts = o.parts /\ n.status = o.status

(* Only s has moved. *)
Alone(s) == Senders' /\ \A r \in Sender \ {s} : sender'[r] = sender[r]

LEMMA Placed ==
  ASSUME Senders, NEW s \in Sender, NEW new, DOMAIN new = SenderFields,
         sender' = [sender EXCEPT ![s] = new]
  PROVE  Alone(s) /\ sender'[s] = new
BY DEF Senders, Alone

LEMMA GotoForm ==
  ASSUME Senders, NEW s \in Sender, NEW pc, Goto(s, pc)
  PROVE  Alone(s) /\ Moved(sender[s], sender'[s], pc)
<1> DEFINE o == sender[s]
           new == [o EXCEPT !.pc = pc, !.read = 0, !.wake = 0]
<1>1. DOMAIN o = SenderFields
  BY DEF Senders
<1>2. sender' = [sender EXCEPT ![s] = new]
  BY DEF Goto, Senders
<1>3. DOMAIN new = SenderFields /\ Moved(o, new, pc)
  BY <1>1 DEF Moved, SenderFields
<1> HIDE DEF new
<1>4. QED
  BY <1>2, <1>3, Placed

LEMMA RecordForm ==
  ASSUME Senders, NEW s \in Sender, NEW status, Record(s, status)
  PROVE  Alone(s) /\ Ended(sender[s], sender'[s], status)
<1> DEFINE o == sender[s]
           new == [o EXCEPT !.pc = "done", !.read = 0, !.piece = 0,
                            !.attempt = 0, !.status = status]
<1>1. DOMAIN o = SenderFields
  BY DEF Senders
<1>2. sender' = [sender EXCEPT ![s] = new]
  BY DEF Record, Senders
<1>3. DOMAIN new = SenderFields /\ Ended(o, new, status)
  BY <1>1 DEF Ended, SenderFields
<1> HIDE DEF new
<1>4. QED
  BY <1>2, <1>3, Placed

LEMMA StrandForm ==
  ASSUME Senders, NEW s \in Sender, Strand(s)
  PROVE  /\ Alone(s) /\ sender'[s].pc = "stranded"
         /\ sender'[s].parts = sender[s].parts /\ sender'[s].status = sender[s].status
<1> DEFINE o == sender[s]
           new == [o EXCEPT !.pc = "stranded", !.read = 0, !.piece = 0, !.attempt = 0]
<1>1. DOMAIN o = SenderFields
  BY DEF Senders
<1>2. sender' = [sender EXCEPT ![s] = new]
  BY DEF Strand, Senders
<1>3. /\ DOMAIN new = SenderFields
      /\ new.pc = "stranded" /\ new.parts = o.parts /\ new.status = o.status
  BY <1>1 DEF SenderFields
<1> HIDE DEF new
<1>4. QED
  BY <1>2, <1>3, Placed

LEMMA ReadForm ==
  ASSUME Senders, NEW s \in Sender, ReadClock(s)
  PROVE  /\ Alone(s) /\ Moved(sender[s], sender'[s], "timed")
         /\ sender'[s].read = clock + Ahead[s]
<1> DEFINE o == sender[s]
           new == [o EXCEPT !.pc = "timed", !.read = clock + Ahead[s]]
<1>1. DOMAIN o = SenderFields
  BY DEF Senders
<1>2. sender' = [sender EXCEPT ![s] = new]
  BY DEF ReadClock, Senders
<1>3. /\ DOMAIN new = SenderFields /\ Moved(o, new, "timed")
      /\ new.read = clock + Ahead[s]
  BY <1>1 DEF Moved, SenderFields
<1> HIDE DEF new
<1>4. QED
  BY <1>2, <1>3, Placed

(* The provider's answer and what the dispatcher makes of it. *)
LEMMA SendForm ==
  ASSUME Senders, NEW s \in Sender, Send(s)
  PROVE  /\ Alone(s)
         /\ \E answer \in Answers :
              /\ customer' = [customer EXCEPT
                   ![s] = IF answer.delivered THEN Append(@, sender[s].piece) ELSE @]
              /\ \/ /\ answer.ok
                    /\ sender[s].piece = sender[s].parts
                    /\ Ended(sender[s], sender'[s], "sent")
                 \/ /\ answer.ok
                    /\ sender[s].piece # sender[s].parts
                    /\ NextPiece(sender[s], sender'[s])
                 \/ /\ sender[s].attempt + 1 < MaxAttempts
                    /\ NextAttempt(sender[s], sender'[s])
                 \/ Ended(sender[s], sender'[s], "failed")
<1> DEFINE o == sender[s]
<1>1. DOMAIN o = SenderFields
  BY DEF Senders
<1>2. PICK answer \in Answers :
         /\ customer' = [customer EXCEPT
              ![s] = IF answer.delivered THEN Append(@, sender[s].piece) ELSE @]
         /\ IF answer.ok THEN AfterOk(s) ELSE AfterFailure(s, answer)
  BY DEF Send
<1>3. CASE answer.ok /\ o.piece # o.parts
  <2> DEFINE new == [o EXCEPT !.pc = "ready", !.piece = o.piece + 1, !.attempt = 0]
  <2>1. sender' = [sender EXCEPT ![s] = new]
    BY <1>2, <1>3 DEF AfterOk, Senders
  <2>2. DOMAIN new = SenderFields /\ NextPiece(o, new)
    BY <1>1 DEF NextPiece, SenderFields
  <2> HIDE DEF new
  <2>3. Alone(s) /\ sender'[s] = new
    BY <2>1, <2>2, Placed
  <2>4. QED
    BY <1>2, <1>3, <2>2, <2>3
<1>4. CASE o.attempt + 1 < MaxAttempts /\ ~answer.ok /\ Retryable(answer)
  <2> DEFINE new == [o EXCEPT !.pc = "asleep", !.wake = clock + 2^o.attempt,
                              !.attempt = o.attempt + 1]
  <2>1. sender' = [sender EXCEPT ![s] = new]
    BY <1>2, <1>4 DEF AfterFailure, Senders
  <2>2. DOMAIN new = SenderFields /\ NextAttempt(o, new)
    BY <1>1 DEF NextAttempt, SenderFields
  <2> HIDE DEF new
  <2>3. Alone(s) /\ sender'[s] = new
    BY <2>1, <2>2, Placed
  <2>4. QED
    BY <1>2, <1>4, <2>2, <2>3
<1>5. CASE answer.ok /\ o.piece = o.parts
  BY <1>2, <1>5, RecordForm DEF AfterOk
<1>6. CASE ~answer.ok /\ ~(Retryable(answer) /\ o.attempt + 1 < MaxAttempts)
  BY <1>2, <1>6, RecordForm DEF AfterFailure
<1>7. QED
  BY <1>3, <1>4, <1>5, <1>6

-----------------------------------------------------------------------------
(* The token bucket.  A stale reading takes tokens back and a young one    *)
(* credits them ahead of time; what neither changes is the tokens' worth   *)
(* at a fixed time, tokens - ts * Refill.  Each token given out lowers it  *)
(* by a token, and only the limit of a full bucket lowers it otherwise.    *)

(* A reading is as old as a round trip may be, or as young as clocks may   *)
(* differ.                                                                 *)
ReadingInv ==
  \A s \in Sender :
     sender[s].pc = "timed" =>
       /\ sender[s].read \in Nat
       /\ sender[s].read <= clock + Ahead[s]
       /\ clock + Ahead[s] <= sender[s].read + MaxDelay

BucketInv ==
  IF bucket = Never THEN spends = <<>>
  ELSE /\ bucket.tokens \in Int /\ bucket.ts \in Nat /\ bucket.touched \in Nat
       /\ bucket.touched <= clock
       /\ bucket.ts <= bucket.touched + MaxSkew
       /\ bucket.tokens >= (bucket.ts - bucket.touched - MaxSkew) * Refill
       /\ \A i \in DOMAIN spends :
             (Len(spends) - i + 1) * Token + bucket.tokens
               <= Capacity + (bucket.ts - spends[i] + MaxDelay) * Refill

QuotaInv ==
  /\ clock \in Nat /\ spends \in Seq(Nat)
  /\ \A i \in DOMAIN spends : spends[i] <= clock
  /\ Senders
  /\ ReadingInv
  /\ BucketInv
  /\ QuotaKept

(* What flows in grows with the time. *)
LEMMA Flow ==
  ASSUME NEW a \in Int, NEW b \in Int, a <= b, NEW r \in Nat
  PROVE  a * r <= b * r /\ a * r \in Int
OBVIOUS

LEMMA FlowAdds ==
  ASSUME NEW a \in Int, NEW b \in Int, NEW r \in Nat
  PROVE  (a + b) * r = a * r + b * r /\ (a - b) * r = a * r - b * r
OBVIOUS

LEMMA LeastOf ==
  ASSUME NEW a \in Int, NEW b \in Int
  PROVE  Min({a, b}) \in {a, b} /\ Min({a, b}) <= a /\ Min({a, b}) <= b
BY DEF Min

LEMMA InitQuota == Init => QuotaInv
<1>1. SUFFICES ASSUME Init PROVE QuotaInv
  OBVIOUS
<1>2. /\ clock = 0 /\ bucket = Never /\ spends = <<>> /\ customer = [s \in Sender |-> <<>>]
      /\ Senders
      /\ \A s \in Sender : sender[s].pc = "new"
  <2>1. PICK drafts : sender = [s \in Sender |->
         [pc |-> "new", draft |-> drafts[s],
          parts |-> Len(Pieces(drafts[s].text, caps.limit)), piece |-> 1, attempt |-> 0,
          read |-> 0, wake |-> 0, status |-> "open"]]
    BY <1>1 DEF Init
  <2>2. clock = 0 /\ bucket = Never /\ spends = <<>> /\ customer = [s \in Sender |-> <<>>]
    BY <1>1 DEF Init
  <2>3. \A s \in Sender : sender[s].pc = "new"
    BY <2>1
  <2>4. Senders
    BY <2>1 DEF Senders, SenderFields
  <2>5. QED
    BY <2>2, <2>3, <2>4
<1>3. QED
  BY <1>2 DEF QuotaInv, ReadingInv, BucketInv, QuotaKept

(* What the script may find when it runs. *)
LEMMA Credit ==
  ASSUME QuotaInv, NEW now \in Nat, now <= clock + MaxSkew, clock <= now + MaxDelay
  PROVE  /\ Tokens(now) \in Int /\ Tokens(now) <= Capacity
         /\ Tokens(now) >= (now - clock - MaxSkew) * Refill
         /\ \A i \in DOMAIN spends :
               (Len(spends) - i + 1) * Token + Tokens(now)
                 <= Capacity + (now - spends[i] + MaxDelay) * Refill
<1>1. /\ Capacity \in Nat /\ Refill \in Nat /\ Token \in Nat /\ MaxSkew \in Nat
      /\ MaxDelay \in Nat /\ Expiry \in Nat /\ clock \in Nat
      /\ Expiry * Refill >= Capacity + (MaxDelay + MaxSkew) * Refill
      /\ \A i \in DOMAIN spends : spends[i] \in Nat /\ spends[i] <= clock
      /\ Len(spends) \in Nat /\ DOMAIN spends = 1..Len(spends)
  <2>1. /\ Capacity \in Nat /\ Refill \in Nat /\ Token \in Nat /\ MaxSkew \in Nat
        /\ MaxDelay \in Nat /\ Expiry \in Nat
        /\ Expiry * Refill >= Capacity + (MaxDelay + MaxSkew) * Refill
    BY DispatchAssumption
  <2>2. clock \in Nat /\ spends \in Seq(Nat) /\ \A i \in DOMAIN spends : spends[i] <= clock
    BY DEF QuotaInv
  <2>3. Len(spends) \in Nat /\ DOMAIN spends = 1..Len(spends)
    BY <2>2
  <2>4. \A i \in DOMAIN spends : spends[i] \in Nat
    BY <2>2
  <2>5. QED
    BY <2>1, <2>2, <2>3, <2>4
<1>2. (now - clock - MaxSkew) * Refill <= 0 /\ (now - clock - MaxSkew) * Refill \in Int
  <2>1. now - clock - MaxSkew \in Int /\ now - clock - MaxSkew <= 0
    BY <1>1
  <2>2. QED
    BY <1>1, <2>1, Flow
<1>3. CASE bucket = Never
  <2>1. Tokens(now) = Capacity /\ spends = <<>>
    BY <1>3 DEF Tokens, Stored, QuotaInv, BucketInv
  <2>2. QED
    BY <1>1, <1>2, <2>1
<1>4. CASE bucket # Never /\ clock - bucket.touched >= Expiry
  <2>1. Tokens(now) = Capacity
    BY <1>4 DEF Tokens, Stored
  <2>2. ASSUME NEW i \in DOMAIN spends
        PROVE  (Len(spends) - i + 1) * Token + Capacity
                 <= Capacity + (now - spends[i] + MaxDelay) * Refill
    <3> DEFINE n == (Len(spends) - i + 1) * Token
               e == spends[i]
               b == bucket.tokens
               ts == bucket.ts
               touched == bucket.touched
    <3>1. /\ b \in Int /\ ts \in Nat /\ touched \in Nat /\ e \in Nat
          /\ b >= (ts - touched - MaxSkew) * Refill
          /\ n + b <= Capacity + (ts - e + MaxDelay) * Refill
          /\ touched + Expiry <= clock
      <4>1. BucketInv
        BY DEF QuotaInv
      <4>2. /\ b \in Int /\ ts \in Nat /\ touched \in Nat
            /\ b >= (ts - touched - MaxSkew) * Refill
            /\ n + b <= Capacity + (ts - e + MaxDelay) * Refill
        BY <1>4, <4>1 DEF BucketInv
      <4>3. e \in Nat
        BY <1>1
      <4>4. touched + Expiry <= clock
        <5>1. clock - touched >= Expiry
          BY <1>4
        <5> HIDE DEF touched
        <5>2. clock \in Nat /\ Expiry \in Nat /\ touched \in Nat
          BY <1>1, <4>2
        <5>3. QED
          BY <5>1, <5>2
      <4>5. QED
        BY <4>2, <4>3, <4>4
    <3>2. n \in Int
      BY <1>1
    <3> HIDE DEF n, e, b, ts, touched
    <3>3. n <= Capacity + (touched - e + MaxDelay + MaxSkew) * Refill
      <4>1. (ts - e + MaxDelay) * Refill - (ts - touched - MaxSkew) * Refill
              = (touched - e + MaxDelay + MaxSkew) * Refill
        BY <1>1, <3>1
      <4>2. /\ (ts - e + MaxDelay) * Refill \in Int
            /\ (ts - touched - MaxSkew) * Refill \in Int
        BY <1>1, <3>1
      <4>3. QED
        BY <1>1, <3>1, <3>2, <4>1, <4>2
    <3>4. (touched - e + MaxDelay + MaxSkew) * Refill
            = (touched - e) * Refill + (MaxDelay + MaxSkew) * Refill
      BY <1>1, <3>1
    <3>5. (touched - e + Expiry) * Refill = (touched - e) * Refill + Expiry * Refill
      BY <1>1, <3>1
    <3>6. (touched - e + Expiry) * Refill <= (now - e + MaxDelay) * Refill
      <4>1. touched - e + Expiry <= now - e + MaxDelay
        BY <1>1, <3>1
      <4>2. QED
        BY <1>1, <3>1, <4>1, Flow
    <3>7. /\ (touched - e) * Refill \in Int /\ (MaxDelay + MaxSkew) * Refill \in Int
          /\ Expiry * Refill \in Int /\ (now - e + MaxDelay) * Refill \in Int
      BY <1>1, <3>1
    <3>8. n <= (now - e + MaxDelay) * Refill
      <4> DEFINE since == (touched - e) * Refill
                 spread == (MaxDelay + MaxSkew) * Refill
                 both == (touched - e + MaxDelay + MaxSkew) * Refill
                 full == Expiry * Refill
                 grown == (touched - e + Expiry) * Refill
                 flow == (now - e + MaxDelay) * Refill
      <4>1. both = since + spread /\ grown = since + full /\ grown <= flow
        BY <3>4, <3>5, <3>6
      <4>2. since \in Int /\ spread \in Int /\ full \in Int /\ flow \in Int
        BY <3>7
      <4> HIDE DEF since, spread, both, full, grown, flow
      <4>3. full >= Capacity + spread /\ Capacity \in Int
        BY <1>1 DEF full, spread
      <4>4. n <= Capacity + both /\ n \in Int
        BY <3>2, <3>3 DEF both
      <4>5. n <= flow
        BY <4>1, <4>2, <4>3, <4>4
      <4>6. QED
        BY <4>5 DEF flow
    <3>9. QED
      BY <1>1, <3>2, <3>7, <3>8 DEF n, e
  <2>3. QED
    BY <1>1, <1>2, <2>1, <2>2
<1>5. CASE bucket # Never /\ ~(clock - bucket.touched >= Expiry)
  <2> DEFINE b == bucket.tokens
             ts == bucket.ts
             touched == bucket.touched
             more == b + (now - ts) * Refill
  <2>1. /\ b \in Int /\ ts \in Nat /\ touched \in Nat /\ touched <= clock
        /\ b >= (ts - touched - MaxSkew) * Refill
    BY <1>5 DEF QuotaInv, BucketInv
  <2>2. Tokens(now) = Min({Capacity, more})
    BY <1>5 DEF Tokens, Stored
  <2>3. \A i \in DOMAIN spends :
           (Len(spends) - i + 1) * Token + b
             <= Capacity + (ts - spends[i] + MaxDelay) * Refill
    BY <1>5 DEF QuotaInv, BucketInv
  <2> HIDE DEF b, ts, touched
  <2>4. more \in Int
    BY <1>1, <2>1
  <2>5. Tokens(now) \in Int /\ Tokens(now) <= more /\ Tokens(now) <= Capacity
        /\ (Tokens(now) = Capacity \/ Tokens(now) = more)
    <3>1. /\ Min({Capacity, more}) \in {Capacity, more}
          /\ Min({Capacity, more}) <= Capacity /\ Min({Capacity, more}) <= more
      <4> HIDE DEF more
      <4>1. Capacity \in Int
        BY <1>1
      <4>2. QED
        BY <2>4, <4>1, LeastOf
    <3> HIDE DEF more
    <3>2. QED
      BY <1>1, <2>2, <2>4, <3>1
  <2>6. more >= (now - clock - MaxSkew) * Refill
    <3>1. (ts - touched - MaxSkew) * Refill + (now - ts) * Refill
            = (now - touched - MaxSkew) * Refill
      BY <1>1, <2>1
    <3>2. (now - clock - MaxSkew) * Refill <= (now - touched - MaxSkew) * Refill
      <4>1. now - clock - MaxSkew <= now - touched - MaxSkew
        BY <1>1, <2>1
      <4>2. QED
        BY <1>1, <2>1, <4>1, Flow
    <3>3. /\ (ts - touched - MaxSkew) * Refill \in Int /\ (now - ts) * Refill \in Int
          /\ (now - touched - MaxSkew) * Refill \in Int
      BY <1>1, <2>1
    <3>4. QED
      BY <1>2, <2>1, <3>1, <3>2, <3>3
  <2>7. ASSUME NEW i \in DOMAIN spends
        PROVE  (Len(spends) - i + 1) * Token + Tokens(now)
                 <= Capacity + (now - spends[i] + MaxDelay) * Refill
    <3> DEFINE n == (Len(spends) - i + 1) * Token
               e == spends[i]
               t == Tokens(now)
    <3>1. n \in Int /\ e \in Nat /\ n + b <= Capacity + (ts - e + MaxDelay) * Refill
      BY <1>1, <2>3
    <3>2. t \in Int /\ t <= b + (now - ts) * Refill
      BY <2>5
    <3> HIDE DEF n, e, t
    <3>3. (ts - e + MaxDelay) * Refill + (now - ts) * Refill = (now - e + MaxDelay) * Refill
      BY <1>1, <2>1, <3>1
    <3>4. /\ (ts - e + MaxDelay) * Refill \in Int /\ (now - ts) * Refill \in Int
      BY <1>1, <2>1, <3>1
    <3>5. n + t <= Capacity + (now - e + MaxDelay) * Refill
      BY <1>1, <2>1, <3>1, <3>2, <3>3, <3>4
    <3>6. QED
      BY <3>5 DEF n, e, t
  <2> HIDE DEF more
  <2>8. Tokens(now) >= (now - clock - MaxSkew) * Refill
    BY <1>1, <1>2, <2>5, <2>6
  <2>9. QED
    BY <2>5, <2>7, <2>8
<1>6. QED
  BY <1>3, <1>4, <1>5

(* The script has run, whatever the sender learns of it. *)
ScriptRun(s) ==
  LET now == sender[s].read
      allowed == Tokens(now) >= Token
  IN
  /\ sender[s].pc = "timed"
  /\ bucket' = [tokens |-> Tokens(now) - (IF allowed THEN Token ELSE 0),
                ts |-> now, touched |-> clock]
  /\ spends' = IF allowed THEN Append(spends, clock) ELSE spends
  /\ Goto(s, "asking") \/ Record(s, "failed") \/ Strand(s)
  /\ UNCHANGED <<clock, caps, customer>>

LEMMA ScriptInv ==
  ASSUME QuotaInv, NEW s \in Sender, ScriptRun(s)
  PROVE  QuotaInv'
<1> DEFINE now == sender[s].read
           allowed == Tokens(now) >= Token
           t == Tokens(now)
           left == t - (IF allowed THEN Token ELSE 0)
           n == Len(spends)
<1>1. /\ Capacity \in Nat /\ Refill \in Nat /\ Token \in Nat /\ MaxSkew \in Nat
      /\ MaxDelay \in Nat /\ Ahead[s] \in 0..MaxSkew /\ Never \notin Bucket
  BY DispatchAssumption
<1>2. clock \in Nat /\ spends \in Seq(Nat) /\ \A i \in DOMAIN spends : spends[i] <= clock
  BY DEF QuotaInv
<1>3. now \in Nat /\ now <= clock + MaxSkew /\ clock <= now + MaxDelay
  <2>1. now \in Nat /\ now <= clock + Ahead[s] /\ clock + Ahead[s] <= now + MaxDelay
    BY DEF QuotaInv, ReadingInv, ScriptRun
  <2> HIDE DEF now
  <2>2. QED
    BY <1>1, <1>2, <2>1
<1>4. /\ bucket' = [tokens |-> left, ts |-> now, touched |-> clock] /\ clock' = clock
      /\ IF allowed THEN spends' = Append(spends, clock) ELSE UNCHANGED spends
      /\ Senders' /\ sender'[s].pc # "timed"
      /\ \A r \in Sender \ {s} : sender'[r] = sender[r]
  <2>1. /\ bucket' = [tokens |-> left, ts |-> now, touched |-> clock] /\ clock' = clock
        /\ IF allowed THEN spends' = Append(spends, clock) ELSE UNCHANGED spends
    BY DEF ScriptRun
  <2>2. Goto(s, "asking") \/ Record(s, "failed") \/ Strand(s)
    BY DEF ScriptRun
  <2>3. Alone(s) /\ sender'[s].pc # "timed"
    BY <2>2, GotoForm, RecordForm, StrandForm DEF QuotaInv, Moved, Ended
  <2>4. QED
    BY <2>1, <2>3 DEF Alone
<1>5. /\ t \in Int /\ t <= Capacity /\ t >= (now - clock - MaxSkew) * Refill
      /\ \A i \in DOMAIN spends :
            (n - i + 1) * Token + t <= Capacity + (now - spends[i] + MaxDelay) * Refill
  <2> HIDE DEF now
  <2>1. QED
    BY <1>3, Credit
<1>6. ReadingInv'
  BY <1>4 DEF QuotaInv, ReadingInv
<1> HIDE DEF now, t
<1>7. /\ left \in Int /\ left >= (now - clock - MaxSkew) * Refill
      /\ allowed => left >= 0
  <2>1. (now - clock - MaxSkew) * Refill <= 0 /\ (now - clock - MaxSkew) * Refill \in Int
    <3>1. now - clock - MaxSkew \in Int /\ now - clock - MaxSkew <= 0
      BY <1>1, <1>2, <1>3
    <3>2. 0 * Refill = 0
      BY <1>1
    <3>3. QED
      BY <1>1, <3>1, <3>2, Flow
  <2>2. QED
    BY <1>1, <1>5, <2>1 DEF t
<1>8. n \in Nat /\ DOMAIN spends = 1..n /\ \A i \in DOMAIN spends : spends[i] \in Nat
  BY <1>2
<1>9. CASE allowed
  <2>1. /\ spends' = Append(spends, clock) /\ spends' \in Seq(Nat) /\ Len(spends') = n + 1
        /\ DOMAIN spends' = 1..(n + 1) /\ spends'[n + 1] = clock
        /\ \A i \in 1..n : spends'[i] = spends[i]
    <3>1. spends' = Append(spends, clock)
      BY <1>4, <1>9
    <3>2. Len(spends) \in Nat /\ DOMAIN spends = 1..Len(spends)
      BY <1>2
    <3>3. spends' \in Seq(Nat) /\ Len(spends') = Len(spends) + 1
      BY <1>2, <3>1
    <3>4. spends'[Len(spends) + 1] = clock /\ \A i \in 1..Len(spends) : spends'[i] = spends[i]
      BY <1>2, <3>1
    <3>5. DOMAIN spends' = 1..(Len(spends) + 1)
      BY <3>3
    <3>6. QED
      BY <3>1, <3>3, <3>4, <3>5
  <2>2. left = t - Token
    BY <1>9
  <2> HIDE DEF left
  <2>3. ASSUME NEW i \in 1..(n + 1)
        PROVE  (n + 1 - i + 1) * Token + left
                 <= Capacity + (now - spends'[i] + MaxDelay) * Refill
    <3>1. CASE i = n + 1
      <4>1. (n + 1 - i + 1) * Token = Token
        BY <1>1, <1>8, <3>1
      <4>2. now - clock + MaxDelay \in Int /\ 0 <= now - clock + MaxDelay
        BY <1>1, <1>2, <1>3
      <4>3. (now - clock + MaxDelay) * Refill \in Int /\ 0 <= (now - clock + MaxDelay) * Refill
        BY <1>1, <4>2
      <4>4. QED
        BY <1>1, <1>5, <2>1, <2>2, <3>1, <4>1, <4>3
    <3>2. CASE i # n + 1
      <4>1. i \in 1..n
        BY <1>8, <3>2
      <4> DEFINE old == (n - i + 1) * Token
                 limit == Capacity + (now - spends[i] + MaxDelay) * Refill
      <4>2. old \in Int /\ limit \in Int /\ old + t <= limit
        <5>1. i \in DOMAIN spends /\ spends[i] \in Nat
          BY <1>8, <4>1
        <5>2. old + t <= limit
          BY <1>5, <5>1
        <5>3. old \in Int
          BY <1>1, <1>8, <4>1
        <5>4. limit \in Int
          BY <1>1, <1>3, <5>1
        <5>5. QED
          BY <5>2, <5>3, <5>4
      <4>3. (n + 1 - i + 1) * Token = old + Token
        BY <1>1, <1>8, <4>1
      <4> HIDE DEF old
      <4>4. (n + 1 - i + 1) * Token + left <= limit
        <5> HIDE DEF limit
        <5>1. QED
          BY <1>1, <1>5, <2>2, <4>2, <4>3
      <4>5. QED
        BY <2>1, <4>1, <4>4
    <3>3. QED
      BY <3>1, <3>2
  <2>4. BucketInv'
    <3>1. bucket' \in Bucket /\ bucket'.tokens = left /\ bucket'.ts = now /\ bucket'.touched = clock
      BY <1>2, <1>3, <1>4, <1>7 DEF Bucket
    <3>2. bucket' # Never /\ clock' = clock
      BY <1>1, <1>4, <3>1
    <3>3. QED
      BY <1>2, <1>3, <1>7, <2>1, <2>3, <3>1, <3>2 DEF BucketInv
  <2>5. QuotaKept'
    <3>1. ASSUME NEW i \in 1..(n + 1), NEW j \in 1..(n + 1), i <= j
          PROVE  (j - i + 1) * Token
                   <= Capacity + (spends'[j] - spends'[i] + MaxDelay + MaxSkew) * Refill
      <4>1. CASE j = n + 1
        <5> DEFINE c == (n + 1 - i + 1) * Token
                   e == spends'[i]
        <5>1. c \in Int /\ e \in Nat
          <6>1. i \in Int /\ n \in Int /\ Token \in Int
            BY <1>1, <1>8
          <6>2. c \in Int
            BY <6>1
          <6>3. e \in Nat
            BY <2>1
          <6>4. QED
            BY <6>2, <6>3
        <5>2. c + left <= Capacity + (now - e + MaxDelay) * Refill
          BY <2>3
        <5> HIDE DEF c, e
        <5>3. now - e + MaxDelay \in Int /\ clock - e + MaxDelay + MaxSkew \in Int
              /\ now - e + MaxDelay <= clock - e + MaxDelay + MaxSkew
          BY <1>1, <1>2, <1>3, <5>1
        <5>4. /\ (now - e + MaxDelay) * Refill <= (clock - e + MaxDelay + MaxSkew) * Refill
              /\ (now - e + MaxDelay) * Refill \in Int
              /\ (clock - e + MaxDelay + MaxSkew) * Refill \in Int
          BY <1>1, <5>3, Flow
        <5>5. c <= Capacity + (clock - e + MaxDelay + MaxSkew) * Refill
          BY <1>1, <1>7, <1>9, <5>1, <5>2, <5>4
        <5>6. QED
          BY <2>1, <4>1, <5>5 DEF c, e
      <4>2. CASE j # n + 1
        <5>1. i \in DOMAIN spends /\ j \in DOMAIN spends
          BY <1>8, <3>1, <4>2
        <5>2. QED
          BY <1>8, <2>1, <3>1, <5>1 DEF QuotaInv, QuotaKept
      <4>3. QED
        BY <4>1, <4>2
    <3>2. QED
      BY <2>1, <3>1 DEF QuotaKept
  <2>6. \A i \in DOMAIN spends' : spends'[i] <= clock'
    <3>1. \A i \in 1..(n + 1) : i \in 1..n \/ i = n + 1
      BY <1>8
    <3>2. spends'[n + 1] <= clock
      BY <1>2, <2>1
    <3>3. \A i \in 1..n : spends'[i] <= clock
      BY <1>2, <1>8, <2>1
    <3> HIDE DEF n
    <3>4. QED
      BY <1>4, <2>1, <3>1, <3>2, <3>3
  <2>7. clock' \in Nat /\ Senders'
    BY <1>2, <1>4
  <2>8. QED
    BY <1>6, <2>1, <2>4, <2>5, <2>6, <2>7 DEF QuotaInv
<1>10. CASE ~allowed
  <2>1. left = t /\ spends' = spends
    BY <1>1, <1>4, <1>5, <1>10
  <2> HIDE DEF left
  <2>2. BucketInv'
    <3>1. bucket' \in Bucket /\ bucket'.tokens = left /\ bucket'.ts = now /\ bucket'.touched = clock
      BY <1>2, <1>3, <1>4, <1>7 DEF Bucket
    <3>2. bucket' # Never /\ clock' = clock
      BY <1>1, <1>4, <3>1
    <3>3. QED
      BY <1>2, <1>3, <1>5, <1>7, <2>1, <3>1, <3>2 DEF BucketInv
  <2>3. QuotaKept'
    BY <2>1 DEF QuotaInv, QuotaKept
  <2>4. QED
    BY <1>2, <1>4, <1>6, <2>1, <2>2, <2>3 DEF QuotaInv
<1>11. QED
  BY <1>9, <1>10

(* A step that does not touch the bucket. *)
LEMMA QuotaAside ==
  ASSUME QuotaInv, NEW s \in Sender, Alone(s), UNCHANGED <<clock, bucket, spends>>,
         \/ sender'[s].pc # "timed"
         \/ sender'[s].read = clock + Ahead[s]
  PROVE  QuotaInv'
<1>1. /\ clock \in Nat /\ Ahead[s] \in Nat /\ MaxDelay \in Nat
  BY DispatchAssumption DEF QuotaInv
<1>2. ReadingInv'
  BY <1>1 DEF QuotaInv, ReadingInv, Alone
<1>3. BucketInv'
  BY DEF QuotaInv, BucketInv
<1>4. QuotaKept'
  BY DEF QuotaInv, QuotaKept
<1>5. QED
  BY <1>2, <1>3, <1>4 DEF QuotaInv, Alone

LEMMA TickQuota == ASSUME QuotaInv, Tick PROVE QuotaInv'
<1>1. /\ clock \in Nat /\ MaxDelay \in Nat /\ clock' = clock + 1
      /\ \A s \in Sender : Ahead[s] \in Nat
      /\ UNCHANGED <<bucket, sender, spends>>
      /\ \A s \in Sender : sender[s].pc = "timed" =>
            clock + Ahead[s] - sender[s].read < MaxDelay
  BY DispatchAssumption DEF QuotaInv, Tick
<1>2. ReadingInv'
  <2>1. SUFFICES ASSUME NEW s \in Sender, sender[s].pc = "timed"
                 PROVE  /\ sender[s].read \in Nat
                        /\ sender[s].read <= clock' + Ahead[s]
                        /\ clock' + Ahead[s] <= sender[s].read + MaxDelay
    BY <1>1 DEF ReadingInv
  <2> DEFINE read == sender[s].read
             ahead == Ahead[s]
  <2>2. /\ read \in Nat /\ read <= clock + ahead /\ ahead \in Nat
        /\ clock + ahead - read < MaxDelay
    BY <1>1, <2>1 DEF QuotaInv, ReadingInv
  <2> HIDE DEF read, ahead
  <2>3. read \in Nat /\ read <= clock' + ahead /\ clock' + ahead <= read + MaxDelay
    BY <1>1, <2>2
  <2>4. QED
    BY <2>3 DEF read, ahead
<1>3. BucketInv'
  BY <1>1 DEF QuotaInv, BucketInv
<1>4. QuotaKept'
  BY <1>1 DEF QuotaInv, QuotaKept
<1>5. spends \in Seq(Nat) /\ \A i \in DOMAIN spends : spends[i] <= clock'
  BY <1>1 DEF QuotaInv
<1>6. QED
  BY <1>1, <1>2, <1>3, <1>4, <1>5 DEF QuotaInv, Senders

(* The script has run, or it has not and the sender is stranded. *)
LEMMA AcquireInv ==
  ASSUME QuotaInv, NEW s \in Sender, Acquire(s)
  PROVE  QuotaInv'
<1>1. \/ ScriptRun(s)
      \/ Strand(s) /\ UNCHANGED <<clock, bucket, spends>>
  BY DEF Acquire, ScriptRun
<1>2. CASE Strand(s) /\ UNCHANGED <<clock, bucket, spends>>
  <2>1. Alone(s) /\ sender'[s].pc = "stranded"
    BY <1>2, StrandForm DEF QuotaInv
  <2>2. QED
    BY <1>2, <2>1, QuotaAside
<1>3. QED
  BY <1>1, <1>2, ScriptInv

LEMMA QuotaKeeps == QuotaInv /\ [Next]_vars => QuotaInv'
<1> SUFFICES ASSUME QuotaInv, [Next]_vars PROVE QuotaInv'
  OBVIOUS
<1>1. Senders
  BY DEF QuotaInv
<1>2. ASSUME NEW s \in Sender, Begin(s) PROVE QuotaInv'
  <2>1. \/ Goto(s, "ready")
        \/ \E status \in {"escalated", "sent"} : Record(s, status)
    BY <1>2 DEF Begin
  <2>2. Alone(s) /\ sender'[s].pc \in {"ready", "done"}
    BY <1>1, <2>1, GotoForm, RecordForm DEF Moved, Ended
  <2>3. QED
    BY <1>2, <2>2, QuotaAside DEF Begin
<1>3. ASSUME NEW s \in Sender, ReadClock(s) PROVE QuotaInv'
  BY <1>1, <1>3, ReadForm, QuotaAside DEF ReadClock
<1>4. ASSUME NEW s \in Sender, Send(s) PROVE QuotaInv'
  <2>1. Alone(s) /\ sender'[s].pc \in {"done", "ready", "asleep"}
    BY <1>1, <1>4, SendForm DEF Ended, NextPiece, NextAttempt
  <2>2. QED
    BY <1>4, <2>1, QuotaAside DEF Send
<1>5. ASSUME NEW s \in Sender, Wake(s) PROVE QuotaInv'
  <2>1. Alone(s) /\ sender'[s].pc = "ready"
    BY <1>1, <1>5, GotoForm DEF Wake, Moved
  <2>2. QED
    BY <1>5, <2>1, QuotaAside DEF Wake
<1>6. CASE UNCHANGED vars
  BY <1>6 DEF vars, QuotaInv, Senders, ReadingInv, BucketInv, QuotaKept
<1>7. QED
  BY <1>2, <1>3, <1>4, <1>5, <1>6, AcquireInv, TickQuota DEF Next, Step

(* Whatever the senders, their clocks and the order in which their         *)
(* readings reach Redis, and however long the bucket goes unused, no       *)
(* stretch of time sees more calls than the bucket and its inflow allow.   *)
THEOREM QuotaAlwaysKept == Spec => []QuotaKept
<1>1. QuotaInv => QuotaKept
  BY DEF QuotaInv
<1>2. QED
  BY <1>1, InitQuota, QuotaKeeps, PTL DEF Spec

-----------------------------------------------------------------------------
(* What the customer has got of a reply. *)
Arrivals(got, p) == Cardinality({i \in DOMAIN got : got[i] = p})

UnderWay == {"ready", "timed", "asking", "asleep"}

(* Pieces in order, each at most once for each attempt. *)
InOrder(got) == \A i, j \in DOMAIN got : i < j => got[i] <= got[j]

GotInv(got, upTo) ==
  /\ got \in Seq(Nat) /\ InOrder(got)
  /\ \A i \in DOMAIN got : 1 <= got[i] /\ got[i] <= upTo
  /\ \A p \in Nat : Arrivals(got, p) <= MaxAttempts

(* Before piece is sent for the last time the customer has seen it or the  *)
(* one before it.                                                          *)
PieceInv(o, got) ==
  /\ o.parts \in Nat
  /\ o.status = "open" <=> o.pc # "done"
  /\ o.pc \in UnderWay \cup {"new", "done", "stranded"}
  /\ \E n \in Nat : GotInv(got, n)
  /\ o.pc = "new" => got = <<>> /\ o.piece = 1 /\ o.attempt = 0
  /\ o.pc \in UnderWay =>
       /\ o.piece \in Nat \ {0} /\ o.piece <= o.parts
       /\ o.attempt \in Nat /\ o.attempt < MaxAttempts
       /\ GotInv(got, o.piece)
       /\ Arrivals(got, o.piece) <= o.attempt
       /\ \/ o.piece = 1 /\ got = <<>>
          \/ got # <<>> /\ got[Len(got)] \in {o.piece - 1, o.piece}

DeliveryInv ==
  /\ Senders
  /\ customer = [s \in Sender |-> customer[s]]
  /\ \A s \in Sender : PieceInv(sender[s], customer[s])

(* One more copy of the piece that is being sent. *)
LEMMA OneMore ==
  ASSUME NEW got, NEW piece \in Nat \ {0}, GotInv(got, piece),
         NEW a \in Nat, Arrivals(got, piece) <= a, a < MaxAttempts
  PROVE  LET more == Append(got, piece) IN
         /\ GotInv(more, piece) /\ Arrivals(more, piece) <= a + 1
         /\ more # <<>> /\ more[Len(more)] = piece
<1> DEFINE more == Append(got, piece)
           n == Len(got)
           at(p) == {i \in DOMAIN got : got[i] = p}
           new(p) == {i \in DOMAIN more : more[i] = p}
<1>1. /\ got \in Seq(Nat) /\ n \in Nat /\ DOMAIN got = 1..n
      /\ \A i \in 1..n : got[i] \in Nat /\ 1 <= got[i] /\ got[i] <= piece
  BY DEF GotInv
<1>2. /\ more \in Seq(Nat) /\ Len(more) = n + 1 /\ DOMAIN more = 1..(n + 1)
      /\ more[n + 1] = piece /\ \A i \in 1..n : more[i] = got[i]
  BY <1>1
<1>3. \A i \in 1..(n + 1) : i \in 1..n \/ i = n + 1
  BY <1>1
<1> HIDE DEF more
<1>4. more # <<>>
  BY <1>1, <1>2
<1>5. \A i \in DOMAIN more : 1 <= more[i] /\ more[i] <= piece
  <2>1. 1 <= piece /\ piece <= piece
    OBVIOUS
  <2>2. 1 <= more[n + 1] /\ more[n + 1] <= piece
    BY <1>2, <2>1
  <2>3. \A i \in 1..n : 1 <= more[i] /\ more[i] <= piece
    BY <1>1, <1>2
  <2> HIDE DEF n
  <2>4. QED
    BY <1>2, <1>3, <2>2, <2>3
<1>6. InOrder(more)
  <2>1. SUFFICES ASSUME NEW i \in 1..(n + 1), NEW j \in 1..(n + 1), i < j
                 PROVE  more[i] <= more[j]
    BY <1>2 DEF InOrder
  <2>2. CASE j = n + 1
    BY <1>2, <1>5, <2>2
  <2>3. CASE j # n + 1
    <3>1. i \in 1..n /\ j \in 1..n
      BY <1>1, <2>1, <2>3
    <3>2. got[i] <= got[j]
      BY <1>1, <2>1, <3>1 DEF GotInv, InOrder
    <3>3. QED
      BY <1>2, <3>1, <3>2
  <2>4. QED
    BY <2>2, <2>3
<1>7. \A p \in Nat : IsFiniteSet(at(p)) /\ Cardinality(at(p)) \in Nat
  <2>1. IsFiniteSet(1..n)
    BY <1>1, FS_Interval
  <2>2. \A p \in Nat : at(p) \subseteq 1..n
    BY <1>1
  <2>3. QED
    BY <2>1, <2>2, FS_Subset, FS_CardinalityType
<1>8. \A p \in Nat : p # piece => new(p) = at(p)
  BY <1>1, <1>2, <1>3
<1>9. new(piece) = at(piece) \cup {n + 1} /\ n + 1 \notin at(piece)
  BY <1>1, <1>2, <1>3
<1>10. Cardinality(new(piece)) = Cardinality(at(piece)) + 1
  <2> HIDE DEF at, new
  <2>1. QED
    BY <1>7, <1>9, FS_AddElement
<1>11. \A p \in Nat : /\ Arrivals(more, p) = Cardinality(new(p))
                      /\ Arrivals(got, p) = Cardinality(at(p))
  BY DEF Arrivals
<1>12. \A p \in Nat : Arrivals(got, p) <= MaxAttempts
  BY DEF GotInv
<1> HIDE DEF at, new
<1>13. Arrivals(more, piece) <= a + 1
  BY <1>7, <1>10, <1>11
<1>14. \A p \in Nat : Arrivals(more, p) <= MaxAttempts
  <2>1. a + 1 <= MaxAttempts /\ MaxAttempts \in Nat
    BY DispatchAssumption
  <2>2. Arrivals(more, piece) <= MaxAttempts
    BY <1>7, <1>10, <1>11, <1>13, <2>1
  <2>3. QED
    BY <1>8, <1>11, <1>12, <2>2
<1>15. GotInv(more, piece)
  BY <1>2, <1>5, <1>6, <1>14 DEF GotInv
<1>16. QED
  BY <1>2, <1>4, <1>13, <1>15 DEF more

(* The next piece has not been sent. *)
LEMMA NotYet ==
  ASSUME NEW got, NEW piece \in Nat \ {0}, GotInv(got, piece)
  PROVE  GotInv(got, piece + 1) /\ Arrivals(got, piece + 1) = 0
<1>1. got \in Seq(Nat) /\ \A i \in DOMAIN got : got[i] \in Nat
  BY DEF GotInv
<1>2. \A i \in DOMAIN got : got[i] <= piece + 1 /\ got[i] # piece + 1
  BY <1>1 DEF GotInv
<1>3. {i \in DOMAIN got : got[i] = piece + 1} = {}
  BY <1>2
<1>4. Arrivals(got, piece + 1) = 0
  BY <1>3, FS_EmptySet DEF Arrivals
<1>5. QED
  BY <1>2, <1>4 DEF GotInv

(* Nothing has been sent. *)
LEMMA NothingYet == GotInv(<<>>, 0) /\ GotInv(<<>>, 1) /\ Arrivals(<<>>, 1) = 0
<1>1. \A p : {i \in DOMAIN <<>> : <<>>[i] = p} = {}
  OBVIOUS
<1>2. \A p : Arrivals(<<>>, p) = 0
  BY <1>1, FS_EmptySet DEF Arrivals
<1>3. 0 <= MaxAttempts
  BY DispatchAssumption
<1>4. QED
  BY <1>2, <1>3 DEF GotInv, InOrder

(* What Delivery sees of a step of one sender. *)
SeenIn(got) == IF got = <<>> THEN 0 ELSE Last(got)

(* What the customer saw last. *)
LEMMA LastSeen ==
  ASSUME NEW o, NEW got, PieceInv(o, got), o.pc \in UnderWay
  PROVE  /\ SeenIn(got) \in {o.piece - 1, o.piece} /\ SeenIn(got) \in Nat
         /\ SeenIn(got) <= o.parts /\ got \in Seq(Nat)
<1>1. /\ o.piece \in Nat \ {0} /\ o.piece <= o.parts /\ o.parts \in Nat
      /\ got \in Seq(Nat)
      /\ \/ o.piece = 1 /\ got = <<>>
         \/ got # <<>> /\ got[Len(got)] \in {o.piece - 1, o.piece}
  BY DEF PieceInv, GotInv
<1>2. SeenIn(got) \in {o.piece - 1, o.piece}
  BY <1>1 DEF SeenIn, Last
<1>3. QED
  BY <1>1, <1>2

LEMMA SeenHolds == \A s \in Sender : Seen(s) = SeenIn(customer[s])
BY DEF Seen, SeenIn

LEMMA Hidden ==
  ASSUME DeliveryInv, NEW s \in Sender, Alone(s), PieceInv(sender'[s], customer'[s]),
         \/ UNCHANGED customer
         \/ \E got : customer' = [customer EXCEPT ![s] = got],
         sender'[s].parts = sender[s].parts
  PROVE  /\ DeliveryInv'
         /\ UNCHANGED Total
         /\ SeenAll' = [SeenAll EXCEPT ![s] = SeenIn(customer'[s])]
         /\ Verdicts' = [Verdicts EXCEPT ![s] = sender'[s].status]
<1>1. /\ customer' = [r \in Sender |-> customer'[r]]
      /\ \A r \in Sender \ {s} : sender'[r] = sender[r] /\ customer'[r] = customer[r]
  BY DEF DeliveryInv, Alone
<1>2. DeliveryInv'
  BY <1>1 DEF DeliveryInv, Alone
<1>3. UNCHANGED Total /\ Verdicts' = [Verdicts EXCEPT ![s] = sender'[s].status]
  BY <1>1 DEF Total, Verdicts
<1>4. \A r \in Sender : Seen(r)' = SeenIn(customer'[r])
  BY DEF Seen, SeenIn
<1>5. SeenAll' = [SeenAll EXCEPT ![s] = SeenIn(customer'[s])]
  <2>1. SeenAll' = [r \in Sender |-> SeenIn(customer'[r])]
    BY <1>4 DEF SeenAll
  <2>2. SeenAll = [r \in Sender |-> SeenIn(customer[r])]
    BY SeenHolds DEF SeenAll
  <2>3. \A r \in Sender \ {s} : SeenIn(customer'[r]) = SeenIn(customer[r])
    BY <1>1
  <2>4. QED
    BY <2>1, <2>2, <2>3
<1>6. QED
  BY <1>2, <1>3, <1>5

(* A step that shows the customer nothing and decides nothing. *)
LEMMA Unseen ==
  ASSUME DeliveryInv, NEW s \in Sender, Alone(s), PieceInv(sender'[s], customer'[s]),
         UNCHANGED customer, sender'[s].parts = sender[s].parts,
         sender'[s].status = sender[s].status
  PROVE  DeliveryInv' /\ UNCHANGED <<Total, SeenAll, Verdicts>>
<1>1. /\ DeliveryInv' /\ UNCHANGED Total
      /\ SeenAll' = [SeenAll EXCEPT ![s] = SeenIn(customer'[s])]
      /\ Verdicts' = [Verdicts EXCEPT ![s] = sender'[s].status]
  BY Hidden
<1>2. SeenAll[s] = SeenIn(customer'[s]) /\ Verdicts[s] = sender'[s].status
  BY SeenHolds DEF SeenAll, Verdicts
<1>3. UNCHANGED SeenAll /\ UNCHANGED Verdicts
  BY <1>1, <1>2 DEF SeenAll, Verdicts
<1>4. QED
  BY <1>1, <1>3

(* The step after which the reply is decided. *)
LEMMA Decided ==
  ASSUME DeliveryInv, NEW s \in Sender, Alone(s), PieceInv(sender'[s], customer'[s]),
         \/ UNCHANGED customer
         \/ \E got : customer' = [customer EXCEPT ![s] = got],
         sender'[s].parts = sender[s].parts, sender[s].status = "open",
         NEW verdict \in {"sent", "failed", "escalated"}, sender'[s].status = verdict,
         NEW last \in {0, 1}, SeenIn(customer[s]) \in Nat,
         SeenIn(customer'[s]) = SeenIn(customer[s]) + last,
         SeenIn(customer'[s]) <= sender[s].parts,
         verdict = "sent" => SeenIn(customer'[s]) = sender[s].parts,
         verdict = "escalated" => SeenIn(customer'[s]) = 0
  PROVE  DeliveryInv' /\ Delivery!Close(s)
<1>1. /\ DeliveryInv' /\ UNCHANGED Total
      /\ SeenAll' = [SeenAll EXCEPT ![s] = SeenIn(customer'[s])]
      /\ Verdicts' = [Verdicts EXCEPT ![s] = sender'[s].status]
  BY Hidden
<1>2. /\ SeenAll[s] = SeenIn(customer[s]) /\ Verdicts[s] = "open"
      /\ Total[s] = sender[s].parts
  BY SeenHolds DEF SeenAll, Verdicts, Total
<1>3. verdict \in Delivery!Verdict \ {"open"}
  BY DEF Delivery!Verdict
<1>4. /\ SeenAll[s] + last <= Total[s]
      /\ verdict = "sent" => SeenAll[s] + last = Total[s]
      /\ verdict = "escalated" => SeenAll[s] + last = 0
      /\ SeenAll' = [SeenAll EXCEPT ![s] = SeenAll[s] + last]
      /\ Verdicts' = [Verdicts EXCEPT ![s] = verdict]
  BY <1>1, <1>2
<1>5. QED
  BY <1>1, <1>2, <1>3, <1>4 DEF Delivery!Close

LEMMA BeginDelivery ==
  ASSUME DeliveryInv, NEW s \in Sender, Begin(s)
  PROVE  DeliveryInv' /\ [Delivery!Next]_<<Total, SeenAll, Verdicts>>
<1> DEFINE o == sender[s]
<1>1. /\ o.pc = "new" /\ UNCHANGED customer /\ Senders /\ PieceInv(o, customer[s])
      /\ o.status = "open" /\ customer[s] = <<>> /\ o.piece = 1 /\ o.attempt = 0
      /\ o.parts \in Nat
  BY DEF Begin, DeliveryInv, PieceInv, UnderWay
<1>2. SeenIn(customer[s]) = 0
  BY <1>1 DEF SeenIn
<1>3. ASSUME NEW verdict \in {"sent", "escalated"}, Record(s, verdict),
             verdict = "sent" => o.parts = 0
      PROVE  DeliveryInv' /\ Delivery!Close(s)
  <2>1. Alone(s) /\ Ended(o, sender'[s], verdict)
    BY <1>1, <1>3, RecordForm
  <2>2. PieceInv(sender'[s], customer'[s])
    BY <1>1, <1>3, <2>1, NothingYet DEF Ended, PieceInv, UnderWay
  <2>3. /\ SeenIn(customer'[s]) = SeenIn(customer[s]) + 0
        /\ SeenIn(customer[s]) \in Nat /\ SeenIn(customer'[s]) <= o.parts
        /\ verdict = "sent" => SeenIn(customer'[s]) = o.parts
        /\ SeenIn(customer'[s]) = 0
    BY <1>1, <1>2, <1>3
  <2>4. verdict \in {"sent", "failed", "escalated"} /\ 0 \in {0, 1}
    OBVIOUS
  <2>5. sender'[s].parts = o.parts /\ sender'[s].status = verdict
    BY <2>1 DEF Ended
  <2>6. QED
    BY <1>1, <2>1, <2>2, <2>3, <2>4, <2>5, Decided
<1>4. CASE Goto(s, "ready") /\ o.parts # 0
  <2>1. Alone(s) /\ Moved(o, sender'[s], "ready")
    BY <1>1, <1>4, GotoForm
  <2>2. MaxAttempts \in Nat \ {0}
    BY DispatchAssumption
  <2>3. PieceInv(sender'[s], customer'[s])
    BY <1>1, <1>4, <2>1, <2>2, NothingYet DEF Moved, PieceInv, UnderWay
  <2>4. QED
    BY <1>1, <2>1, <2>3, Unseen DEF Moved
<1>5. QED
  BY <1>3, <1>4 DEF Begin, Delivery!Next

(* Between the attempts. *)
LEMMA MovedInv ==
  ASSUME DeliveryInv, NEW s \in Sender, Alone(s), NEW pc \in UnderWay,
         Moved(sender[s], sender'[s], pc), sender[s].pc \in UnderWay, UNCHANGED customer
  PROVE  DeliveryInv' /\ UNCHANGED <<Total, SeenAll, Verdicts>>
<1>1. PieceInv(sender[s], customer[s])
  BY DEF DeliveryInv
<1>2. PieceInv(sender'[s], customer'[s])
  BY <1>1 DEF PieceInv, Moved, UnderWay
<1>3. QED
  BY <1>2, Unseen DEF Moved

LEMMA AcquireDelivery ==
  ASSUME DeliveryInv, NEW s \in Sender, Acquire(s)
  PROVE  DeliveryInv' /\ [Delivery!Next]_<<Total, SeenAll, Verdicts>>
<1> DEFINE o == sender[s]
           got == customer[s]
<1>1. /\ o.pc = "timed" /\ UNCHANGED customer /\ Senders /\ PieceInv(o, got)
      /\ Goto(s, "asking") \/ Record(s, "failed") \/ Strand(s)
  BY DEF Acquire, DeliveryInv
<1>2. CASE Goto(s, "asking")
  BY <1>1, <1>2, GotoForm, MovedInv DEF UnderWay
<1>3. CASE Record(s, "failed")
  <2>1. Alone(s) /\ Ended(o, sender'[s], "failed")
    BY <1>1, <1>3, RecordForm
  <2>2. PieceInv(sender'[s], customer'[s])
    BY <1>1, <2>1 DEF Ended, PieceInv, UnderWay
  <2>3. SeenIn(got) \in Nat /\ SeenIn(got) <= o.parts /\ o.status = "open"
    BY <1>1, LastSeen DEF PieceInv, UnderWay
  <2>4. SeenIn(got) = SeenIn(got) + 0
    BY <2>3
  <2> HIDE DEF o, got
  <2>5. QED
    BY <1>1, <2>1, <2>2, <2>3, <2>4, Decided DEF Ended, Delivery!Next, o, got
<1>4. CASE Strand(s)
  <2>1. /\ Alone(s) /\ sender'[s].pc = "stranded"
        /\ sender'[s].parts = o.parts /\ sender'[s].status = o.status
    BY <1>1, <1>4, StrandForm
  <2>2. PieceInv(sender'[s], customer'[s])
    BY <1>1, <2>1 DEF PieceInv, UnderWay
  <2>3. QED
    BY <1>1, <2>1, <2>2, Unseen
<1>5. QED
  BY <1>1, <1>2, <1>3, <1>4

(* A step that leaves the reply open shows one piece more, or nothing. *)
LEMMA Continued ==
  ASSUME DeliveryInv, NEW s \in Sender, Alone(s), PieceInv(sender'[s], customer'[s]),
         \E got : customer' = [customer EXCEPT ![s] = got],
         sender'[s].parts = sender[s].parts, sender[s].status = "open",
         sender'[s].status = "open", sender[s].parts \in Nat,
         NEW last \in {0, 1}, SeenIn(customer[s]) \in Nat,
         SeenIn(customer'[s]) = SeenIn(customer[s]) + last,
         SeenIn(customer'[s]) <= sender[s].parts
  PROVE  DeliveryInv' /\ [Delivery!Next]_<<Total, SeenAll, Verdicts>>
<1>1. /\ DeliveryInv' /\ UNCHANGED Total
      /\ SeenAll' = [SeenAll EXCEPT ![s] = SeenIn(customer'[s])]
      /\ Verdicts' = [Verdicts EXCEPT ![s] = sender'[s].status]
  BY Hidden
<1>2. /\ SeenAll[s] = SeenIn(customer[s]) /\ Verdicts[s] = "open"
      /\ Total[s] = sender[s].parts
  BY SeenHolds DEF SeenAll, Verdicts, Total
<1>3. UNCHANGED Verdicts
  BY <1>1, <1>2 DEF Verdicts
<1>4. CASE last = 0
  <2>1. SeenIn(customer'[s]) = SeenAll[s]
    BY <1>2, <1>4
  <2>2. UNCHANGED SeenAll
    BY <1>1, <2>1 DEF SeenAll
  <2>3. QED
    BY <1>1, <1>3, <2>2
<1>5. CASE last = 1
  <2>1. SeenAll[s] < Total[s] /\ SeenAll' = [SeenAll EXCEPT ![s] = SeenAll[s] + 1]
    BY <1>1, <1>2, <1>5
  <2>2. Delivery!Show(s)
    BY <1>1, <1>2, <1>3, <2>1 DEF Delivery!Show
  <2>3. QED
    BY <1>1, <2>2 DEF Delivery!Next
<1>6. QED
  BY <1>4, <1>5

(* What one call makes of what the customer has got. *)
LEMMA Delivered ==
  ASSUME NEW o, NEW got, NEW more, NEW delivered \in BOOLEAN,
         PieceInv(o, got), o.pc \in UnderWay,
         more = IF delivered THEN Append(got, o.piece) ELSE got
  PROVE  /\ GotInv(more, o.piece) /\ Arrivals(more, o.piece) <= o.attempt + 1
         /\ \/ o.piece = 1 /\ more = <<>>
            \/ more # <<>> /\ more[Len(more)] \in {o.piece - 1, o.piece}
         /\ delivered => more # <<>> /\ more[Len(more)] = o.piece
         /\ SeenIn(got) \in Nat /\ SeenIn(more) \in Nat /\ SeenIn(more) <= o.parts
         /\ SeenIn(more) - SeenIn(got) \in {0, 1}
         /\ delivered => SeenIn(more) = o.piece
<1> DEFINE piece == o.piece
           attempt == o.attempt
<1>1. /\ piece \in Nat \ {0} /\ piece <= o.parts /\ o.parts \in Nat
      /\ attempt \in Nat /\ attempt < MaxAttempts
      /\ GotInv(got, piece) /\ Arrivals(got, piece) <= attempt
      /\ \/ piece = 1 /\ got = <<>>
         \/ got # <<>> /\ got[Len(got)] \in {piece - 1, piece}
  BY DEF PieceInv
<1>2. SeenIn(got) \in {piece - 1, piece} /\ SeenIn(got) \in Nat /\ SeenIn(got) <= o.parts
  BY LastSeen
<1>3. CASE delivered
  <2>1. more = Append(got, piece)
    BY <1>3
  <2> HIDE DEF piece, attempt
  <2>2. /\ GotInv(more, piece) /\ Arrivals(more, piece) <= attempt + 1
        /\ more # <<>> /\ more[Len(more)] = piece
    BY <1>1, <2>1, OneMore
  <2>3. SeenIn(more) = piece
    BY <2>2 DEF SeenIn, Last
  <2>4. SeenIn(more) - SeenIn(got) \in {0, 1}
    BY <1>1, <1>2, <2>3
  <2>5. QED
    BY <1>1, <1>2, <2>2, <2>3, <2>4 DEF piece, attempt
<1>4. CASE ~delivered
  <2>1. more = got
    BY <1>4
  <2>2. Arrivals(got, piece) <= attempt + 1
    <3>1. Arrivals(got, piece) \in Nat
      <4>1. got \in Seq(Nat)
        BY <1>1 DEF GotInv
      <4>2. DOMAIN got = 1..Len(got) /\ Len(got) \in Nat
        BY <4>1
      <4>3. IsFiniteSet(DOMAIN got)
        BY <4>2, FS_Interval
      <4>4. {i \in DOMAIN got : got[i] = piece} \subseteq DOMAIN got
        OBVIOUS
      <4>5. QED
        BY <4>3, <4>4, FS_Subset, FS_CardinalityType DEF Arrivals
    <3> HIDE DEF attempt, piece
    <3>2. QED
      BY <1>1, <3>1
  <2>3. SeenIn(more) - SeenIn(got) = 0
    BY <1>2, <2>1
  <2>4. QED
    BY <1>1, <1>2, <1>4, <2>1, <2>2, <2>3
<1>5. QED
  BY <1>3, <1>4

LEMMA SendDelivery ==
  ASSUME DeliveryInv, NEW s \in Sender, Send(s)
  PROVE  DeliveryInv' /\ [Delivery!Next]_<<Total, SeenAll, Verdicts>>
<1> DEFINE o == sender[s]
           n == sender'[s]
           got == customer[s]
           more == customer'[s]
           last == SeenIn(more) - SeenIn(got)
<1>1. o.pc = "asking" /\ Senders /\ PieceInv(o, got)
  BY DEF Send, DeliveryInv
<1>2. /\ o.pc \in UnderWay /\ o.status = "open" /\ o.parts \in Nat
      /\ o.piece \in Nat \ {0} /\ o.piece <= o.parts /\ o.attempt \in Nat
  BY <1>1 DEF UnderWay, PieceInv
<1>3. Alone(s)
  BY <1>1, SendForm
<1>4. PICK answer \in Answers :
        /\ customer' = [customer EXCEPT
             ![s] = IF answer.delivered THEN Append(@, o.piece) ELSE @]
        /\ \/ answer.ok /\ o.piece = o.parts /\ Ended(o, n, "sent")
           \/ answer.ok /\ o.piece # o.parts /\ NextPiece(o, n)
           \/ o.attempt + 1 < MaxAttempts /\ NextAttempt(o, n)
           \/ Ended(o, n, "failed")
  BY <1>1, SendForm
<1>5. answer.delivered \in BOOLEAN /\ (answer.ok => answer.delivered)
  BY <1>4, Zenon DEF Answers
<1>6. /\ \E g : customer' = [customer EXCEPT ![s] = g]
      /\ more = IF answer.delivered THEN Append(got, o.piece) ELSE got
  BY <1>4 DEF DeliveryInv
<1> HIDE DEF more
<1>7. /\ GotInv(more, o.piece) /\ Arrivals(more, o.piece) <= o.attempt + 1
      /\ \/ o.piece = 1 /\ more = <<>>
         \/ more # <<>> /\ more[Len(more)] \in {o.piece - 1, o.piece}
      /\ answer.delivered => more # <<>> /\ more[Len(more)] = o.piece
      /\ SeenIn(got) \in Nat /\ SeenIn(more) \in Nat /\ SeenIn(more) <= o.parts
      /\ last \in {0, 1}
      /\ answer.delivered => SeenIn(more) = o.piece
  BY <1>1, <1>2, <1>5, <1>6, Delivered
<1>8. SeenIn(more) = SeenIn(got) + last
  BY <1>7
<1> HIDE DEF last
<1>9. ASSUME NEW verdict \in {"sent", "failed"}, Ended(o, n, verdict),
             verdict = "sent" => SeenIn(more) = o.parts
      PROVE  DeliveryInv' /\ Delivery!Close(s)
  <2>1. PieceInv(n, more)
    BY <1>2, <1>7, <1>9 DEF Ended, PieceInv, UnderWay
  <2>2. n.parts = o.parts /\ n.status = verdict
    BY <1>9 DEF Ended
  <2>3. verdict \in {"sent", "failed", "escalated"} /\ verdict # "escalated"
    BY <1>9
  <2> HIDE DEF o, n, got
  <2>4. QED
    BY <1>2, <1>3, <1>6, <1>7, <1>8, <1>9, <2>1, <2>2, <2>3, Decided
       DEF o, n, got, more
<1>10. ASSUME n.status = "open", n.parts = o.parts, PieceInv(n, more)
       PROVE  DeliveryInv' /\ [Delivery!Next]_<<Total, SeenAll, Verdicts>>
  <2> HIDE DEF o, n, got
  <2>1. QED
    BY <1>2, <1>3, <1>6, <1>7, <1>8, <1>10, Continued DEF o, n, got, more
<1>11. CASE answer.ok /\ o.piece = o.parts /\ Ended(o, n, "sent")
  BY <1>5, <1>7, <1>9, <1>11 DEF Delivery!Next
<1>12. CASE answer.ok /\ o.piece # o.parts /\ NextPiece(o, n)
  <2>1. /\ n.pc = "ready" /\ n.piece = o.piece + 1 /\ n.attempt = 0
        /\ n.parts = o.parts /\ n.status = "open"
    BY <1>2, <1>12 DEF NextPiece
  <2>2. GotInv(more, o.piece + 1) /\ Arrivals(more, o.piece + 1) = 0
    BY <1>2, <1>7, NotYet
  <2>3. o.piece + 1 \in Nat \ {0} /\ o.piece + 1 <= o.parts /\ o.piece + 1 - 1 = o.piece
    BY <1>2, <1>12
  <2>4. MaxAttempts \in Nat \ {0}
    BY DispatchAssumption
  <2>5. more # <<>> /\ more[Len(more)] = o.piece
    BY <1>5, <1>7, <1>12
  <2> HIDE DEF o, n
  <2>6. PieceInv(n, more)
    BY <1>2, <2>1, <2>2, <2>3, <2>4, <2>5 DEF PieceInv, UnderWay
  <2>7. QED
    BY <2>1, <2>6, <1>10
<1>13. CASE o.attempt + 1 < MaxAttempts /\ NextAttempt(o, n)
  <2>1. /\ n.pc = "asleep" /\ n.piece = o.piece /\ n.attempt = o.attempt + 1
        /\ n.parts = o.parts /\ n.status = "open"
    BY <1>2, <1>13 DEF NextAttempt
  <2> HIDE DEF o, n
  <2>2. PieceInv(n, more)
    BY <1>2, <1>7, <1>13, <2>1 DEF PieceInv, UnderWay
  <2>3. QED
    BY <2>1, <2>2, <1>10
<1>14. CASE Ended(o, n, "failed")
  BY <1>9, <1>14 DEF Delivery!Next
<1>15. QED
  BY <1>4, <1>11, <1>12, <1>13, <1>14

(* Every text makes finitely many pieces: its dispatch can be counted. *)
LEMMA InitDelivery == Init => DeliveryInv /\ Delivery!Init
<1> SUFFICES ASSUME Init PROVE DeliveryInv /\ Delivery!Init
  OBVIOUS
<1>1. PICK drafts \in {d \in [Sender -> UNION {Drafts[s] : s \in Sender}] :
                        \A s \in Sender : d[s] \in Drafts[s]} :
        sender = [s \in Sender |->
          [pc |-> "new", draft |-> drafts[s],
           parts |-> Len(Pieces(drafts[s].text, caps.limit)), piece |-> 1,
           attempt |-> 0, read |-> 0, wake |-> 0, status |-> "open"]]
  BY DEF Init
<1>2. caps.limit \in Nat \ {0}
  BY DispatchAssumption DEF Init, Manifest
<1>3. ASSUME NEW s \in Sender
      PROVE  /\ DOMAIN sender[s] = SenderFields /\ sender[s].parts \in Nat
             /\ sender[s].pc = "new" /\ sender[s].status = "open"
             /\ sender[s].piece = 1 /\ sender[s].attempt = 0
  <2>1. drafts[s] \in Draft
    BY <1>1, DispatchAssumption
  <2>2. drafts[s].text \in Seq(Char)
    BY <2>1 DEF Draft
  <2>3. Pieces(drafts[s].text, caps.limit) \in Seq(Fitting(caps.limit))
    BY <1>2, <2>2, EveryPieceFits
  <2>4. Len(Pieces(drafts[s].text, caps.limit)) \in Nat
    BY <2>3
  <2> DEFINE count == Len(Pieces(drafts[s].text, caps.limit))
             draft == drafts[s]
  <2>5. sender[s] = [pc |-> "new", draft |-> draft, parts |-> count, piece |-> 1,
                     attempt |-> 0, read |-> 0, wake |-> 0, status |-> "open"]
    BY <1>1
  <2> HIDE DEF count, draft
  <2>6. QED
    BY <2>4, <2>5 DEF SenderFields, count
<1>4. Senders
  BY <1>1, <1>3 DEF Senders
<1>5. customer = [s \in Sender |-> <<>>]
  BY DEF Init
<1>6. DeliveryInv
  BY <1>3, <1>4, <1>5, NothingYet DEF DeliveryInv, PieceInv, UnderWay
<1>7. Total \in [Sender -> Nat] /\ Verdicts = [s \in Sender |-> "open"]
  BY <1>3 DEF Total, Verdicts
<1>8. SeenAll = [s \in Sender |-> 0]
  BY <1>5 DEF SeenAll, Seen
<1>9. QED
  BY <1>6, <1>7, <1>8 DEF Delivery!Init

LEMMA DeliveryKeeps ==
  DeliveryInv /\ [Next]_vars
    => DeliveryInv' /\ [Delivery!Next]_<<Total, SeenAll, Verdicts>>
<1> SUFFICES ASSUME DeliveryInv, [Next]_vars
             PROVE  DeliveryInv' /\ [Delivery!Next]_<<Total, SeenAll, Verdicts>>
  OBVIOUS
<1>1. Senders
  BY DEF DeliveryInv
<1>2. CASE UNCHANGED <<sender, customer>>
  BY <1>2 DEF DeliveryInv, Senders, Total, SeenAll, Seen, Verdicts
<1>3. ASSUME NEW s \in Sender, ReadClock(s)
      PROVE  DeliveryInv' /\ UNCHANGED <<Total, SeenAll, Verdicts>>
  BY <1>1, <1>3, ReadForm, MovedInv DEF ReadClock, UnderWay
<1>4. ASSUME NEW s \in Sender, Wake(s)
      PROVE  DeliveryInv' /\ UNCHANGED <<Total, SeenAll, Verdicts>>
  BY <1>1, <1>4, GotoForm, MovedInv DEF Wake, UnderWay
<1>5. CASE Tick
  BY <1>2, <1>5 DEF Tick
<1>6. CASE UNCHANGED vars
  BY <1>2, <1>6 DEF vars
<1>7. QED
  BY <1>3, <1>4, <1>5, <1>6, BeginDelivery, AcquireDelivery, SendDelivery DEF Next, Step

(* However many answers are lost, pieces repeated and calls refused, the   *)
(* customer reads the pieces in order, none is skipped, and a row that     *)
(* says sent has all of them delivered.                                    *)
THEOREM DispatchImplementsReplyDelivery == Spec => ImplementsReplyDelivery
BY InitDelivery, DeliveryKeeps, PTL DEF Spec, ImplementsReplyDelivery, Delivery!Spec, Delivery!vars

(* What ReplyDelivery promises, and what that means of the pieces the      *)
(* customer has.                                                           *)
Whole(s) == Range(customer[s]) = 1..Seen(s)

Promise == Delivery!TypeOK /\ Delivery!VerdictIsTrue

LEMMA PromiseInit == Delivery!Init => Promise
BY DEF Delivery!Init, Delivery!TypeOK, Delivery!VerdictIsTrue, Delivery!Verdict, Promise

LEMMA PromiseKeeps ==
  ASSUME Promise, [Delivery!Next]_<<Total, SeenAll, Verdicts>>
  PROVE  /\ Promise'
         /\ \A s \in Sender : /\ SeenAll'[s] \in {SeenAll[s], SeenAll[s] + 1}
                              /\ Verdicts[s] # "open" => /\ Verdicts'[s] = Verdicts[s]
                                                         /\ SeenAll'[s] = SeenAll[s]
<1>1. /\ Total \in [Sender -> Nat] /\ SeenAll \in [Sender -> Nat]
      /\ Verdicts \in [Sender -> Delivery!Verdict]
      /\ \A r \in Sender : /\ SeenAll[r] <= Total[r]
                           /\ Verdicts[r] = "sent" => SeenAll[r] = Total[r]
                           /\ Verdicts[r] = "escalated" => SeenAll[r] = 0
  BY DEF Promise, Delivery!TypeOK, Delivery!VerdictIsTrue
<1> DEFINE Kept == /\ Promise'
                   /\ \A s \in Sender :
                        /\ SeenAll'[s] \in {SeenAll[s], SeenAll[s] + 1}
                        /\ Verdicts[s] # "open" => /\ Verdicts'[s] = Verdicts[s]
                                                   /\ SeenAll'[s] = SeenAll[s]
<1>2. CASE UNCHANGED <<Total, SeenAll, Verdicts>>
  BY <1>2 DEF Promise, Delivery!TypeOK, Delivery!VerdictIsTrue
<1>3. ASSUME NEW r \in Sender, NEW more \in {0, 1}, NEW v \in Delivery!Verdict,
             Verdicts[r] = "open", SeenAll[r] + more <= Total[r],
             v = "sent" => SeenAll[r] + more = Total[r],
             v = "escalated" => SeenAll[r] + more = 0,
             SeenAll' = [SeenAll EXCEPT ![r] = SeenAll[r] + more],
             Verdicts' = [Verdicts EXCEPT ![r] = v], UNCHANGED Total
      PROVE  Kept
  <2>1. SeenAll[r] \in Nat /\ SeenAll[r] + more \in Nat
    BY <1>1
  <2>2. /\ SeenAll' \in [Sender -> Nat] /\ Verdicts' \in [Sender -> Delivery!Verdict]
        /\ SeenAll'[r] = SeenAll[r] + more /\ Verdicts'[r] = v
        /\ \A q \in Sender \ {r} : SeenAll'[q] = SeenAll[q] /\ Verdicts'[q] = Verdicts[q]
    BY <1>1, <1>3, <2>1
  <2>3. ASSUME NEW q \in Sender
        PROVE  /\ SeenAll'[q] <= Total'[q]
               /\ Verdicts'[q] = "sent" => SeenAll'[q] = Total'[q]
               /\ Verdicts'[q] = "escalated" => SeenAll'[q] = 0
               /\ SeenAll'[q] \in {SeenAll[q], SeenAll[q] + 1}
               /\ Verdicts[q] # "open" => /\ Verdicts'[q] = Verdicts[q]
                                          /\ SeenAll'[q] = SeenAll[q]
    <3>1. CASE q = r
      BY <1>3, <2>1, <2>2, <3>1
    <3>2. CASE q # r
      BY <1>1, <1>3, <2>2, <3>2
    <3>3. QED
      BY <3>1, <3>2
  <2>4. QED
    BY <1>1, <1>3, <2>2, <2>3 DEF Promise, Delivery!TypeOK, Delivery!VerdictIsTrue
<1>4. ASSUME NEW r \in Sender, Delivery!Show(r) PROVE Kept
  <2>1. /\ Verdicts[r] = "open" /\ SeenAll[r] < Total[r]
        /\ SeenAll' = [SeenAll EXCEPT ![r] = SeenAll[r] + 1]
        /\ UNCHANGED <<Total, Verdicts>>
    BY <1>1, <1>4 DEF Delivery!Show
  <2>2. SeenAll[r] + 1 <= Total[r]
    BY <1>1, <2>1
  <2>3. Verdicts' = [Verdicts EXCEPT ![r] = "open"] /\ "open" \in Delivery!Verdict
    BY <1>1, <2>1 DEF Delivery!Verdict
  <2> HIDE DEF Kept
  <2>4. QED
    BY <1>3, <2>1, <2>2, <2>3
<1>5. ASSUME NEW r \in Sender, Delivery!Close(r) PROVE Kept
  <2>1. PICK more \in {0, 1}, v \in Delivery!Verdict \ {"open"} :
          /\ SeenAll[r] + more <= Total[r]
          /\ v = "sent" => SeenAll[r] + more = Total[r]
          /\ v = "escalated" => SeenAll[r] + more = 0
          /\ SeenAll' = [SeenAll EXCEPT ![r] = SeenAll[r] + more]
          /\ Verdicts' = [Verdicts EXCEPT ![r] = v]
    BY <1>1, <1>5 DEF Delivery!Close
  <2>2. Verdicts[r] = "open" /\ UNCHANGED Total
    BY <1>5 DEF Delivery!Close
  <2> HIDE DEF Kept
  <2>3. QED
    BY <1>3, <2>1, <2>2
<1>6. QED
  BY <1>2, <1>4, <1>5 DEF Delivery!Next

(* A row that says sent has all of the reply delivered, one that says      *)
(* escalated nothing, and what is decided stays so, whatever comes late.   *)
THEOREM VerdictsAlwaysTrue == Spec => []Delivery!VerdictIsTrue /\ Delivery!DecidedIsFinal
<1>1. Promise /\ [Delivery!Next]_Delivery!vars
        => /\ Promise'
           /\ [\A r \in Sender : Verdicts[r] # "open"
                 => Verdicts'[r] = Verdicts[r] /\ SeenAll'[r] = SeenAll[r]]_Delivery!vars
  BY PromiseKeeps DEF Delivery!vars
<1>2. Promise => Delivery!VerdictIsTrue
  BY DEF Promise
<1>3. QED
  BY <1>1, <1>2, PromiseInit, DispatchImplementsReplyDelivery, PTL
     DEF ImplementsReplyDelivery, Delivery!Spec, Delivery!DecidedIsFinal

(* One step adds at most a piece, the one that is seen then. *)
LEMMA WholeKeeps ==
  ASSUME DeliveryInv, Promise, [Next]_vars, NEW s \in Sender, Whole(s)
  PROVE  Whole(s)'
<1> DEFINE got == customer[s]
           more == customer'[s]
<1>1. DeliveryInv' /\ SeenAll'[s] \in {SeenAll[s], SeenAll[s] + 1}
  BY DeliveryKeeps, PromiseKeeps
<1>2. /\ SeenAll[s] = SeenIn(got) /\ SeenAll'[s] = SeenIn(more)
      /\ Range(got) = 1..SeenIn(got) /\ (Whole(s)' <=> Range(more) = 1..SeenIn(more))
  BY DEF SeenAll, Seen, SeenIn, Whole
<1>3. SeenIn(got) \in Nat
  BY <1>2 DEF Promise, Delivery!TypeOK
<1>4. \/ more = got
      \/ \E p : more = Append(got, p)
  <2>1. customer = [r \in Sender |-> customer[r]]
    BY DEF DeliveryInv
  <2>2. ASSUME NEW r \in Sender, Send(r) PROVE more = got \/ \E p : more = Append(got, p)
    BY <2>1, <2>2 DEF Send
  <2>3. CASE UNCHANGED customer
    BY <2>3
  <2>4. QED
    BY <2>2, <2>3 DEF Next, Step, Tick, Begin, ReadClock, Acquire, Wake, vars
<1>5. CASE more = got
  BY <1>2, <1>5
<1>6. ASSUME NEW p, more = Append(got, p) PROVE Range(more) = 1..SeenIn(more)
  <2>1. (\E n \in Nat : GotInv(got, n)) /\ (\E n \in Nat : GotInv(more, n))
    BY <1>1 DEF DeliveryInv, PieceInv
  <2>2. got \in Seq(Nat) /\ more \in Seq(Nat) /\ \A i \in DOMAIN more : 1 <= more[i]
    BY <2>1 DEF GotInv
  <2> DEFINE n == Len(got)
  <2>3. /\ n \in Nat /\ DOMAIN got = 1..n /\ DOMAIN more = 1..(n + 1) /\ Len(more) = n + 1
        /\ more[n + 1] = p /\ \A i \in 1..n : more[i] = got[i]
    BY <1>6, <2>2
  <2> HIDE DEF got, more, n
  <2>4. SeenIn(more) = p /\ p \in Nat /\ 1 <= p
    <3>1. n + 1 \in DOMAIN more /\ more # <<>>
      BY <2>3
    <3>2. SeenIn(more) = p
      BY <2>3, <3>1 DEF SeenIn, Last
    <3>3. p \in Nat /\ 1 <= p
      BY <2>2, <2>3, <3>1
    <3>4. QED
      BY <3>2, <3>3
  <2>5. Range(more) = Range(got) \cup {p}
    <3>1. \A i \in 1..(n + 1) : i = n + 1 \/ i \in 1..n
      BY <2>3
    <3>2. \A i \in 1..n : i \in 1..(n + 1)
      BY <2>3
    <3>3. n + 1 \in 1..(n + 1)
      BY <2>3
    <3>4. Range(more) \subseteq Range(got) \cup {p}
      BY <2>3, <3>1 DEF Range
    <3>5. Range(got) \cup {p} \subseteq Range(more)
      BY <2>3, <3>2, <3>3 DEF Range
    <3>6. QED
      BY <3>4, <3>5
  <2>6. p \in {SeenIn(got), SeenIn(got) + 1}
    BY <1>1, <1>2, <2>4
  <2>7. 1..SeenIn(got) \cup {p} = 1..p
    BY <1>3, <2>4, <2>6
  <2>8. QED
    BY <1>2, <2>4, <2>5, <2>7
<1>7. QED
  BY <1>2, <1>4, <1>5, <1>6

(* The pieces themselves: of a reply recorded as sent the customer has     *)
(* every one, of one handed over none, and of one still under way the      *)
(* first ones without a gap.                                               *)
Complete ==
  \A s \in Sender :
     /\ Range(customer[s]) = 1..Seen(s)
     /\ sender[s].status = "sent" => Range(customer[s]) = 1..sender[s].parts
     /\ sender[s].status = "escalated" => Range(customer[s]) = {}

THEOREM SentIsComplete == Spec => []Complete
<1> DEFINE Inv == DeliveryInv /\ Promise /\ \A s \in Sender : Whole(s)
<1>1. Init => Inv
  <2>1. Init => \A s \in Sender : Whole(s)
    <3>1. Init => \A s \in Sender : customer[s] = <<>>
      BY DEF Init
    <3>2. Range(<<>>) = 1..0
      BY DEF Range
    <3>3. QED
      BY <3>1, <3>2 DEF Whole, Seen
  <2>2. QED
    BY <2>1, InitDelivery, PromiseInit
<1>2. Inv /\ [Next]_vars => Inv'
  BY DeliveryKeeps, PromiseKeeps, WholeKeeps
<1>3. Inv => Complete
  <2>1. SUFFICES ASSUME Inv, NEW s \in Sender
                 PROVE  /\ sender[s].status = "sent" => Seen(s) = sender[s].parts
                        /\ sender[s].status = "escalated" => Seen(s) = 0
    BY DEF Complete, Whole
  <2>2. /\ Verdicts[s] = "sent" => SeenAll[s] = Total[s]
        /\ Verdicts[s] = "escalated" => SeenAll[s] = 0
    BY <2>1 DEF Promise, Delivery!VerdictIsTrue
  <2>3. QED
    BY <2>2 DEF Total, SeenAll, Verdicts
<1> HIDE DEF Inv
<1>4. QED
  BY <1>1, <1>2, <1>3, PTL DEF Spec

(* No piece arrives after a later one, nor more often than it is tried. *)
THEOREM RepeatsStayAdjacent == Spec => []RepeatsAreAdjacent
<1>1. DeliveryInv => RepeatsAreAdjacent
  <2> SUFFICES ASSUME DeliveryInv, NEW s \in Sender
               PROVE  /\ InOrder(customer[s])
                      /\ \A p \in 1..sender[s].parts : Copies(s, p) <= MaxAttempts
    BY DEF RepeatsAreAdjacent, InOrder
  <2>1. PICK n \in Nat : GotInv(customer[s], n)
    BY DEF DeliveryInv, PieceInv
  <2>2. \A p \in Nat : Arrivals(customer[s], p) <= MaxAttempts
    BY <2>1 DEF GotInv
  <2>3. \A p : Copies(s, p) = Arrivals(customer[s], p)
    BY DEF Copies, Arrivals
  <2>4. 1..sender[s].parts \subseteq Nat
    BY DEF DeliveryInv, PieceInv
  <2>5. QED
    BY <2>1, <2>2, <2>3, <2>4 DEF GotInv
<1>2. QED
  BY <1>1, InitDelivery, DeliveryKeeps, PTL DEF Spec

-----------------------------------------------------------------------------
(* Types. *)

(* The back-off is a number: it counts the subsets of a finite set. *)
LEMMA BackOffTyped == ASSUME NEW n \in Nat PROVE 2^n \in Nat
<1>1. IsFiniteSet(1..n) /\ Cardinality(1..n) = n
  BY FS_Interval
<1>2. IsFiniteSet(SUBSET (1..n)) /\ Cardinality(SUBSET (1..n)) = 2^n
  BY <1>1, FS_SUBSET
<1>3. Cardinality(SUBSET (1..n)) \in Nat
  BY <1>2, FS_CardinalityType
<1>4. QED
  BY <1>2, <1>3

LEMMA TokensTyped ==
  ASSUME TypeOK, NEW now \in Nat
  PROVE  Tokens(now) \in Int
<1>1. Capacity \in Int /\ Refill \in Int
  BY DispatchAssumption
<1>2. CASE Stored = Never
  BY <1>1, <1>2 DEF Tokens
<1>3. CASE Stored # Never
  <2>1. Stored \in Bucket
    BY <1>3 DEF Stored, TypeOK
  <2>2. Stored.tokens \in Int /\ Stored.ts \in Int
    BY <2>1 DEF Bucket
  <2>3. Stored.tokens + (now - Stored.ts) * Refill \in Int
    BY <1>1, <2>2
  <2>4. Min({Capacity, Stored.tokens + (now - Stored.ts) * Refill}) \in Int
    BY <1>1, <2>3, LeastOf
  <2>5. QED
    BY <1>3, <2>4 DEF Tokens
<1>4. QED
  BY <1>2, <1>3

LEMMA GotoTyped ==
  ASSUME TypeOK, NEW s \in Sender, NEW pc \in {"ready", "asking"}, Goto(s, pc)
  PROVE  sender' \in [Sender -> SenderState]
<1>1. [sender[s] EXCEPT !.pc = pc, !.read = 0, !.wake = 0] \in SenderState
  BY DEF TypeOK, SenderState
<1>2. QED
  BY <1>1 DEF Goto, TypeOK

LEMMA RecordTyped ==
  ASSUME TypeOK, NEW s \in Sender, NEW status \in {"sent", "failed", "escalated"},
         Record(s, status)
  PROVE  sender' \in [Sender -> SenderState]
<1>1. [sender[s] EXCEPT !.pc = "done", !.read = 0, !.piece = 0, !.attempt = 0,
                        !.status = status] \in SenderState
  BY DEF TypeOK, SenderState
<1>2. QED
  BY <1>1 DEF Record, TypeOK

LEMMA StrandTyped ==
  ASSUME TypeOK, NEW s \in Sender, Strand(s)
  PROVE  sender' \in [Sender -> SenderState]
<1>1. [sender[s] EXCEPT !.pc = "stranded", !.read = 0, !.piece = 0, !.attempt = 0]
        \in SenderState
  BY DEF TypeOK, SenderState
<1>2. QED
  BY <1>1 DEF Strand, TypeOK

LEMMA AcquireTyped == ASSUME TypeOK, NEW s \in Sender, Acquire(s) PROVE TypeOK'
<1> DEFINE now == sender[s].read
           spent == IF Tokens(now) >= Token THEN Token ELSE 0
<1>1. /\ clock \in Nat /\ now \in Nat /\ spent \in Nat
  BY DispatchAssumption DEF TypeOK, SenderState
<1>2. \/ bucket' = [tokens |-> Tokens(now) - spent, ts |-> now, touched |-> clock]
      \/ bucket' = bucket
  BY DEF Acquire
<1>3. Tokens(now) \in Int
  BY <1>1, TokensTyped
<1> HIDE DEF now, spent
<1>4. bucket' \in Bucket \cup {Never}
  <2>1. Tokens(now) - spent \in Int
    BY <1>1, <1>3
  <2>2. QED
    BY <1>1, <1>2, <2>1 DEF Bucket, TypeOK
<1>5. /\ Goto(s, "asking") \/ Record(s, "failed") \/ Strand(s)
      /\ spends' = Append(spends, clock) \/ spends' = spends
  BY DEF Acquire
<1>6. sender' \in [Sender -> SenderState]
  BY <1>5, GotoTyped, RecordTyped, StrandTyped
<1>7. spends' \in Seq(Nat)
  <2>1. spends \in Seq(Nat) /\ Append(spends, clock) \in Seq(Nat)
    BY <1>1 DEF TypeOK
  <2>2. spends' = Append(spends, clock) \/ spends' = spends
    BY <1>5
  <2>3. QED
    BY <2>1, <2>2
<1>8. UNCHANGED <<clock, caps, customer>>
  BY DEF Acquire
<1>9. QED
  BY <1>4, <1>6, <1>7, <1>8 DEF TypeOK

LEMMA SendTyped == ASSUME TypeOK, NEW s \in Sender, Send(s) PROVE TypeOK'
<1> DEFINE o == sender[s]
<1>1. PICK answer \in Answers :
        /\ customer' = [customer EXCEPT
             ![s] = IF answer.delivered THEN Append(@, o.piece) ELSE @]
        /\ IF answer.ok THEN AfterOk(s) ELSE AfterFailure(s, answer)
  BY DEF Send
<1>2. o \in SenderState /\ clock \in Nat
  BY DEF TypeOK
<1>3. o.piece \in Nat /\ o.attempt \in Nat
  BY <1>2 DEF SenderState
<1> HIDE DEF o
<1>4. customer' \in [Sender -> Seq(Nat)]
  <2>1. Append(customer[s], o.piece) \in Seq(Nat)
    BY <1>3 DEF TypeOK
  <2>2. QED
    BY <1>1, <2>1 DEF TypeOK
<1>5. ASSUME sender' = [sender EXCEPT ![s].pc = "ready", ![s].piece = @ + 1, ![s].attempt = 0]
      PROVE  sender' \in [Sender -> SenderState]
  <2> DEFINE next == o.piece + 1
  <2>1. next \in Nat
    BY <1>3
  <2>2. sender' = [sender EXCEPT ![s] = [o EXCEPT !.pc = "ready", !.piece = next, !.attempt = 0]]
    BY <1>5 DEF o
  <2> HIDE DEF next
  <2>3. [o EXCEPT !.pc = "ready", !.piece = next, !.attempt = 0] \in SenderState
    BY <1>2, <2>1 DEF SenderState
  <2>4. QED
    BY <2>2, <2>3 DEF TypeOK
<1>6. ASSUME sender' = [sender EXCEPT ![s].pc = "asleep",
                                      ![s].wake = clock + 2^sender[s].attempt,
                                      ![s].attempt = @ + 1]
      PROVE  sender' \in [Sender -> SenderState]
  <2> DEFINE wake == clock + 2^o.attempt
             next == o.attempt + 1
  <2>1. wake \in Nat /\ next \in Nat
    BY <1>2, <1>3, BackOffTyped
  <2>2. sender' = [sender EXCEPT ![s] =
          [o EXCEPT !.pc = "asleep", !.wake = wake, !.attempt = next]]
    BY <1>6 DEF o
  <2> HIDE DEF wake, next
  <2>3. [o EXCEPT !.pc = "asleep", !.wake = wake, !.attempt = next] \in SenderState
    BY <1>2, <2>1 DEF SenderState
  <2>4. QED
    BY <2>2, <2>3 DEF TypeOK
<1>7. sender' \in [Sender -> SenderState]
  <2>1. CASE answer.ok
    BY <1>1, <1>5, <2>1, RecordTyped DEF AfterOk
  <2>2. CASE ~answer.ok
    BY <1>1, <1>6, <2>2, RecordTyped DEF AfterFailure
  <2>3. QED
    BY <2>1, <2>2
<1>8. UNCHANGED <<clock, caps, bucket, spends>>
  BY DEF Send
<1>9. QED
  BY <1>4, <1>7, <1>8 DEF TypeOK

LEMMA TypeInit == Init => TypeOK
<1> SUFFICES ASSUME Init PROVE TypeOK
  OBVIOUS
<1> DEFINE all == UNION {Drafts[s] : s \in Sender}
<1>1. caps \in Manifests /\ caps.limit \in Nat \ {0}
  BY DispatchAssumption DEF Init, Manifest
<1>2. PICK drafts \in [Sender -> all] :
        /\ \A s \in Sender : drafts[s] \in Drafts[s]
        /\ sender = [s \in Sender |->
             [pc |-> "new", draft |-> drafts[s],
              parts |-> Len(Pieces(drafts[s].text, caps.limit)), piece |-> 1, attempt |-> 0,
              read |-> 0, wake |-> 0, status |-> "open"]]
  BY DEF Init
<1> HIDE DEF all
<1>3. ASSUME NEW s \in Sender
      PROVE  drafts[s] \in all /\ Len(Pieces(drafts[s].text, caps.limit)) \in Nat
  <2>1. drafts[s] \in Draft
    BY <1>2, DispatchAssumption
  <2>2. drafts[s].text \in Seq(Char)
    BY <2>1 DEF Draft
  <2>3. Pieces(drafts[s].text, caps.limit) \in Seq(Fitting(caps.limit))
    BY <1>1, <2>2, EveryPieceFits
  <2>4. QED
    BY <1>2, <2>3
<1>4. sender \in [Sender -> SenderState]
  <2>1. ASSUME NEW s \in Sender, NEW parts \in Nat
        PROVE  [pc |-> "new", draft |-> drafts[s], parts |-> parts, piece |-> 1,
                attempt |-> 0, read |-> 0, wake |-> 0, status |-> "open"] \in SenderState
    BY <1>3 DEF SenderState, all
  <2>2. QED
    BY <1>2, <1>3, <2>1
<1>5. /\ clock = 0 /\ bucket = Never /\ spends = <<>>
      /\ customer = [s \in Sender |-> <<>>]
  BY DEF Init
<1>6. QED
  BY <1>1, <1>4, <1>5 DEF TypeOK

LEMMA TypeKeeps == TypeOK /\ [Next]_vars => TypeOK'
<1> SUFFICES ASSUME TypeOK, [Next]_vars PROVE TypeOK'
  OBVIOUS
<1>1. CASE UNCHANGED vars
  BY <1>1 DEF vars, TypeOK
<1>2. CASE Tick
  BY <1>2 DEF Tick, TypeOK
<1>3. ASSUME NEW s \in Sender, Begin(s) \/ Wake(s) PROVE TypeOK'
  <2>1. sender' \in [Sender -> SenderState]
    BY <1>3, GotoTyped, RecordTyped DEF Begin, Wake
  <2>2. UNCHANGED <<clock, caps, bucket, customer, spends>>
    BY <1>3 DEF Begin, Wake
  <2>3. QED
    BY <2>1, <2>2 DEF TypeOK
<1>4. ASSUME NEW s \in Sender, ReadClock(s) PROVE TypeOK'
  <2> DEFINE read == clock + Ahead[s]
  <2>1. read \in Nat
    BY DispatchAssumption DEF TypeOK
  <2>2. /\ sender' = [sender EXCEPT ![s].pc = "timed", ![s].read = read]
        /\ UNCHANGED <<clock, caps, bucket, customer, spends>>
    BY <1>4 DEF ReadClock
  <2> HIDE DEF read
  <2>3. [sender[s] EXCEPT !.pc = "timed", !.read = read] \in SenderState
    BY <2>1 DEF TypeOK, SenderState
  <2>4. QED
    BY <2>2, <2>3 DEF TypeOK
<1>5. QED
  BY <1>1, <1>2, <1>3, <1>4, AcquireTyped, SendTyped DEF Next, Step

(* Counters, clocks and buckets keep their types: the pieces are a number  *)
(* since the cut ends, the tokens a whole one, perhaps below zero.         *)
THEOREM DispatchTypeCorrect == Spec => []TypeOK
BY TypeInit, TypeKeeps, PTL DEF Spec

-----------------------------------------------------------------------------
LEMMA TextsTyped ==
  ASSUME NEW t \in BoundedTexts
  PROVE  t \in Seq(Char)
<1>1. PICK k \in 0..TextLength : t \in [1..k -> Char]
  BY DEF BoundedTexts, Texts
<1>2. k \in Nat
  BY TextLengthAssumption
<1>3. QED
  BY <1>1, <1>2

(* On every channel, the cut of every text up to the bound and for every   *)
(* limit up to the channel's keeps its text and its words.                 *)
THEOREM CutsAlwaysKeepText == Spec => []CutsKeepText
<1>1. ASSUME TypeOK PROVE CutsKeepText
  <2>1. ASSUME NEW n \in 1..caps.limit, NEW t \in BoundedTexts
        PROVE  CutKeepsText(t, n) /\ CutKeepsWords(t, n)
    <3>1. caps.limit \in Nat
      BY <1>1, DispatchAssumption DEF TypeOK, Manifest
    <3>2. n \in Nat \ {0}
      BY <3>1
    <3>3. QED
      BY <3>2, TextsTyped, CutKeepsEveryText
  <2>2. QED
    BY <1>1, <2>1 DEF TypeOK, CutsKeepText, KeepText
<1>2. QED
  BY <1>1, DispatchTypeCorrect, PTL

(* ... and the composer marks it where it is, when the text is plain. *)
THEOREM PlainCutsAlwaysMarked == Spec => []PlainCutsAreMarked
<1>1. ASSUME TypeOK PROVE PlainCutsAreMarked
  <2>1. ASSUME NEW n \in 1..caps.limit, NEW t \in BoundedTexts, Plain(t)
        PROVE  MarksAreCuts(t, n)
    <3>1. caps.limit \in Nat
      BY <1>1, DispatchAssumption DEF TypeOK, Manifest
    <3>2. n \in Nat \ {0}
      BY <3>1
    <3>3. QED
      BY <2>1, <3>2, TextsTyped, EveryPlainCutIsMarked
  <2>2. QED
    BY <1>1, <2>1 DEF TypeOK, PlainCutsAreMarked, MarkPlainCuts
<1>2. QED
  BY <1>1, DispatchTypeCorrect, PTL

=============================================================================
