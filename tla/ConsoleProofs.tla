---------------------------- MODULE ConsoleProofs ----------------------------
(***************************************************************************)
(* The agent's list and the logout, for any conversations, requests,       *)
(* tokens and pages.                                                       *)
(*                                                                         *)
(* The list: what a page is asked for and what it answers are related to   *)
(* the cursor only while no other list request can change it, and two list *)
(* requests that are under way together have both crossed.  So an          *)
(* uncrossed answer continues the list where its cursor is, and whatever   *)
(* moves meanwhile is counted as moved.                                    *)
(*                                                                         *)
(* The logout: a session begun before it is over, or among those that it   *)
(* is about to end, at each of its steps; and what is over stays over.     *)
(***************************************************************************)
EXTENDS Console, FiniteSetTheorems, TLAPS

(* What the lists' operators do. *)

(* An element of a set of numbers is found at the place it has in it. *)
LEMMA NthHits ==
  ASSUME NEW S, S \subseteq Nat, IsFiniteSet(S), NEW i \in S
  PROVE  LET n == Cardinality({j \in S : j <= i}) IN
         n \in 1..Cardinality(S) /\ Nth(S, n) = i
<1> DEFINE upTo(h) == {j \in S : j <= h}
           n == Cardinality(upTo(i))
<1>1. \A h \in S : /\ IsFiniteSet(upTo(h)) /\ Cardinality(upTo(h)) \in Nat
                   /\ Cardinality(upTo(h)) <= Cardinality(S)
  BY FS_Subset, FS_CardinalityType
<1>2. ASSUME NEW g \in S, NEW h \in S, g < h
      PROVE  Cardinality(upTo(g)) < Cardinality(upTo(h))
  <2>1. upTo(g) \in SUBSET upTo(h) /\ h \in upTo(h) /\ h \notin upTo(g)
    <3>1. g \in Nat /\ h \in Nat /\ \A j \in S : j \in Nat
      OBVIOUS
    <3>2. \A j \in S : j <= g => j <= h
      BY <1>2, <3>1
    <3>3. h <= h /\ ~(h <= g)
      BY <1>2, <3>1
    <3>4. QED
      BY <3>2, <3>3
  <2> HIDE DEF upTo
  <2>2. QED
    BY <1>1, <2>1, FS_Subset
<1>3. n # 0
  <2>1. i \in upTo(i)
    OBVIOUS
  <2> HIDE DEF upTo
  <2>2. QED
    BY <1>1, <2>1, FS_EmptySet
<1>4. Cardinality(S) \in Nat
  BY FS_CardinalityType
<1>5. n \in 1..Cardinality(S)
  <2> HIDE DEF upTo
  <2>1. QED
    BY <1>1, <1>3, <1>4
<1>6. ASSUME NEW h \in S, Cardinality(upTo(h)) = n PROVE h = i
  <2> HIDE DEF upTo
  <2>1. ~(h < i) /\ ~(i < h)
    BY <1>1, <1>2, <1>6
  <2>2. QED
    BY <2>1
<1>7. Nth(S, n) = i
  BY <1>6 DEF Nth
<1>8. QED
  BY <1>5, <1>7

(* Picking visits every position once. *)
LEMMA PicksAll ==
  ASSUME NEW S, S \subseteq Nat, IsFiniteSet(S)
  PROVE  /\ Cardinality(S) \in Nat
         /\ \A n \in 1..Cardinality(S) : Nth(S, n) \in S
         /\ \A i \in S : \E n \in 1..Cardinality(S) : Nth(S, n) = i
         /\ \A m, n \in 1..Cardinality(S) : Nth(S, m) = Nth(S, n) => m = n
<1> DEFINE c == Cardinality(S)
           place(i) == Cardinality({j \in S : j <= i})
           places == [i \in S |-> place(i)]
<1>1. c \in Nat
  BY FS_CardinalityType
<1>2. \A i \in S : place(i) \in 1..c /\ Nth(S, place(i)) = i
  BY NthHits
<1>3. places \in Injection(S, 1..c)
  <2> HIDE DEF place, c
  <2>1. places \in [S -> 1..c] /\ \A i, j \in S : places[i] = places[j] => i = j
    BY <1>2
  <2>2. QED
    BY <2>1 DEF Injection, IsInjective
<1>4. IsFiniteSet(1..c) /\ Cardinality(1..c) = c
  BY <1>1, FS_Interval
<1>5. places \in Surjection(S, 1..c)
  BY <1>3, <1>4, FS_Injection
<1>6. \A n \in 1..c : \E i \in S : place(i) = n
  <2> HIDE DEF place, c
  <2>1. QED
    BY <1>5 DEF Surjection
<1>7. QED
  <2> HIDE DEF place
  <2>1. QED
    BY <1>1, <1>2, <1>6

LEMMA WithoutIs ==
  ASSUME NEW S, NEW ids \in Seq(S), NEW gone
  PROVE  /\ Without(ids, gone) \in Seq(S)
         /\ Range(Without(ids, gone)) = Range(ids) \ gone
         /\ IsInjective(ids) => IsInjective(Without(ids, gone))
<1> DEFINE left == {i \in DOMAIN ids : ids[i] \notin gone}
           c == Cardinality(left)
           picked == [n \in 1..c |-> ids[Nth(left, n)]]
<1>1. DOMAIN ids = 1..Len(ids) /\ Len(ids) \in Nat /\ \A i \in DOMAIN ids : ids[i] \in S
  OBVIOUS
<1>2. left \subseteq DOMAIN ids /\ left \subseteq Nat
  BY <1>1
<1>3. IsFiniteSet(left)
  <2>1. IsFiniteSet(1..Len(ids))
    BY <1>1, FS_Interval
  <2> HIDE DEF left
  <2>2. QED
    BY <1>1, <1>2, <2>1, FS_Subset
<1>4. /\ c \in Nat /\ \A n \in 1..c : Nth(left, n) \in left
      /\ \A i \in left : \E n \in 1..c : Nth(left, n) = i
      /\ \A m, n \in 1..c : Nth(left, m) = Nth(left, n) => m = n
  <2> HIDE DEF left
  <2>1. QED
    BY <1>2, <1>3, PicksAll
<1>5. Without(ids, gone) = picked
  BY DEF Without, Picked
<1>6. \A n \in 1..c : picked[n] \in S
  BY <1>1, <1>2, <1>4
<1>7. picked \in Seq(S)
  <2> HIDE DEF c
  <2>1. QED
    BY <1>4, <1>6
<1>8. Range(picked) = Range(ids) \ gone
  <2>1. ASSUME NEW n \in 1..c PROVE picked[n] \in Range(ids) \ gone
    BY <1>2, <1>4 DEF Range
  <2>2. ASSUME NEW x \in Range(ids) \ gone PROVE \E n \in 1..c : picked[n] = x
    <3>1. PICK i \in DOMAIN ids : ids[i] = x
      BY <2>2 DEF Range
    <3>2. i \in left
      BY <3>1, <2>2
    <3> HIDE DEF left, c
    <3>3. QED
      BY <1>4, <3>1, <3>2
  <2> HIDE DEF c
  <2>3. QED
    BY <2>1, <2>2 DEF Range
<1>9. ASSUME IsInjective(ids) PROVE IsInjective(picked)
  <2>1. \A m, n \in 1..c : ids[Nth(left, m)] = ids[Nth(left, n)] => m = n
    <3> HIDE DEF left, c
    <3>1. QED
      BY <1>2, <1>4, <1>9 DEF IsInjective
  <2> HIDE DEF left, c
  <2>2. QED
    BY <2>1 DEF IsInjective
<1>10. QED
  BY <1>5, <1>7, <1>8, <1>9

LEMMA Joining ==
  ASSUME NEW S, NEW a \in Seq(S), NEW b \in Seq(S)
  PROVE  /\ a \o b \in Seq(S) /\ Range(a \o b) = Range(a) \cup Range(b)
         /\ IsInjective(a) /\ IsInjective(b) /\ Range(a) \cap Range(b) = {}
              => IsInjective(a \o b)
<1> DEFINE n == Len(a)
           m == Len(b)
           all == a \o b
<1>1. /\ n \in Nat /\ m \in Nat /\ DOMAIN a = 1..n /\ DOMAIN b = 1..m
      /\ all \in Seq(S) /\ DOMAIN all = 1..(n + m)
      /\ \A i \in 1..n : all[i] = a[i]
      /\ \A i \in (n + 1)..(n + m) : all[i] = b[i - n]
  OBVIOUS
<1> HIDE DEF all, n, m
<1>2. \A i \in 1..(n + m) : \/ i \in 1..n
                            \/ i \in (n + 1)..(n + m) /\ i - n \in 1..m
  BY <1>1
<1>3. \A i \in 1..n : i \in 1..(n + m)
  BY <1>1
<1>4. \A j \in 1..m : j + n \in (n + 1)..(n + m) /\ j + n \in 1..(n + m) /\ (j + n) - n = j
  BY <1>1
<1>5. Range(all) = Range(a) \cup Range(b)
  <2>1. ASSUME NEW i \in 1..(n + m) PROVE all[i] \in Range(a) \cup Range(b)
    <3>1. CASE i \in 1..n
      BY <1>1, <3>1 DEF Range
    <3>2. CASE i \in (n + 1)..(n + m) /\ i - n \in 1..m
      BY <1>1, <3>2 DEF Range
    <3>3. QED
      BY <1>2, <3>1, <3>2
  <2>2. ASSUME NEW i \in 1..n PROVE a[i] \in Range(all)
    BY <1>1, <1>3 DEF Range
  <2>3. ASSUME NEW j \in 1..m PROVE b[j] \in Range(all)
    <3>1. all[j + n] = b[j]
      BY <1>1, <1>4
    <3>2. QED
      BY <1>1, <1>4, <3>1 DEF Range
  <2>4. QED
    BY <1>1, <2>1, <2>2, <2>3 DEF Range
<1>6. ASSUME IsInjective(a), IsInjective(b), Range(a) \cap Range(b) = {}
      PROVE  IsInjective(all)
  <2>1. ASSUME NEW i \in 1..n, NEW j \in (n + 1)..(n + m), j - n \in 1..m
        PROVE  all[i] # all[j]
    <3>1. all[i] \in Range(a) /\ all[j] \in Range(b)
      BY <1>1, <2>1 DEF Range
    <3>2. QED
      BY <1>6, <3>1
  <2>2. ASSUME NEW i \in 1..n, NEW j \in 1..n, all[i] = all[j] PROVE i = j
    BY <1>1, <1>6, <2>2 DEF IsInjective
  <2>3. ASSUME NEW i \in (n + 1)..(n + m), NEW j \in (n + 1)..(n + m),
               i - n \in 1..m, j - n \in 1..m, all[i] = all[j]
        PROVE  i = j
    <3>1. i - n = j - n
      <4>1. b[i - n] = b[j - n]
        BY <1>1, <2>3
      <4>2. QED
        BY <1>1, <1>6, <2>3, <4>1 DEF IsInjective
    <3>2. QED
      BY <1>1, <3>1
  <2>4. QED
    BY <1>1, <1>2, <2>1, <2>2, <2>3 DEF IsInjective
<1>7. QED
  BY <1>1, <1>5, <1>6 DEF all

-----------------------------------------------------------------------------
KeyAt(at, c) == [at |-> at[c], id |-> c]

(* A list with this cursor misses none of C. *)
Covers(ids, next, C, at) ==
  \A c \in C : c \in Range(ids) \/ (next # None /\ Before(next, KeyAt(at, c)))

LEMMA KeyNow == \A c : KeyOf(c) = KeyAt(last, c)
BY DEF KeyOf, KeyAt

LEMMA KeyIsThere ==
  ASSUME NEW c \in Conversation
  PROVE  KeyOf(c) # None
<1>1. c # 0
  BY ConsoleAssumption
<1>2. KeyOf(c).id = c /\ None.id = 0
  BY DEF KeyOf, None
<1>3. QED
  BY <1>1, <1>2

(* A page and its cursor miss nothing of what was sought. *)
LEMMA PagesCover ==
  ASSUME NEW from, NEW rows \in Pages(from), last \in [Conversation -> Nat]
  PROVE  /\ rows \in Seq(Conversation) /\ IsInjective(rows)
         /\ Covers(rows, NextCursor(from, rows), Sought(from), last)
<1>1. /\ \A i, j \in DOMAIN rows : i < j => Before(KeyOf(rows[i]), KeyOf(rows[j]))
      /\ \A c \in Sought(from) \ Range(rows) :
           Len(rows) = PageSize /\ Before(KeyOf(Last(rows)), KeyOf(c))
  BY DEF Pages
<1>2. PICK m \in 0..PageSize : rows \in [1..m -> Sought(from)]
  BY DEF Pages, SeqOf
<1>3. m \in Nat /\ PageSize \in Nat \ {0}
  BY ConsoleAssumption
<1>4. rows \in Seq(Conversation) /\ DOMAIN rows = 1..m /\ Len(rows) = m
  BY <1>2, <1>3 DEF Sought
<1>5. \A c \in Conversation : KeyOf(c).at \in Nat /\ KeyOf(c).id = c
  BY DEF KeyOf
<1>6. \A c \in Conversation : ~Before(KeyOf(c), KeyOf(c))
  <2>1. \A c \in Conversation : c \in Nat
    BY ConsoleAssumption
  <2>2. QED
    BY <1>5, <2>1 DEF Before
<1>7. IsInjective(rows)
  <2>1. SUFFICES ASSUME NEW i \in 1..m, NEW j \in 1..m, rows[i] = rows[j]
                 PROVE  i = j
    BY <1>4 DEF IsInjective
  <2>2. rows[i] \in Conversation
    BY <1>2 DEF Sought
  <2>3. ~(i < j) /\ ~(j < i)
    BY <1>1, <1>4, <1>6, <2>1, <2>2
  <2>4. QED
    BY <2>3
<1>8. ASSUME NEW c \in Sought(from), c \notin Range(rows)
      PROVE  /\ NextCursor(from, rows) # None
             /\ Before(NextCursor(from, rows), KeyOf(c))
  <2>1. m = PageSize /\ Before(KeyOf(Last(rows)), KeyOf(c))
    BY <1>1, <1>4, <1>8
  <2>2. Last(rows) \in Conversation
    BY <1>2, <1>3, <1>4, <2>1 DEF Last, Sought
  <2>3. NextCursor(from, rows) = KeyOf(Last(rows))
    BY <1>8 DEF NextCursor
  <2>4. QED
    BY <2>1, <2>2, <2>3, KeyIsThere
<1>9. QED
  BY <1>4, <1>7, <1>8, KeyNow DEF Covers

-----------------------------------------------------------------------------
(* Requests, and what a step makes of them. *)
RequestFields == {"pc", "kind", "of", "from", "token", "late", "page", "next",
                  "crossed", "moved"}

Shapes ==
  /\ request = [s \in Slot |-> request[s]]
  /\ \A s \in Slot : DOMAIN request[s] = RequestFields

(* One request has become n. *)
Became(s, n) ==
  /\ Shapes' /\ request'[s] = n
  /\ \A q \in Slot \ {s} : request'[q] = request[q]

LEMMA BecomeForm ==
  ASSUME Shapes, NEW s \in Slot, NEW n, DOMAIN n = RequestFields,
         request' = [request EXCEPT ![s] = n]
  PROVE  Became(s, n)
BY DEF Shapes, Became

Late(t) == logout.pc = "done" /\ t \in logout.before

LEMMA AskedForm ==
  ASSUME NEW kind, NEW of, NEW from, NEW t
  PROVE  Asked(kind, of, from, t)
           = [pc |-> "sent", kind |-> kind, of |-> of, from |-> from, token |-> t,
              late |-> Late(t), page |-> <<>>, next |-> None, crossed |-> FALSE,
              moved |-> {}]
<1>1. Asked(kind, of, from, t)
        = [NoRequest EXCEPT !.pc = "sent", !.kind = kind, !.of = of, !.from = from,
                            !.token = t, !.late = Late(t)]
  BY DEF Asked, Late
<1>2. QED
  BY <1>1 DEF NoRequest

LEMMA NoRequestForm ==
  /\ DOMAIN NoRequest = RequestFields
  /\ NoRequest.pc = "idle" /\ NoRequest.late = FALSE /\ NoRequest.crossed = FALSE
  /\ NoRequest.page = <<>> /\ NoRequest.kind = "reset"
BY DEF NoRequest, RequestFields

SentAs(n, kind, from, t, any) ==
  /\ n.pc = "sent" /\ n.kind = kind /\ n.from = from /\ n.token = t
  /\ n.page = <<>> /\ n.crossed = any /\ n.late = Late(t)

(* A request of which one field is new. *)
SameBut(field, o, n, value) ==
  /\ n[field] = value
  /\ \A f \in RequestFields \ {field} : n[f] = o[f]

(* A list request crosses those that are under way. *)
LEMMA SendForm ==
  ASSUME Shapes, NEW s \in Slot, NEW kind, NEW from, SendList(s, kind, from)
  PROVE  /\ Shapes' /\ request[s].pc = "idle"
         /\ \E t \in LoggedIn :
              SentAs(request'[s], kind, from, t, \E p \in Slot : IsList(p))
         /\ \A q \in Slot \ {s} :
              SameBut("crossed", request[q], request'[q], request[q].crossed \/ IsList(q))
<1> DEFINE any == \E p \in Slot : IsList(p)
           either(q) == request[q].crossed \/ IsList(q)
<1>1. request[s].pc = "idle"
  BY DEF SendList, Free
<1>2. PICK t \in LoggedIn : request' = [q \in Slot |->
         IF q = s THEN [Asked(kind, 0, from, t) EXCEPT !.crossed = any]
         ELSE [request[q] EXCEPT !.crossed = either(q)]]
  BY DEF SendList
<1> DEFINE asked == Asked(kind, 0, from, t)
           n == [asked EXCEPT !.crossed = any]
<1>3. asked = [pc |-> "sent", kind |-> kind, of |-> 0, from |-> from, token |-> t,
               late |-> Late(t), page |-> <<>>, next |-> None, crossed |-> FALSE,
               moved |-> {}]
  BY AskedForm
<1>4. /\ DOMAIN n = RequestFields
      /\ n.pc = "sent" /\ n.kind = kind /\ n.from = from /\ n.token = t
      /\ n.page = <<>> /\ n.crossed = any
      /\ n.late = Late(t)
  <2> HIDE DEF asked, any
  <2>1. QED
    BY <1>3 DEF RequestFields
<1>5. ASSUME NEW q \in Slot
      PROVE  LET m == [request[q] EXCEPT !.crossed = either(q)] IN
             /\ DOMAIN m = RequestFields /\ m.crossed = either(q)
             /\ \A f \in RequestFields \ {"crossed"} : m[f] = request[q][f]
  <2>1. DOMAIN request[q] = RequestFields
    BY DEF Shapes
  <2> HIDE DEF either
  <2>2. QED
    BY <2>1 DEF RequestFields
<1> HIDE DEF n, either, any, asked
<1>6. request' = [q \in Slot |->
         IF q = s THEN n ELSE [request[q] EXCEPT !.crossed = either(q)]]
  BY <1>2 DEF n, either, any, asked
<1>7. request'[s] = n /\ Shapes'
  BY <1>4, <1>5, <1>6 DEF Shapes
<1>8. \A q \in Slot \ {s} :
        /\ \A f \in RequestFields \ {"crossed"} : request'[q][f] = request[q][f]
        /\ request'[q].crossed = either(q)
  BY <1>5, <1>6
<1>9. QED
  BY <1>1, <1>4, <1>7, <1>8 DEF either, any, SentAs, SameBut

(* A conversation moves under the first pages that have been answered. *)
LEMMA MovesForm ==
  ASSUME Shapes, NEW c \in Conversation, Moves(c)
  PROVE  /\ Shapes'
         /\ \A q \in Slot : LET n == request'[q] IN
              /\ \A f \in RequestFields \ {"moved"} : n[f] = request[q][f]
              /\ n.pc = "answered" /\ n.kind = "reset"
                   => n.moved = request[q].moved \cup {c}
<1>1. request' = [q \in Slot |->
        IF request[q].pc = "answered" /\ request[q].kind = "reset"
          THEN [request[q] EXCEPT !.moved = @ \cup {c}] ELSE request[q]]
  BY DEF Moves
<1>2. ASSUME NEW q \in Slot
      PROVE  LET o == request[q]
                 m == [o EXCEPT !.moved = @ \cup {c}]
             IN /\ DOMAIN m = RequestFields /\ m.moved = o.moved \cup {c}
                /\ \A f \in RequestFields \ {"moved"} : m[f] = o[f]
  BY DEF Shapes, RequestFields
<1>3. ASSUME NEW q \in Slot
      PROVE  /\ DOMAIN request'[q] = RequestFields
             /\ \A f \in RequestFields \ {"moved"} : request'[q][f] = request[q][f]
             /\ request[q].pc = "answered" /\ request[q].kind = "reset"
                  => request'[q].moved = request[q].moved \cup {c}
  BY <1>1, <1>2 DEF Shapes
<1>4. Shapes'
  BY <1>1, <1>3 DEF Shapes
<1>5. "pc" \in RequestFields \ {"moved"} /\ "kind" \in RequestFields \ {"moved"}
  BY DEF RequestFields
<1>6. QED
  BY <1>3, <1>4, <1>5

(* The answer to a request. *)
LEMMA AnswerForm ==
  ASSUME Shapes, NEW s \in Slot, NEW page, NEW next, Answer(s, page, next)
  PROVE  /\ request[s].pc = "sent" /\ Authenticated(request[s].token)
         /\ \E n : /\ Became(s, n)
                   /\ n.pc = "answered" /\ n.page = page /\ n.next = next
                   /\ n.kind = request[s].kind /\ n.crossed = request[s].crossed
                   /\ n.late = request[s].late /\ n.moved = request[s].moved
                   /\ n.of = request[s].of
<1> DEFINE o == request[s]
           n == [o EXCEPT !.pc = "answered", !.token = NoToken, !.from = None,
                          !.page = page, !.next = next]
<1>1. /\ o.pc = "sent" /\ Authenticated(o.token)
      /\ request' = [request EXCEPT ![s] = n]
  BY DEF Answer, Shapes
<1>2. DOMAIN o = RequestFields
  BY DEF Shapes
<1> HIDE DEF o
<1>3. /\ DOMAIN n = RequestFields
      /\ n.pc = "answered" /\ n.page = page /\ n.next = next
      /\ n.kind = o.kind /\ n.crossed = o.crossed
      /\ n.late = o.late /\ n.moved = o.moved /\ n.of = o.of
  BY <1>2 DEF RequestFields
<1> HIDE DEF n
<1>4. Became(s, n)
  BY <1>1, <1>3, BecomeForm
<1>5. QED
  BY <1>1, <1>3, <1>4 DEF o

LEMMA DoneForm ==
  ASSUME Shapes, NEW s \in Slot, Done(s) PROVE Became(s, NoRequest)
BY NoRequestForm, BecomeForm DEF Done

-----------------------------------------------------------------------------
(* The logout. *)

(* A session begun before it is over, or is yet to be ended by it. *)
Ending ==
  /\ session = [t \in Token |-> session[t]]
  /\ DOMAIN logout = {"pc", "token", "before", "seen"}
  /\ logout.pc \in {"idle", "sent", "loaded", "done"}
  /\ logout.pc # "idle" =>
       \A t \in logout.before :
         /\ t \in Token
         /\ \/ session[t] = "over"
            \/ logout.pc = "sent" /\ session[t] = "live"
            \/ logout.pc = "loaded" /\ session[t] = "live" /\ t \in logout.seen

Refused(r) == r.pc = "sent" /\ r.token \in Token /\ session[r.token] = "over"

LogoutInv ==
  /\ Shapes /\ Ending
  /\ \A s \in Slot : request[s].late => Refused(request[s])

(* What is over stays over. *)
OverStays ==
  /\ session' = [t \in Token |-> session'[t]]
  /\ \A t \in Token : session[t] = "over" => session'[t] = "over"

LEMMA RequestsStand ==
  ASSUME LogoutInv, UNCHANGED request, OverStays
  PROVE  Shapes' /\ \A s \in Slot : request'[s].late => Refused(request[s])'
BY DEF LogoutInv, Shapes, Refused, OverStays

LEMMA LoginKeeps == ASSUME LogoutInv, NEW t \in Token, Login(t) PROVE LogoutInv'
<1>1. OverStays
  BY DEF LogoutInv, Ending, Login, OverStays
<1>2. Ending'
  BY DEF LogoutInv, Ending, Login
<1>3. QED
  BY <1>1, <1>2, RequestsStand DEF LogoutInv, Login

LEMMA SendLogoutKeeps == ASSUME LogoutInv, NEW t \in Token, SendLogout(t) PROVE LogoutInv'
<1>1. OverStays
  BY DEF LogoutInv, Ending, SendLogout, OverStays
<1>2. Ending'
  <2>1. logout.pc = "idle" /\ UNCHANGED session
    BY DEF SendLogout
  <2>2. logout' = [logout EXCEPT !.pc = "sent", !.token = t, !.before = Live]
    BY DEF SendLogout
  <2>3. DOMAIN logout = {"pc", "token", "before", "seen"}
    BY DEF LogoutInv, Ending
  <2>4. /\ DOMAIN logout' = DOMAIN logout
        /\ logout'.pc = "sent" /\ logout'.before = Live
    BY <2>2, <2>3
  <2>5. QED
    BY <2>1, <2>3, <2>4 DEF LogoutInv, Ending, Live
<1>3. QED
  BY <1>1, <1>2, RequestsStand DEF LogoutInv, SendLogout

LEMMA LoadSessionsKeeps == ASSUME LogoutInv, LoadSessions PROVE LogoutInv'
<1>1. OverStays
  BY DEF LogoutInv, Ending, LoadSessions, Expires, OverStays
<1>2. logout.pc = "sent" /\ UNCHANGED request
  BY DEF LoadSessions
<1>3. CASE logout' = [logout EXCEPT !.pc = "loaded", !.seen = Live] /\ UNCHANGED session
  <2>1. DOMAIN logout = {"pc", "token", "before", "seen"}
    BY DEF LogoutInv, Ending
  <2>2. /\ DOMAIN logout' = DOMAIN logout
        /\ logout'.pc = "loaded" /\ logout'.before = logout.before /\ logout'.seen = Live
    BY <1>3, <2>1
  <2>3. Ending'
    BY <1>2, <1>3, <2>1, <2>2 DEF LogoutInv, Ending, Live
  <2>4. QED
    BY <1>1, <1>2, <2>3, RequestsStand DEF LogoutInv
<1>4. CASE Expires(logout.token) /\ logout' = NoLogout
  <2>1. Ending'
    BY <1>1, <1>4 DEF Ending, NoLogout, OverStays
  <2>2. QED
    BY <1>1, <1>2, <2>1, RequestsStand DEF LogoutInv
<1>5. QED
  BY <1>3, <1>4 DEF LoadSessions

LEMMA EndSessionsKeeps == ASSUME LogoutInv, EndSessions PROVE LogoutInv'
<1>1. OverStays
  BY DEF LogoutInv, Ending, EndSessions, OverStays
<1>2. /\ logout.pc = "loaded"
      /\ session' = [t \in Token |-> IF t \in logout.seen THEN "over" ELSE session[t]]
      /\ logout' = [NoLogout EXCEPT !.pc = "done", !.before = logout.before]
      /\ UNCHANGED request
  BY DEF EndSessions, Revoked
<1>3. /\ DOMAIN logout' = {"pc", "token", "before", "seen"}
      /\ logout'.pc = "done" /\ logout'.before = logout.before
  BY <1>2 DEF NoLogout
<1>4. ASSUME NEW t \in logout.before PROVE t \in Token /\ session'[t] = "over"
  BY <1>2 DEF LogoutInv, Ending
<1>5. Ending'
  BY <1>1, <1>3, <1>4 DEF Ending, OverStays
<1>6. QED
  BY <1>1, <1>2, <1>5, RequestsStand DEF LogoutInv

(* Requests and answers: at most a session is found to be over. *)
LEMMA AskingKeeps ==
  ASSUME LogoutInv, UNCHANGED logout, Shapes',
         UNCHANGED session \/ \E t : Expires(t),
         \A s \in Slot : request'[s].late =>
           /\ request'[s].pc = "sent" /\ request'[s].token \in Token
           /\ session[request'[s].token] = "over"
  PROVE  LogoutInv'
<1>1. /\ session' = [t \in Token |-> session'[t]]
      /\ \A t \in Token : session'[t] = session[t] \/ session'[t] = "over"
  BY DEF Expires, LogoutInv, Ending
<1>2. Ending'
  BY <1>1 DEF LogoutInv, Ending
<1>3. \A s \in Slot : request'[s].late => Refused(request[s])'
  BY <1>1 DEF Refused
<1>4. QED
  BY <1>2, <1>3 DEF LogoutInv

(* One request is new, or its answer is. *)
LEMMA OneAskingKeeps ==
  ASSUME LogoutInv, UNCHANGED logout, UNCHANGED session \/ \E t : Expires(t),
         NEW s \in Slot, NEW n, Became(s, n),
         n.late => Refused(n)
  PROVE  LogoutInv'
<1>1. ASSUME NEW q \in Slot, request'[q].late PROVE Refused(request'[q])
  <2>1. CASE q = s
    BY <1>1, <2>1 DEF Became
  <2>2. CASE q # s
    BY <1>1, <2>2 DEF Became, LogoutInv
  <2>3. QED
    BY <2>1, <2>2
<1>2. Shapes'
  BY DEF Became
<1>3. QED
  BY <1>1, <1>2, AskingKeeps DEF Refused

(* A session begun before the logout that is done is over. *)
LEMMA LateIsOver ==
  ASSUME LogoutInv, NEW t \in LoggedIn, Late(t)
  PROVE  t \in Token /\ session[t] = "over"
BY DEF LogoutInv, Ending, Late, LoggedIn

LEMMA BrowseKeepsLogout == ASSUME LogoutInv, NEW s \in Slot, Browse(s) PROVE LogoutInv'
<1>1. Shapes
  BY DEF LogoutInv
<1>2. ASSUME NEW kind, NEW from, SendList(s, kind, from) PROVE LogoutInv'
  <2>1. UNCHANGED <<logout, session>>
    BY <1>2 DEF SendList, authVars
  <2>2. Shapes'
    BY <1>1, <1>2, SendForm
  <2>3. ASSUME NEW q \in Slot, request'[q].late PROVE Refused(request'[q])
    <3>1. CASE q = s
      <4>1. \E t \in LoggedIn :
              SentAs(request'[s], kind, from, t, \E p \in Slot : IsList(p))
        BY <1>1, <1>2, SendForm
      <4>2. PICK t \in LoggedIn :
              SentAs(request'[s], kind, from, t, \E p \in Slot : IsList(p))
        BY <4>1
      <4>3. QED
        BY <2>3, <3>1, <4>2, LateIsOver DEF Refused, SentAs
    <3>2. CASE q # s
      <4>1. \A f \in {"pc", "token", "late"} : request'[q][f] = request[q][f]
        <5>1. \A f \in RequestFields \ {"crossed"} : request'[q][f] = request[q][f]
          BY <1>1, <1>2, <3>2, SendForm DEF SameBut
        <5>2. QED
          BY <5>1 DEF RequestFields
      <4>2. QED
        BY <2>3, <4>1 DEF LogoutInv, Refused
    <3>3. QED
      BY <3>1, <3>2
  <2>4. QED
    BY <2>1, <2>2, <2>3, AskingKeeps DEF Refused
<1>3. ASSUME NEW kind, NEW of, NEW t \in LoggedIn, UNCHANGED <<logout, session>>,
             request' = [request EXCEPT ![s] = Asked(kind, of, None, t)]
      PROVE  LogoutInv'
  <2> DEFINE n == Asked(kind, of, None, t)
  <2>1. n = [pc |-> "sent", kind |-> kind, of |-> of, from |-> None, token |-> t,
             late |-> Late(t), page |-> <<>>, next |-> None, crossed |-> FALSE,
             moved |-> {}]
    BY AskedForm
  <2> HIDE DEF n
  <2>2. DOMAIN n = RequestFields /\ n.pc = "sent" /\ n.token = t /\ n.late = Late(t)
    BY <2>1 DEF RequestFields
  <2>3. Became(s, n)
    BY <1>1, <1>3, <2>2, BecomeForm DEF n
  <2>4. n.late => Refused(n)
    BY <2>2, LateIsOver DEF Refused
  <2>5. QED
    BY <1>3, <2>3, <2>4, OneAskingKeeps
<1>4. ASSUME Done(s), UNCHANGED logout, UNCHANGED session \/ \E t : Expires(t)
      PROVE  LogoutInv'
  BY <1>1, <1>4, DoneForm, NoRequestForm, OneAskingKeeps
<1>5. ASSUME NEW page, NEW next, Answer(s, page, next) PROVE LogoutInv'
  <2>1. request[s].pc = "sent" /\ Authenticated(request[s].token)
    BY <1>1, <1>5, AnswerForm
  <2>2. PICK n : Became(s, n) /\ n.late = request[s].late
    BY <1>1, <1>5, AnswerForm
  <2>3. ~request[s].late
    BY <2>1 DEF LogoutInv, Refused, Authenticated
  <2>4. UNCHANGED <<logout, session>>
    BY <1>5 DEF Answer, authVars
  <2>5. QED
    BY <2>2, <2>3, <2>4, OneAskingKeeps
<1>6. CASE FetchList(s) \/ FetchMore(s)
  BY <1>2, <1>6 DEF FetchList, FetchMore
<1>7. CASE Ask(s)
  BY <1>3, <1>7 DEF Ask, authVars
<1>8. CASE Refuse(s) \/ Lose(s)
  BY <1>4, <1>8 DEF Refuse, Lose, Fails
<1>9. CASE AnswerList(s) \/ AnswerThread(s) \/ AnswerRead(s)
  BY <1>5, <1>9 DEF AnswerList, AnswerThread, AnswerRead
<1>10. CASE ReceiveList(s) \/ ReceiveUpdate(s) \/ ReceiveRead(s)
  BY <1>4, <1>10 DEF ReceiveList, ReceiveUpdate, ReceiveRead, authVars
<1>11. CASE ReceiveThread(s)
  BY <1>3, <1>11 DEF ReceiveThread, authVars
<1>12. QED
  BY <1>6, <1>7, <1>8, <1>9, <1>10, <1>11 DEF Browse

LEMMA MovesKeepLogout ==
  ASSUME LogoutInv, NEW c \in Conversation, Moves(c), UNCHANGED <<logout, session>>
  PROVE  LogoutInv'
<1>1. Shapes' /\ \A q \in Slot : \A f \in RequestFields \ {"moved"} :
                   request'[q][f] = request[q][f]
  BY MovesForm DEF LogoutInv
<1>2. \A q \in Slot : \A f \in {"pc", "token", "late"} : request'[q][f] = request[q][f]
  BY <1>1 DEF RequestFields
<1>3. QED
  BY <1>1, <1>2, AskingKeeps DEF LogoutInv, Refused

LEMMA LogoutKeeps == LogoutInv /\ [Next]_vars => LogoutInv'
<1> SUFFICES ASSUME LogoutInv, [Next]_vars PROVE LogoutInv'
  OBVIOUS
<1>1. CASE UNCHANGED vars
  BY <1>1 DEF vars, authVars, LogoutInv, Shapes, Ending, Refused
<1>2. ASSUME NEW c \in Conversation, NEW delay, StoreInbound(c, delay) PROVE LogoutInv'
  BY <1>2, MovesKeepLogout DEF StoreInbound, authVars
<1>3. ASSUME NEW c \in Conversation, RecordOutbound(c) PROVE LogoutInv'
  BY <1>3, MovesKeepLogout DEF RecordOutbound, authVars
<1>4. QED
  BY <1>1, <1>2, <1>3, LoginKeeps, SendLogoutKeeps, LoadSessionsKeeps, EndSessionsKeeps,
     BrowseKeepsLogout DEF Next

LEMMA LogoutInit == Init => LogoutInv
<1> SUFFICES ASSUME Init PROVE LogoutInv
  OBVIOUS
<1>1. request = [s \in Slot |-> NoRequest] /\ logout = NoLogout
  BY DEF Init
<1>2. Shapes /\ \A s \in Slot : ~request[s].late
  BY <1>1, NoRequestForm DEF Shapes
<1>3. session = [t \in Token |-> session[t]]
  BY DEF Init
<1>4. QED
  BY <1>1, <1>2, <1>3 DEF LogoutInv, Ending, NoLogout

(* Once a logout has finished, no request sent with a session begun before *)
(* it gets an answer, however the logins, requests and answers interleave. *)
THEOREM LogoutAlwaysEverywhere == Spec => []LogoutIsEverywhere
<1>1. LogoutInv => LogoutIsEverywhere
  BY DEF LogoutInv, Refused, LogoutIsEverywhere
<1>2. QED
  BY <1>1, LogoutInit, LogoutKeeps, PTL DEF Spec

-----------------------------------------------------------------------------
(* The list. *)

Listed(r) == r.pc # "idle" /\ r.kind \in ListKind

Uncrossed(r) == r.kind = "more" /\ ~r.crossed

(* What a request, or its answer, has to do with the list's cursor and     *)
(* with what has moved.                                                    *)
RequestInv(r, cur, gone, at) ==
  /\ r.pc \in {"idle", "sent", "answered"}
  /\ r.page \in Seq(Conversation) /\ IsInjective(r.page)
  /\ r.pc # "idle" /\ r.kind = "update" => r.of \in Conversation
  /\ r.pc = "sent" /\ r.kind = "reset" => r.from = None
  /\ r.pc = "sent" /\ Uncrossed(r) => cur # None /\ r.from = cur
  /\ r.pc = "answered" /\ r.kind = "reset" =>
       Covers(r.page, r.next, Conversation \ r.moved, at)
  /\ r.pc = "answered" /\ Uncrossed(r) =>
       /\ cur # None
       /\ Covers(r.page, r.next, {c \in Conversation \ gone : Before(cur, KeyAt(at, c))}, at)

ListInv ==
  /\ Shapes
  /\ \A s \in Slot : RequestInv(request[s], cursor, moved, last)
  /\ \A p, q \in Slot : p # q /\ Listed(request[p]) /\ Listed(request[q])
                          => request[p].crossed
  /\ now \in Nat /\ last \in [Conversation -> Nat]
  /\ list \in Seq(Conversation) /\ IsInjective(list)
  /\ ~crossed => Covers(list, cursor, Conversation \ moved, last)

LEMMA EmptyList == <<>> \in Seq(Conversation) /\ IsInjective(<<>>)
BY DEF IsInjective

(* What has not moved is covered as before. *)
LEMMA StillCovers ==
  ASSUME NEW ids, NEW next, NEW C, NEW at, Covers(ids, next, C, at),
         NEW D, NEW bt, \A c \in D : c \in C /\ bt[c] = at[c]
  PROVE  Covers(ids, next, D, bt)
BY DEF Covers, KeyAt

(* One request has changed, and nothing of the list. *)
LEMMA OneRequest ==
  ASSUME ListInv, NEW s \in Slot, NEW n, Became(s, n),
         UNCHANGED <<now, last, list, cursor, crossed, moved>>,
         RequestInv(n, cursor, moved, last),
         Listed(n) => Listed(request[s]) /\ n.crossed = request[s].crossed
  PROVE  ListInv'
<1>1. Shapes' /\ \A q \in Slot : RequestInv(request'[q], cursor', moved', last')
  BY DEF ListInv, Became
<1>2. ASSUME NEW p \in Slot, NEW q \in Slot, p # q, Listed(request'[p]), Listed(request'[q])
      PROVE  request'[p].crossed
  <2>1. Listed(request[p]) /\ Listed(request[q]) /\ request'[p].crossed = request[p].crossed
    BY <1>2 DEF Became
  <2>2. QED
    BY <1>2, <2>1 DEF ListInv
<1>3. QED
  BY <1>1, <1>2 DEF ListInv

(* A request that is none of the list's, or none at all. *)
LEMMA OtherRequest ==
  ASSUME NEW r, NEW cur, NEW gone, NEW at,
         \/ r.pc = "idle"
         \/ r.pc \in {"sent", "answered"} /\ r.kind \notin ListKind,
         r.page = <<>>, r.pc # "idle" /\ r.kind = "update" => r.of \in Conversation
  PROVE  RequestInv(r, cur, gone, at) /\ ~Listed(r)
BY EmptyList DEF RequestInv, Listed, Uncrossed, ListKind

LEMMA SendListKeeps ==
  ASSUME ListInv, NEW s \in Slot, NEW kind, NEW from, SendList(s, kind, from),
         \/ kind = "reset" /\ from = None
         \/ kind = "more" /\ from = cursor /\ cursor # None
  PROVE  ListInv'
<1> DEFINE any == \E p \in Slot : IsList(p)
<1>1. PICK t \in LoggedIn : SentAs(request'[s], kind, from, t, any)
  BY SendForm DEF ListInv
<1>2. \A q \in Slot \ {s} :
        SameBut("crossed", request[q], request'[q], request[q].crossed \/ IsList(q))
  BY SendForm DEF ListInv
<1>3. Shapes' /\ request[s].pc = "idle"
  BY SendForm DEF ListInv
<1>4. UNCHANGED <<now, last, list, cursor, crossed, moved>>
  BY DEF SendList, rowVars
<1>5. \A q \in Slot : IsList(q) <=> Listed(request[q])
  BY DEF IsList, Listed
<1>6. RequestInv(request'[s], cursor', moved', last')
  BY <1>1, <1>4, EmptyList DEF SentAs, RequestInv, Uncrossed
<1>7. ASSUME NEW q \in Slot \ {s}
      PROVE  /\ RequestInv(request'[q], cursor', moved', last')
             /\ Listed(request'[q]) => Listed(request[q]) /\ request'[q].crossed
  <2> DEFINE o == request[q]
             n == request'[q]
  <2>1. /\ \A f \in RequestFields \ {"crossed"} : n[f] = o[f]
        /\ n.crossed = (o.crossed \/ IsList(q))
    BY <1>2 DEF SameBut
  <2>2. /\ n.pc = o.pc /\ n.kind = o.kind /\ n.of = o.of /\ n.from = o.from
        /\ n.page = o.page /\ n.next = o.next /\ n.moved = o.moved
    BY <2>1 DEF RequestFields
  <2>3. Uncrossed(n) => Uncrossed(o)
    BY <2>1, <2>2 DEF Uncrossed
  <2>4. Listed(n) => Listed(o) /\ n.crossed
    BY <1>5, <2>1, <2>2 DEF Listed
  <2>5. RequestInv(o, cursor, moved, last)
    BY DEF ListInv
  <2> HIDE DEF o, n
  <2>6. RequestInv(n, cursor, moved, last)
    BY <2>2, <2>3, <2>5 DEF RequestInv
  <2>7. QED
    BY <1>4, <2>4, <2>6 DEF o, n
<1>8. ASSUME NEW p \in Slot, NEW q \in Slot, p # q, Listed(request'[p]), Listed(request'[q])
      PROVE  request'[p].crossed
  <2>1. CASE p = s
    <3>1. IsList(q)
      BY <1>5, <1>7, <1>8, <2>1
    <3>2. any
      BY <3>1
    <3> HIDE DEF any
    <3>3. QED
      BY <1>1, <2>1, <3>2 DEF SentAs
  <2>2. CASE p # s
    BY <1>7, <1>8, <2>2
  <2>3. QED
    BY <2>1, <2>2
<1>9. QED
  BY <1>3, <1>4, <1>6, <1>7, <1>8 DEF ListInv

(* A page answers for what was sought when it is made. *)
LEMMA AnswerListKeeps == ASSUME ListInv, NEW s \in Slot, AnswerList(s) PROVE ListInv'
<1> DEFINE o == request[s]
<1>1. PICK rows \in Pages(o.from) : Answer(s, rows, NextCursor(o.from, rows))
  BY DEF AnswerList
<1> DEFINE next == NextCursor(o.from, rows)
<1>2. Shapes /\ last \in [Conversation -> Nat] /\ RequestInv(o, cursor, moved, last)
  BY DEF ListInv
<1>3. o.pc = "sent" /\ o.kind \in ListKind
  BY <1>1, <1>2, AnswerForm DEF AnswerList
<1>4. PICK n : /\ Became(s, n)
               /\ n.pc = "answered" /\ n.page = rows /\ n.next = next
               /\ n.kind = o.kind /\ n.crossed = o.crossed
               /\ n.late = o.late /\ n.moved = o.moved /\ n.of = o.of
  BY <1>1, <1>2, AnswerForm
<1>5. /\ rows \in Seq(Conversation) /\ IsInjective(rows)
      /\ Covers(rows, next, Sought(o.from), last)
  BY <1>2, PagesCover
<1>6. UNCHANGED <<now, last, list, cursor, crossed, moved>>
  BY <1>1 DEF Answer, storeVars
<1> HIDE DEF next
<1>7. ASSUME o.kind = "reset" PROVE Covers(rows, next, Conversation \ o.moved, last)
  <2>1. o.from = None
    BY <1>2, <1>3, <1>7 DEF RequestInv
  <2>2. Sought(o.from) = Conversation
    BY <2>1 DEF Sought
  <2>3. QED
    BY <1>5, <2>2 DEF Covers
<1>8. ASSUME Uncrossed(o)
      PROVE  /\ cursor # None
             /\ Covers(rows, next,
                       {c \in Conversation \ moved : Before(cursor, KeyAt(last, c))}, last)
  <2>1. cursor # None /\ o.from = cursor
    BY <1>2, <1>3, <1>8 DEF RequestInv
  <2>2. Sought(o.from) = {c \in Conversation : Before(cursor, KeyAt(last, c))}
    BY <2>1, KeyNow DEF Sought
  <2>3. QED
    BY <1>5, <2>1, <2>2 DEF Covers
<1> HIDE DEF o
<1>9. RequestInv(n, cursor, moved, last)
  BY <1>3, <1>4, <1>5, <1>7, <1>8 DEF RequestInv, Uncrossed, ListKind
<1>10. Listed(n) => Listed(o) /\ n.crossed = o.crossed
  BY <1>3, <1>4 DEF Listed
<1>11. QED
  BY <1>4, <1>6, <1>9, <1>10, OneRequest DEF o

(* Requests of other kinds, and requests that are over. *)
LEMMA OthersKeepList ==
  ASSUME ListInv, NEW s \in Slot,
         \/ Ask(s) \/ ReceiveThread(s) \/ ReceiveRead(s)
         \/ Refuse(s) \/ Lose(s) \/ AnswerThread(s) \/ AnswerRead(s)
  PROVE  ListInv'
<1>1. Shapes /\ RequestInv(request[s], cursor, moved, last)
  BY DEF ListInv
<1>2. UNCHANGED <<now, last, list, cursor, crossed, moved>>
  BY DEF Ask, ReceiveThread, ReceiveRead, Refuse, Lose, Fails, AnswerThread, AnswerRead,
         Answer, rowVars, storeVars
<1>3. ASSUME NEW kind \in {"open", "read", "update"}, NEW of, NEW t,
             kind = "update" => of \in Conversation,
             request' = [request EXCEPT ![s] = Asked(kind, of, None, t)]
      PROVE  ListInv'
  <2> DEFINE n == Asked(kind, of, None, t)
  <2>1. n = [pc |-> "sent", kind |-> kind, of |-> of, from |-> None, token |-> t,
             late |-> Late(t), page |-> <<>>, next |-> None, crossed |-> FALSE,
             moved |-> {}]
    BY AskedForm
  <2> HIDE DEF n
  <2>2. /\ DOMAIN n = RequestFields /\ n.pc = "sent" /\ n.kind = kind /\ n.of = of
        /\ n.page = <<>>
    BY <2>1 DEF RequestFields
  <2>3. Became(s, n)
    BY <1>1, <1>3, <2>2, BecomeForm DEF n
  <2>4. RequestInv(n, cursor, moved, last) /\ ~Listed(n)
    BY <1>3, <2>2, OtherRequest DEF ListKind
  <2>5. QED
    BY <1>2, <2>3, <2>4, OneRequest
<1>4. ASSUME Done(s) PROVE ListInv'
  <2>1. Became(s, NoRequest)
    BY <1>1, <1>4, DoneForm
  <2>2. RequestInv(NoRequest, cursor, moved, last) /\ ~Listed(NoRequest)
    BY NoRequestForm, OtherRequest
  <2>3. QED
    BY <1>2, <2>1, <2>2, OneRequest
<1>5. ASSUME request[s].kind \in {"open", "update", "read"}, Answer(s, <<>>, None)
      PROVE  ListInv'
  <2>1. request[s].pc = "sent"
    BY <1>1, <1>5, AnswerForm
  <2>2. PICK n : /\ Became(s, n)
                 /\ n.pc = "answered" /\ n.page = <<>> /\ n.kind = request[s].kind
                 /\ n.of = request[s].of
    BY <1>1, <1>5, AnswerForm
  <2>3. RequestInv(n, cursor, moved, last) /\ ~Listed(n)
    <3>1. n.kind = "update" => n.of \in Conversation
      BY <1>1, <2>1, <2>2 DEF RequestInv
    <3>2. QED
      BY <1>5, <2>2, <3>1, OtherRequest DEF ListKind
  <2>4. QED
    BY <1>2, <2>2, <2>3, OneRequest
<1>6. CASE Ask(s)
  BY <1>3, <1>6 DEF Ask
<1>7. CASE ReceiveThread(s)
  BY <1>3, <1>7 DEF ReceiveThread
<1>8. CASE ReceiveRead(s) \/ Refuse(s) \/ Lose(s)
  BY <1>4, <1>8 DEF ReceiveRead, Refuse, Lose, Fails
<1>9. CASE AnswerThread(s) \/ AnswerRead(s)
  BY <1>5, <1>9 DEF AnswerThread, AnswerRead
<1>10. QED
  BY <1>6, <1>7, <1>8, <1>9

(* A conversation with a new time is counted as moved, by the list and by  *)
(* the first page on its way to it.                                        *)
LEMMA MovesKeepList ==
  ASSUME ListInv, NEW c \in Conversation, NEW time \in Nat, Moves(c),
         last' = [last EXCEPT ![c] = time], now' \in Nat,
         UNCHANGED <<list, cursor, crossed>>
  PROVE  ListInv'
<1>1. Shapes' /\ \A q \in Slot :
        /\ \A f \in RequestFields \ {"moved"} : request'[q][f] = request[q][f]
        /\ request'[q].pc = "answered" /\ request'[q].kind = "reset"
             => request'[q].moved = request[q].moved \cup {c}
  BY MovesForm DEF ListInv
<1>2. /\ last' \in [Conversation -> Nat] /\ moved' = moved \cup {c}
      /\ \A d \in Conversation \ {c} : last'[d] = last[d]
  BY DEF ListInv, Moves
<1>3. ASSUME NEW q \in Slot
      PROVE  /\ RequestInv(request'[q], cursor', moved', last')
             /\ Listed(request'[q]) => Listed(request[q])
             /\ request'[q].crossed = request[q].crossed
  <2> DEFINE o == request[q]
             n == request'[q]
  <2>1. /\ n.pc = o.pc /\ n.kind = o.kind /\ n.of = o.of /\ n.from = o.from
        /\ n.page = o.page /\ n.next = o.next /\ n.crossed = o.crossed
    BY <1>1 DEF RequestFields
  <2>2. n.pc = "answered" /\ n.kind = "reset" => n.moved = o.moved \cup {c}
    BY <1>1
  <2>3. RequestInv(o, cursor, moved, last)
    BY DEF ListInv
  <2> HIDE DEF o, n
  <2>4. ASSUME n.pc = "answered", n.kind = "reset"
        PROVE  Covers(n.page, n.next, Conversation \ n.moved, last')
    <3> DEFINE C == Conversation \ o.moved
               D == Conversation \ n.moved
    <3>1. Covers(n.page, n.next, C, last)
      BY <2>1, <2>3, <2>4 DEF RequestInv
    <3>2. \A d \in D : d \in C /\ last'[d] = last[d]
      BY <1>2, <2>2, <2>4
    <3> HIDE DEF C, D
    <3>3. Covers(n.page, n.next, D, last')
      BY <3>1, <3>2, Zenon DEF Covers, KeyAt
    <3>4. QED
      BY <3>3 DEF D
  <2>5. ASSUME n.pc = "answered", Uncrossed(n)
        PROVE  /\ cursor # None
               /\ Covers(n.page, n.next,
                    {d \in Conversation \ moved' : Before(cursor, KeyAt(last', d))}, last')
    <3> DEFINE C == {d \in Conversation \ moved : Before(cursor, KeyAt(last, d))}
               D == {d \in Conversation \ moved' : Before(cursor, KeyAt(last', d))}
    <3>1. cursor # None /\ Covers(n.page, n.next, C, last)
      BY <2>1, <2>3, <2>5 DEF RequestInv, Uncrossed
    <3>2. \A d \in D : d \in C /\ last'[d] = last[d]
      BY <1>2 DEF KeyAt
    <3> HIDE DEF C, D
    <3>3. Covers(n.page, n.next, D, last')
      BY <3>1, <3>2, Zenon DEF Covers, KeyAt
    <3>4. QED
      BY <3>1, <3>3 DEF D
  <2>6. RequestInv(n, cursor, moved', last')
    BY <2>1, <2>3, <2>4, <2>5 DEF RequestInv, Uncrossed
  <2>7. QED
    BY <2>1, <2>6 DEF o, n, Listed
<1>4. ASSUME ~crossed' PROVE Covers(list', cursor', Conversation \ moved', last')
  <2>1. Covers(list, cursor, Conversation \ moved, last)
    BY <1>4 DEF ListInv
  <2>2. \A d \in Conversation \ moved' : d \in Conversation \ moved /\ last'[d] = last[d]
    BY <1>2
  <2>3. QED
    BY <2>1, <2>2, StillCovers
<1>5. \A p, q \in Slot : p # q /\ Listed(request'[p]) /\ Listed(request'[q])
                           => request'[p].crossed
  BY <1>3 DEF ListInv
<1>6. list' \in Seq(Conversation) /\ IsInjective(list')
  BY DEF ListInv
<1>7. QED
  BY <1>1, <1>2, <1>3, <1>4, <1>5, <1>6 DEF ListInv

(* What an answered page leaves of the other requests: another of the      *)
(* list's has crossed it, and what was moved stays so.                     *)
LEMMA OthersStand ==
  ASSUME ListInv, NEW s \in Slot, Became(s, NoRequest), NEW cur, NEW gone,
         Listed(request[s]) \/ (cur = cursor /\ moved \subseteq gone)
  PROVE  /\ \A q \in Slot : RequestInv(request'[q], cur, gone, last)
         /\ \A p, q \in Slot : p # q /\ Listed(request'[p]) /\ Listed(request'[q])
                                 => request'[p].crossed
<1>1. RequestInv(NoRequest, cur, gone, last) /\ ~Listed(NoRequest)
  BY NoRequestForm, OtherRequest
<1>2. ASSUME NEW q \in Slot \ {s} PROVE RequestInv(request[q], cur, gone, last)
  <2> DEFINE r == request[q]
             C == {c \in Conversation \ moved : Before(cursor, KeyAt(last, c))}
             D == {c \in Conversation \ gone : Before(cursor, KeyAt(last, c))}
  <2>1. RequestInv(r, cursor, moved, last)
    BY DEF ListInv
  <2>2. CASE Listed(request[s])
    <3>1. Listed(r) => r.crossed
      BY <2>2 DEF ListInv
    <3>2. r.pc \in {"sent", "answered"} => ~Uncrossed(r)
      BY <3>1 DEF Listed, Uncrossed, ListKind
    <3> HIDE DEF r
    <3>3. RequestInv(r, cur, gone, last)
      BY <2>1, <3>2 DEF RequestInv
    <3>4. QED
      BY <3>3 DEF r
  <2>3. CASE cur = cursor /\ moved \subseteq gone
    <3>1. \A c \in D : c \in C
      BY <2>3
    <3> HIDE DEF r, C, D
    <3>2. Covers(r.page, r.next, C, last) => Covers(r.page, r.next, D, last)
      BY <3>1, StillCovers
    <3>3. r.pc = "answered" /\ Uncrossed(r) => Covers(r.page, r.next, C, last)
      BY <2>1 DEF RequestInv, C
    <3>4. r.pc = "answered" /\ Uncrossed(r) => Covers(r.page, r.next, D, last)
      BY <3>2, <3>3
    <3>5. RequestInv(r, cursor, gone, last)
      BY <2>1, <3>4 DEF RequestInv, D
    <3>6. QED
      BY <2>3, <3>5 DEF r
  <2>4. QED
    BY <2>2, <2>3
<1>3. QED
  BY <1>1, <1>2 DEF Became, ListInv

(* A first page is a list; a further one goes on where the list ends.      *)
LEMMA ReceiveListKeeps == ASSUME ListInv, NEW s \in Slot, ReceiveList(s) PROVE ListInv'
<1> DEFINE r == request[s]
<1>1. /\ r.pc = "answered" /\ r.kind \in ListKind
      /\ list' = IF r.kind = "reset" THEN r.page ELSE Appended(r.page)
      /\ cursor' = r.next
      /\ crossed' = (r.crossed \/ (crossed /\ r.kind = "more"))
      /\ moved' = IF r.kind = "reset" THEN r.moved ELSE moved
      /\ Done(s) /\ UNCHANGED <<now, last>>
  BY DEF ReceiveList, rowVars
<1>2. RequestInv(r, cursor, moved, last) /\ Shapes
  BY DEF ListInv
<1>3. Became(s, NoRequest)
  BY <1>1, <1>2, DoneForm
<1>4. Listed(r)
  BY <1>1 DEF Listed
<1>5. /\ \A q \in Slot : RequestInv(request'[q], cursor', moved', last')
      /\ \A p, q \in Slot : p # q /\ Listed(request'[p]) /\ Listed(request'[q])
                              => request'[p].crossed
  BY <1>1, <1>3, <1>4, OthersStand
<1> HIDE DEF r
<1>6. CASE r.kind = "reset"
  <2>1. r.page \in Seq(Conversation) /\ IsInjective(r.page)
        /\ Covers(r.page, r.next, Conversation \ r.moved, last)
    BY <1>1, <1>2, <1>6 DEF RequestInv
  <2>2. Covers(list', cursor', Conversation \ moved', last')
    BY <1>1, <1>6, <2>1
  <2>3. list' \in Seq(Conversation) /\ IsInjective(list')
    BY <1>1, <1>6, <2>1
  <2>4. QED
    BY <1>1, <1>3, <1>5, <2>2, <2>3 DEF ListInv, Became
<1>7. CASE r.kind = "more"
  <2> DEFINE rest == Without(r.page, Range(list))
  <2>1. r.page \in Seq(Conversation) /\ IsInjective(r.page)
    BY <1>2 DEF RequestInv
  <2>2. list \in Seq(Conversation) /\ IsInjective(list)
    BY DEF ListInv
  <2>3. /\ rest \in Seq(Conversation) /\ Range(rest) = Range(r.page) \ Range(list)
        /\ IsInjective(rest)
    BY <2>1, WithoutIs
  <2>4. list' = list \o rest
    BY <1>1, <1>7 DEF Appended
  <2> HIDE DEF rest
  <2>5. Range(list) \cap Range(rest) = {}
    BY <2>3
  <2>6. /\ list' \in Seq(Conversation) /\ IsInjective(list')
        /\ Range(list') = Range(list) \cup Range(rest)
    BY <2>2, <2>3, <2>4, <2>5, Joining
  <2>7. Range(list') = Range(list) \cup Range(r.page)
    BY <2>3, <2>6
  <2>8. ASSUME ~crossed' PROVE Covers(list', cursor', Conversation \ moved', last')
    <3>1. ~r.crossed /\ ~crossed
      BY <1>1, <1>7, <2>8
    <3>2. Covers(r.page, r.next,
                 {c \in Conversation \ moved : Before(cursor, KeyAt(last, c))}, last)
      BY <1>1, <1>2, <1>7, <3>1 DEF RequestInv, Uncrossed
    <3>3. Covers(list, cursor, Conversation \ moved, last)
      BY <3>1 DEF ListInv
    <3>4. moved' = moved /\ cursor' = r.next /\ last' = last
      BY <1>1, <1>7
    <3>5. ASSUME NEW c \in Conversation \ moved
          PROVE  c \in Range(list) \cup Range(r.page)
                   \/ (r.next # None /\ Before(r.next, KeyAt(last, c)))
      BY <3>2, <3>3 DEF Covers
    <3>6. QED
      BY <2>7, <3>4, <3>5 DEF Covers
  <2>9. QED
    BY <1>1, <1>3, <1>5, <2>6, <2>8 DEF ListInv, Became
<1>8. QED
  BY <1>1, <1>6, <1>7 DEF ListKind

(* An updated conversation is at most moved to the top. *)
LEMMA ReceiveUpdateKeeps == ASSUME ListInv, NEW s \in Slot, ReceiveUpdate(s) PROVE ListInv'
<1> DEFINE r == request[s]
           rest == Without(list, {r.of})
<1>1. /\ r.pc = "answered" /\ r.kind = "update"
      /\ list' \in {rest, <<r.of>> \o rest}
      /\ moved' = moved \cup {r.of}
      /\ Done(s) /\ UNCHANGED <<now, last, cursor, crossed>>
  BY DEF ReceiveUpdate, rowVars
<1>2. RequestInv(r, cursor, moved, last) /\ Shapes
  BY DEF ListInv
<1>3. Became(s, NoRequest)
  BY <1>1, <1>2, DoneForm
<1>4. r.of \in Conversation
  BY <1>1, <1>2 DEF RequestInv
<1>5. /\ \A q \in Slot : RequestInv(request'[q], cursor', moved', last')
      /\ \A p, q \in Slot : p # q /\ Listed(request'[p]) /\ Listed(request'[q])
                              => request'[p].crossed
  BY <1>1, <1>3, OthersStand
<1>6. list \in Seq(Conversation) /\ IsInjective(list)
  BY DEF ListInv
<1>7. /\ rest \in Seq(Conversation) /\ Range(rest) = Range(list) \ {r.of}
      /\ IsInjective(rest)
  BY <1>6, WithoutIs
<1> HIDE DEF rest
<1> DEFINE top == <<r.of>>
<1>8. top \in Seq(Conversation) /\ Range(top) = {r.of} /\ IsInjective(top)
  BY <1>4 DEF Range, IsInjective
<1> HIDE DEF top
<1>9. /\ list' \in Seq(Conversation) /\ IsInjective(list')
      /\ Range(list) \ {r.of} \subseteq Range(list')
  <2>1. CASE list' = rest
    BY <1>7, <2>1
  <2>2. CASE list' = <<r.of>> \o rest
    <3>1. Range(top) \cap Range(rest) = {}
      BY <1>7, <1>8
    <3>2. /\ top \o rest \in Seq(Conversation) /\ IsInjective(top \o rest)
          /\ Range(top \o rest) = Range(top) \cup Range(rest)
      BY <1>7, <1>8, <3>1, Joining
    <3>3. list' = top \o rest
      BY <2>2 DEF top
    <3>4. QED
      BY <1>7, <3>2, <3>3
  <2>3. QED
    BY <1>1, <2>1, <2>2
<1> HIDE DEF r
<1>10. ASSUME ~crossed' PROVE Covers(list', cursor', Conversation \ moved', last')
  <2>1. Covers(list, cursor, Conversation \ moved, last)
    BY <1>1, <1>10 DEF ListInv
  <2>2. cursor' = cursor /\ last' = last
    BY <1>1
  <2>3. ASSUME NEW c \in Conversation \ moved'
        PROVE  c \in Range(list') \/ (cursor # None /\ Before(cursor, KeyAt(last, c)))
    BY <1>1, <1>9, <2>1, <2>3 DEF Covers
  <2>4. QED
    BY <2>2, <2>3 DEF Covers
<1>11. QED
  BY <1>1, <1>3, <1>5, <1>9, <1>10 DEF ListInv, Became

LEMMA ListInit == Init => ListInv
<1> SUFFICES ASSUME Init PROVE ListInv
  OBVIOUS
<1>1. request = [s \in Slot |-> NoRequest] /\ last \in [Conversation -> 0..1]
      /\ now = 1 /\ list = <<>> /\ moved = Conversation
  BY DEF Init
<1>2. Shapes /\ \A s \in Slot : request[s] = NoRequest
  BY <1>1, NoRequestForm DEF Shapes
<1>3. RequestInv(NoRequest, cursor, moved, last) /\ ~Listed(NoRequest)
  BY NoRequestForm, OtherRequest
<1>4. last \in [Conversation -> Nat]
  BY <1>1
<1>5. Covers(list, cursor, Conversation \ moved, last)
  BY <1>1 DEF Covers
<1>6. QED
  BY <1>1, <1>2, <1>3, <1>4, <1>5, EmptyList DEF ListInv

LEMMA ListKeeps == ListInv /\ [Next]_vars => ListInv'
<1> SUFFICES ASSUME ListInv, [Next]_vars PROVE ListInv'
  OBVIOUS
<1>1. ASSUME UNCHANGED <<now, last, request, list, cursor, crossed, moved>> PROVE ListInv'
  BY <1>1 DEF ListInv, Shapes
<1>2. CASE UNCHANGED vars
  BY <1>1, <1>2 DEF vars, rowVars, storeVars
<1>3. now \in Nat
  BY DEF ListInv
<1>4. ASSUME NEW c \in Conversation, NEW delay \in 0..MaxDelay, StoreInbound(c, delay)
      PROVE  ListInv'
  <2>1. delay \in Nat /\ delay <= now
    BY <1>4, ConsoleAssumption DEF StoreInbound
  <2>2. now + 1 - delay \in Nat /\ now + 1 \in Nat
    BY <1>3, <2>1
  <2>3. /\ Moves(c) /\ last' = [last EXCEPT ![c] = now + 1 - delay] /\ now' = now + 1
        /\ UNCHANGED <<list, cursor, crossed>>
    BY <1>4 DEF StoreInbound, storeVars
  <2>4. QED
    BY <2>2, <2>3, MovesKeepList
<1>5. ASSUME NEW c \in Conversation, RecordOutbound(c) PROVE ListInv'
  <2>1. /\ Moves(c) /\ last' = [last EXCEPT ![c] = now + 1] /\ now' = now + 1
        /\ UNCHANGED <<list, cursor, crossed>>
    BY <1>5 DEF RecordOutbound, storeVars
  <2>2. now + 1 \in Nat
    BY <1>3
  <2>3. QED
    BY <2>1, <2>2, MovesKeepList
<1>6. ASSUME NEW t \in Token, Login(t) \/ SendLogout(t) PROVE ListInv'
  BY <1>1, <1>6 DEF Login, SendLogout, rowVars, storeVars
<1>7. CASE LoadSessions \/ EndSessions
  BY <1>1, <1>7 DEF LoadSessions, EndSessions, rowVars, storeVars
<1>8. ASSUME NEW s \in Slot, Browse(s) PROVE ListInv'
  <2>1. CASE FetchList(s)
    BY <2>1, SendListKeeps DEF FetchList
  <2>2. CASE FetchMore(s)
    BY <2>2, SendListKeeps DEF FetchMore
  <2>3. QED
    BY <1>8, <2>1, <2>2, AnswerListKeeps, OthersKeepList, ReceiveListKeeps,
       ReceiveUpdateKeeps DEF Browse
<1>9. QED
  BY <1>2, <1>4, <1>5, <1>6, <1>7, <1>8 DEF Next

(* Whatever moves while the agent pages, and however refreshes, pages and  *)
(* updates cross, no conversation is listed twice; and a list of requests  *)
(* that have not crossed has missed none that has not moved since.         *)
THEOREM PagesNeverSkipOrRepeat == Spec => []PagesSkipAndRepeatNothing
<1>1. ListInv => PagesSkipAndRepeatNothing
  BY KeyNow DEF ListInv, Covers, PagesSkipAndRepeatNothing
<1>2. QED
  BY <1>1, ListInit, ListKeeps, PTL DEF Spec

-----------------------------------------------------------------------------
(* Types. *)

RequestOK(r) ==
  /\ r \in Request
  /\ Len(r.page) <= PageSize
  /\ r.kind \notin ListKind => r.of # 0

LEMMA RequestsOK ==
  TypeOK => request \in [Slot -> Request] /\ \A s \in Slot : RequestOK(request[s])
BY DEF TypeOK, RequestOK

LEMMA EmptyPage == <<>> \in Seq(Conversation) /\ Len(<<>>) <= PageSize
BY ConsoleAssumption

LEMMA NoRequestOK == RequestOK(NoRequest)
BY EmptyPage DEF RequestOK, NoRequest, Request, ListKind, Cursor, Cookie

LEMMA AskedOK ==
  ASSUME NEW kind \in ListKind \cup {"open", "read", "update"},
         NEW of \in Conversation \cup {0}, NEW from \in Cursor, NEW t \in LoggedIn,
         kind \notin ListKind => of # 0
  PROVE  RequestOK(Asked(kind, of, from, t))
<1>1. Late(t) \in BOOLEAN /\ t \in Token /\ None \in Cursor
  BY DEF Late, LoggedIn, Cursor
<1> DEFINE late == Late(t)
<1>2. Asked(kind, of, from, t)
        = [pc |-> "sent", kind |-> kind, of |-> of, from |-> from, token |-> t,
           late |-> late, page |-> <<>>, next |-> None, crossed |-> FALSE,
           moved |-> {}]
  BY AskedForm
<1> HIDE DEF late
<1>3. late \in BOOLEAN
  BY <1>1 DEF late
<1>4. QED
  BY <1>1, <1>2, <1>3, EmptyPage DEF RequestOK, Request, Cookie

(* A page's length, and its cursor. *)
LEMMA PageOK ==
  ASSUME TypeOK, NEW from, NEW rows \in Pages(from)
  PROVE  /\ rows \in Seq(Conversation) /\ Len(rows) <= PageSize
         /\ NextCursor(from, rows) \in Cursor
<1>1. PICK m \in 0..PageSize : rows \in [1..m -> Sought(from)]
  BY DEF Pages, SeqOf
<1>2. PageSize \in Nat \ {0} /\ m \in Nat
  BY ConsoleAssumption
<1>3. /\ rows \in Seq(Conversation) /\ Len(rows) = m /\ DOMAIN rows = 1..m
      /\ Range(rows) \subseteq Sought(from)
  BY <1>1, <1>2 DEF Sought, Range
<1>4. ASSUME Sought(from) # Range(rows) PROVE KeyOf(Last(rows)) \in Cursor
  <2>1. PICK c \in Sought(from) \ Range(rows) : TRUE
    BY <1>3, <1>4
  <2>2. m = PageSize
    BY <1>3, <2>1 DEF Pages
  <2>3. Last(rows) \in Conversation
    BY <1>2, <1>3, <2>2 DEF Last
  <2>4. last[Last(rows)] \in Nat
    <3>1. last \in [Conversation -> 0..MaxTime]
      BY DEF TypeOK
    <3>2. last[Last(rows)] \in 0..MaxTime
      BY <2>3, <3>1
    <3>3. QED
      BY <3>2, ConsoleAssumption
  <2>5. QED
    BY <2>3, <2>4 DEF KeyOf, Cursor, Key
<1>5. NextCursor(from, rows) \in Cursor
  BY <1>4 DEF NextCursor, Cursor
<1>6. QED
  BY <1>1, <1>2, <1>3, <1>5

(* One request is new, or its answer is. *)
LEMMA OneRequestTyped ==
  ASSUME TypeOK, NEW s \in Slot, NEW n, RequestOK(n),
         request' = [request EXCEPT ![s] = n]
  PROVE  request' \in [Slot -> Request] /\ \A q \in Slot : RequestOK(request'[q])
BY RequestsOK DEF RequestOK

LEMMA MovesTyped ==
  ASSUME TypeOK, NEW c \in Conversation, Moves(c)
  PROVE  /\ request' \in [Slot -> Request] /\ \A q \in Slot : RequestOK(request'[q])
         /\ moved' \subseteq Conversation
<1>1. request' = [q \in Slot |->
        IF request[q].pc = "answered" /\ request[q].kind = "reset"
          THEN [request[q] EXCEPT !.moved = @ \cup {c}] ELSE request[q]]
  BY DEF Moves
<1>2. ASSUME NEW q \in Slot
      PROVE  RequestOK([request[q] EXCEPT !.moved = @ \cup {c}])
  BY RequestsOK DEF RequestOK, Request
<1>3. \A q \in Slot : RequestOK(request'[q])
  BY <1>1, <1>2, RequestsOK
<1>4. request' \in [Slot -> Request]
  <2>1. \A q \in Slot : request'[q] \in Request
    BY <1>3 DEF RequestOK
  <2>2. QED
    BY <1>1, <2>1
<1>5. QED
  BY <1>3, <1>4 DEF Moves, TypeOK

LEMMA AnswerTyped ==
  ASSUME TypeOK, NEW s \in Slot, NEW page \in Seq(Conversation), Len(page) <= PageSize,
         NEW next \in Cursor, Answer(s, page, next)
  PROVE  /\ request' \in [Slot -> Request] /\ \A q \in Slot : RequestOK(request'[q])
         /\ request[s].pc = "sent"
<1> DEFINE o == request[s]
           n == [o EXCEPT !.pc = "answered", !.token = NoToken, !.from = None,
                          !.page = page, !.next = next]
<1>1. request' = [request EXCEPT ![s] = n] /\ o.pc = "sent"
  BY DEF Answer, TypeOK
<1>2. RequestOK(o)
  BY RequestsOK
<1> HIDE DEF o
<1>3. RequestOK(n)
  BY <1>2 DEF RequestOK, Request, Cookie, Cursor
<1> HIDE DEF n
<1>4. QED
  BY <1>1, <1>3, OneRequestTyped DEF o

LEMMA SendListTyped ==
  ASSUME TypeOK, NEW s \in Slot, NEW kind \in ListKind, NEW from \in Cursor,
         SendList(s, kind, from)
  PROVE  TypeOK'
<1> DEFINE any == \E p \in Slot : IsList(p)
           either(q) == request[q].crossed \/ IsList(q)
<1>1. PICK t \in LoggedIn : request' = [q \in Slot |->
         IF q = s THEN [Asked(kind, 0, from, t) EXCEPT !.crossed = any]
         ELSE [request[q] EXCEPT !.crossed = either(q)]]
  BY DEF SendList
<1>2. any \in BOOLEAN /\ \A q \in Slot : either(q) \in BOOLEAN
  OBVIOUS
<1> HIDE DEF any, either
<1>3. ASSUME NEW r, RequestOK(r), NEW b \in BOOLEAN
      PROVE  RequestOK([r EXCEPT !.crossed = b])
  BY <1>3 DEF RequestOK, Request
<1>4. RequestOK(Asked(kind, 0, from, t))
  BY AskedOK
<1>5. ASSUME NEW q \in Slot PROVE RequestOK(request'[q])
  BY <1>1, <1>2, <1>3, <1>4, RequestsOK
<1>6. request' \in [Slot -> Request]
  <2>1. \A q \in Slot : request'[q] \in Request
    BY <1>5 DEF RequestOK
  <2>2. QED
    BY <1>1, <2>1
<1>7. sent' \in 0..MaxRequests
  BY ConsoleAssumption DEF TypeOK, SendList, Free
<1>8. /\ loading' = TRUE
      /\ UNCHANGED <<rowVars, authVars, list, cursor, detail, crossed, moved>>
  BY DEF SendList
<1>9. QED
  BY <1>5, <1>6, <1>7, <1>8 DEF TypeOK, RequestOK, rowVars, authVars

(* Time passes, and a conversation has a new time of at most that. *)
LEMMA RowTyped ==
  ASSUME TypeOK, NEW c \in Conversation, NEW delay \in Nat, delay <= now,
         now < MaxTime, now' = now + 1, last' = [last EXCEPT ![c] = now + 1 - delay],
         Moves(c), unseen' \in {unseen, unseen \cup {c}},
         UNCHANGED <<read, authVars, sent, storeVars, crossed>>
  PROVE  TypeOK'
<1>1. now' \in 1..MaxTime /\ now + 1 - delay \in 0..MaxTime
  BY ConsoleAssumption DEF TypeOK
<1>2. last' \in [Conversation -> 0..MaxTime] /\ unseen' \subseteq Conversation
  BY <1>1 DEF TypeOK
<1>3. QED
  BY <1>1, <1>2, MovesTyped DEF TypeOK, RequestOK, authVars, storeVars

LEMMA SessionsTyped ==
  ASSUME TypeOK, LoadSessions \/ EndSessions \/ \E t \in Token : Login(t) \/ SendLogout(t)
  PROVE  TypeOK'
<1>1. /\ logout \in Logout /\ session \in [Token -> SessionState]
      /\ NoLogout \in Logout
  BY DEF TypeOK, NoLogout, Logout, Cookie
<1>2. Live \subseteq Token
  BY DEF Live
<1>3. ASSUME NEW t \in Token, Login(t)
      PROVE  logout' \in Logout /\ session' \in [Token -> SessionState]
  BY <1>1, <1>3 DEF Login, SessionState
<1>4. ASSUME NEW t \in Token, SendLogout(t)
      PROVE  logout' \in Logout /\ session' \in [Token -> SessionState]
  BY <1>1, <1>2, <1>4 DEF SendLogout, Logout, Cookie
<1>5. ASSUME LoadSessions
      PROVE  logout' \in Logout /\ session' \in [Token -> SessionState]
  <2>1. [logout EXCEPT !.pc = "loaded", !.seen = Live] \in Logout
    BY <1>1, <1>2 DEF Logout
  <2>2. [session EXCEPT ![logout.token] = "over"] \in [Token -> SessionState]
    BY <1>1 DEF SessionState
  <2>3. QED
    BY <1>1, <1>5, <2>1, <2>2 DEF LoadSessions, Expires
<1>6. ASSUME EndSessions
      PROVE  logout' \in Logout /\ session' \in [Token -> SessionState]
  <2>1. [NoLogout EXCEPT !.pc = "done", !.before = logout.before] \in Logout
    BY <1>1 DEF Logout
  <2>2. [t \in Token |-> IF t \in Revoked THEN "over" ELSE session[t]]
          \in [Token -> SessionState]
    BY <1>1 DEF SessionState
  <2>3. QED
    BY <1>6, <2>1, <2>2 DEF EndSessions
<1>7. UNCHANGED <<rowVars, request, sent, storeVars, crossed, moved>>
  BY DEF LoadSessions, EndSessions, Login, SendLogout
<1>8. QED
  BY <1>3, <1>4, <1>5, <1>6, <1>7 DEF TypeOK, rowVars, storeVars

LEMMA BrowseTyped == ASSUME TypeOK, NEW s \in Slot, Browse(s) PROVE TypeOK'
<1>1. RequestOK(request[s]) /\ None \in Cursor
  BY RequestsOK DEF Cursor
<1>2. ASSUME Done(s)
      PROVE  /\ request' \in [Slot -> Request] /\ \A q \in Slot : RequestOK(request'[q])
             /\ UNCHANGED sent
  BY <1>2, NoRequestOK, OneRequestTyped DEF Done
<1>3. ASSUME NEW kind \in {"open", "read", "update"}, NEW of \in Conversation,
             NEW t \in LoggedIn,
             request' = [request EXCEPT ![s] = Asked(kind, of, None, t)]
      PROVE  request' \in [Slot -> Request] /\ \A q \in Slot : RequestOK(request'[q])
  <2>1. of # 0
    BY ConsoleAssumption
  <2>2. RequestOK(Asked(kind, of, None, t))
    BY <1>1, <2>1, AskedOK
  <2>3. QED
    BY <1>3, <2>2, OneRequestTyped
<1>4. CASE FetchList(s)
  BY <1>1, <1>4, SendListTyped DEF FetchList, ListKind
<1>5. CASE FetchMore(s)
  BY <1>5, SendListTyped DEF FetchMore, ListKind, TypeOK
<1>6. CASE Ask(s)
  <2>1. request' \in [Slot -> Request] /\ \A q \in Slot : RequestOK(request'[q])
    BY <1>3, <1>6 DEF Ask
  <2>2. sent' \in 0..MaxRequests
    BY <1>6, ConsoleAssumption DEF Ask, Free, TypeOK
  <2>3. QED
    BY <1>6, <2>1, <2>2 DEF Ask, TypeOK, RequestOK, rowVars, authVars, storeVars
<1>7. CASE Refuse(s) \/ Lose(s)
  <2>1. Fails(s) /\ session' \in [Token -> SessionState]
    BY <1>7 DEF Refuse, Lose, Expires, TypeOK, SessionState
  <2>2. loading' \in BOOLEAN /\ Done(s)
    BY <2>1 DEF Fails
  <2>3. UNCHANGED <<rowVars, logout, list, cursor, detail, crossed, moved>>
    BY <2>1 DEF Fails
  <2>4. QED
    BY <1>2, <2>1, <2>2, <2>3 DEF TypeOK, RequestOK, rowVars
<1>8. CASE AnswerList(s)
  <2>1. PICK rows \in Pages(request[s].from) :
               Answer(s, rows, NextCursor(request[s].from, rows))
    BY <1>8 DEF AnswerList
  <2> DEFINE next == NextCursor(request[s].from, rows)
  <2>2. rows \in Seq(Conversation) /\ Len(rows) <= PageSize /\ next \in Cursor
    BY PageOK
  <2> HIDE DEF next
  <2>3. Answer(s, rows, next)
    BY <2>1 DEF next
  <2>4. request' \in [Slot -> Request] /\ \A q \in Slot : RequestOK(request'[q])
    BY <2>2, <2>3, AnswerTyped
  <2>5. UNCHANGED <<now, last, read, unseen, authVars, sent, storeVars, crossed, moved>>
    BY <1>8, <2>3 DEF AnswerList, Answer
  <2>6. QED
    BY <2>4, <2>5 DEF TypeOK, RequestOK, authVars, storeVars
<1>9. CASE AnswerThread(s) \/ AnswerRead(s)
  <2>1. Answer(s, <<>>, None)
    BY <1>9 DEF AnswerThread, AnswerRead
  <2>2. request' \in [Slot -> Request] /\ \A q \in Slot : RequestOK(request'[q])
    BY <1>1, <2>1, EmptyPage, AnswerTyped
  <2>3. unseen' \subseteq Conversation
    <3>1. unseen' \subseteq unseen
      BY <1>9 DEF AnswerThread, AnswerRead
    <3>2. QED
      BY <3>1 DEF TypeOK
  <2>4. read' \in [Conversation -> 0..MaxTime]
    <3>1. now \in 0..MaxTime /\ read \in [Conversation -> 0..MaxTime]
      BY ConsoleAssumption DEF TypeOK
    <3>2. UNCHANGED read \/ read' = [read EXCEPT ![request[s].of] = now]
      BY <1>9 DEF AnswerThread, AnswerRead
    <3>3. QED
      BY <3>1, <3>2
  <2>5. UNCHANGED <<now, last, authVars, sent, storeVars, crossed, moved>>
    BY <2>1 DEF Answer
  <2>6. QED
    BY <2>2, <2>3, <2>4, <2>5 DEF TypeOK, RequestOK, authVars, storeVars
<1>10. CASE ReceiveList(s)
  <2> DEFINE r == request[s]
  <2>1. /\ list' = IF r.kind = "reset" THEN r.page ELSE Appended(r.page)
        /\ cursor' = r.next /\ loading' = FALSE
        /\ crossed' = (r.crossed \/ (crossed /\ r.kind = "more"))
        /\ moved' = IF r.kind = "reset" THEN r.moved ELSE moved
        /\ Done(s) /\ UNCHANGED <<rowVars, authVars, detail>>
    BY <1>10 DEF ReceiveList
  <2>2. /\ r.page \in Seq(Conversation) /\ r.next \in Cursor
        /\ r.moved \subseteq Conversation
    BY <1>1 DEF RequestOK, Request
  <2> HIDE DEF r
  <2>3. crossed' \in BOOLEAN
    BY <2>1
  <2>4. list' \in Seq(Conversation)
    <3>1. Without(r.page, Range(list)) \in Seq(Conversation)
      BY <2>2, WithoutIs
    <3>2. Appended(r.page) \in Seq(Conversation)
      BY <3>1 DEF Appended, TypeOK
    <3>3. QED
      BY <2>1, <2>2, <3>2
  <2>5. QED
    BY <1>2, <2>1, <2>2, <2>3, <2>4 DEF TypeOK, RequestOK, rowVars, authVars
<1>11. ASSUME request[s].kind \notin ListKind PROVE request[s].of \in Conversation
  BY <1>1, <1>11 DEF RequestOK, Request
<1>12. CASE ReceiveThread(s)
  <2>1. request[s].of \in Conversation
    BY <1>11, <1>12 DEF ReceiveThread, ListKind
  <2>2. request' \in [Slot -> Request] /\ \A q \in Slot : RequestOK(request'[q])
    BY <1>3, <1>12, <2>1 DEF ReceiveThread
  <2>3. detail' \in Conversation
    BY <1>12, <2>1 DEF ReceiveThread
  <2>4. UNCHANGED <<sent, rowVars, authVars, list, cursor, loading, crossed, moved>>
    BY <1>12 DEF ReceiveThread
  <2>5. QED
    BY <2>2, <2>3, <2>4 DEF TypeOK, RequestOK, rowVars, authVars
<1>13. CASE ReceiveUpdate(s)
  <2> DEFINE of == request[s].of
             rest == Without(list, {of})
  <2>1. of \in Conversation
    BY <1>11, <1>13 DEF ReceiveUpdate, ListKind
  <2>2. rest \in Seq(Conversation)
    BY WithoutIs DEF TypeOK
  <2>3. /\ detail' = of /\ list' \in {rest, <<of>> \o rest} /\ moved' = moved \cup {of}
        /\ Done(s) /\ UNCHANGED <<rowVars, authVars, cursor, loading, crossed>>
    BY <1>13 DEF ReceiveUpdate
  <2> HIDE DEF of, rest
  <2>4. list' \in Seq(Conversation)
    <3>1. <<of>> \in Seq(Conversation)
      BY <2>1
    <3>2. <<of>> \o rest \in Seq(Conversation)
      BY <2>2, <3>1, Joining
    <3>3. QED
      BY <2>2, <2>3, <3>2
  <2>5. QED
    BY <1>2, <2>1, <2>3, <2>4 DEF TypeOK, RequestOK, rowVars, authVars
<1>14. CASE ReceiveRead(s)
  <2>1. Done(s) /\ UNCHANGED <<rowVars, authVars, storeVars, crossed, moved>>
    BY <1>14 DEF ReceiveRead
  <2>2. QED
    BY <1>2, <2>1 DEF TypeOK, RequestOK, rowVars, authVars, storeVars
<1>15. QED
  BY <1>4, <1>5, <1>6, <1>7, <1>8, <1>9, <1>10, <1>12, <1>13, <1>14 DEF Browse

LEMMA TypeInit == Init => TypeOK
<1> SUFFICES ASSUME Init PROVE TypeOK
  OBVIOUS
<1>1. now \in 1..MaxTime /\ sent \in 0..MaxRequests /\ 0..1 \subseteq 0..MaxTime
  BY ConsoleAssumption DEF Init
<1>2. last \in [Conversation -> 0..MaxTime] /\ read \in [Conversation -> 0..MaxTime]
  BY <1>1, ConsoleAssumption DEF Init
<1>3. session \in [Token -> SessionState]
  BY DEF Init, SessionState
<1>4. logout \in Logout
  BY DEF Init, NoLogout, Logout, Cookie
<1>5. request \in [Slot -> Request] /\ \A s \in Slot : RequestOK(request[s])
  BY NoRequestOK DEF Init, RequestOK
<1>6. /\ unseen = {} /\ moved = Conversation /\ list = <<>> /\ cursor = None
      /\ detail = 0 /\ loading = FALSE /\ crossed = FALSE
  BY DEF Init
<1>7. /\ unseen \subseteq Conversation /\ moved \subseteq Conversation
      /\ list \in Seq(Conversation) /\ cursor \in Cursor
      /\ detail \in Conversation \cup {0} /\ loading \in BOOLEAN /\ crossed \in BOOLEAN
  BY <1>6, EmptyPage DEF Cursor
<1>8. QED
  BY <1>1, <1>2, <1>3, <1>4, <1>5, <1>7 DEF TypeOK, RequestOK

LEMMA TypeKeeps == TypeOK /\ [Next]_vars => TypeOK'
<1> SUFFICES ASSUME TypeOK, [Next]_vars PROVE TypeOK'
  OBVIOUS
<1>1. CASE UNCHANGED vars
  BY <1>1 DEF vars, rowVars, authVars, storeVars, TypeOK
<1>2. ASSUME NEW c \in Conversation, NEW delay \in 0..MaxDelay, StoreInbound(c, delay)
      PROVE  TypeOK'
  <2>1. delay \in Nat /\ delay <= now /\ now < MaxTime
    BY <1>2, ConsoleAssumption DEF StoreInbound
  <2>2. QED
    BY <1>2, <2>1, RowTyped DEF StoreInbound
<1>3. ASSUME NEW c \in Conversation, RecordOutbound(c) PROVE TypeOK'
  <2>1. now \in Nat /\ 0 <= now /\ now < MaxTime /\ now + 1 = now + 1 - 0
    BY <1>3, ConsoleAssumption DEF TypeOK, RecordOutbound
  <2>2. last' = [last EXCEPT ![c] = now + 1 - 0]
    BY <1>3, <2>1 DEF RecordOutbound
  <2>3. /\ now' = now + 1 /\ Moves(c) /\ unseen' \in {unseen, unseen \cup {c}}
        /\ UNCHANGED <<read, authVars, sent, storeVars, crossed>>
    BY <1>3 DEF RecordOutbound
  <2>4. QED
    BY <2>1, <2>2, <2>3, RowTyped
<1>4. QED
  BY <1>1, <1>2, <1>3, SessionsTyped, BrowseTyped DEF Next

(* Rows, sessions, requests and the store have the types of the code's:    *)
(* a page is never longer than was asked for, a cursor is the key of a     *)
(* conversation, and what is opened, read or updated is one.               *)
THEOREM ConsoleTypeCorrect == Spec => []TypeOK
BY TypeInit, TypeKeeps, PTL DEF Spec

=============================================================================
