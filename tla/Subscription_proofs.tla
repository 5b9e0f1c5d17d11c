-------------------------- MODULE Subscription_proofs --------------------------
(* The order and the accounting of notifications, for any number of        *)
(* subscriptions, events, permits and limits.                              *)
(*                                                                         *)
(* The first lemmas Line... and Events... speak of one subscription's      *)
(* pipeline as values: its deliveries v, its tasks t, the held event h,    *)
(* its queue q and the fan-out tasks f.  An action changes the pipeline of *)
(* one subscription, or moves the head of f to all of them.                *)
EXTENDS Subscription, SequenceTheorems, TLAPS

(* What is needed of sequences, with their domains. *)
LEMMA Pushed ==
    ASSUME NEW S, NEW s \in Seq(S), NEW e \in S
    PROVE  /\ Append(s, e) \in Seq(S)
           /\ Len(s) \in Nat /\ Len(Append(s, e)) = Len(s) + 1
           /\ DOMAIN s = 1..Len(s)
           /\ DOMAIN Append(s, e) = 1..(Len(s) + 1)
           /\ \A n \in 1..Len(s) : Append(s, e)[n] = s[n]
           /\ Append(s, e)[Len(s) + 1] = e
  BY AppendProperties, LenProperties

LEMMA Listed ==
    ASSUME NEW S, NEW k \in Nat, NEW e \in [1..k -> S]
    PROVE  e \in Seq(S) /\ Len(e) = k
  <1>1. e \in Seq(S)
    BY SeqDef
  <1>2. Len(e) \in Nat /\ DOMAIN e = 1..Len(e) /\ DOMAIN e = 1..k
    BY <1>1, LenProperties
  <1> QED BY <1>1, <1>2

LEMMA Popped ==
    ASSUME NEW S, NEW s \in Seq(S), s # <<>>
    PROVE  /\ Head(s) \in S /\ Tail(s) \in Seq(S)
           /\ Len(s) \in Nat /\ Len(s) > 0 /\ Len(Tail(s)) = Len(s) - 1
           /\ DOMAIN s = 1..Len(s)
           /\ DOMAIN Tail(s) = 1..(Len(s) - 1)
           /\ Head(s) = s[1]
           /\ \A n \in 1..(Len(s) - 1) : Tail(s)[n] = s[n + 1]
  <1>1. Len(s) \in Nat /\ Len(s) > 0 /\ DOMAIN s = 1..Len(s)
    BY EmptySeq, LenProperties
  <1>2. /\ Head(s) \in S /\ Tail(s) \in Seq(S) /\ Len(Tail(s)) = Len(s) - 1
        /\ \A n \in 1..Len(Tail(s)) : Tail(s)[n] = s[n + 1]
    BY HeadTailProperties
  <1>3. DOMAIN Tail(s) = 1..(Len(s) - 1)
    BY <1>2, LenProperties
  <1> QED BY <1>1, <1>2, <1>3

LEMMA Removed ==
    ASSUME NEW S, NEW s \in Seq(S), NEW n \in DOMAIN s
    PROVE  /\ Without(s, n) \in Seq(S)
           /\ Len(s) \in Nat /\ DOMAIN s = 1..Len(s) /\ n \in 1..Len(s)
           /\ Len(Without(s, n)) = Len(s) - 1
           /\ DOMAIN Without(s, n) = 1..(Len(s) - 1)
           /\ \A m \in 1..(Len(s) - 1) :
                 Without(s, n)[m] = IF m < n THEN s[m] ELSE s[m + 1]
  <1> DEFINE a == SubSeq(s, 1, n - 1)
             b == SubSeq(s, n + 1, Len(s))
             c == a \o b
  <1>1. Len(s) \in Nat /\ DOMAIN s = 1..Len(s) /\ n \in 1..Len(s) /\ \A m \in 1..Len(s) : s[m] \in S
    BY LenProperties
  <1>2. /\ a \in Seq(S) /\ Len(a) = n - 1
        /\ \A m \in 1..(n - 1) : a[m] = s[m]
    <2>1. \A m \in 1..(n - 1) : s[m] \in S BY <1>1
    <2> QED BY <1>1, <2>1, SubSeqProperties
  <1>3. /\ b \in Seq(S) /\ Len(b) = Len(s) - n
        /\ \A m \in 1..(Len(s) - n) : b[m] = s[n + m]
    <2>1. \A m \in (n + 1)..Len(s) : s[m] \in S BY <1>1
    <2> QED BY <1>1, <2>1, SubSeqProperties
  <1> HIDE DEF a, b
  <1>4. Without(s, n) = c BY DEF Without, a, b
  <1>5. /\ c \in Seq(S) /\ Len(c) = Len(s) - 1
        /\ \A m \in 1..(Len(s) - 1) : c[m] = IF m <= n - 1 THEN a[m] ELSE b[m - (n - 1)]
    <2>1. Len(a) + Len(b) = Len(s) - 1 BY <1>1, <1>2, <1>3
    <2>2. /\ a \o b \in Seq(S) /\ Len(a \o b) = Len(a) + Len(b)
          /\ \A m \in 1..(Len(a) + Len(b)) :
                (a \o b)[m] = IF m <= Len(a) THEN a[m] ELSE b[m - Len(a)]
      BY <1>2, <1>3, ConcatProperties
    <2> QED BY <1>2, <2>1, <2>2
  <1> HIDE DEF c
  <1>6. DOMAIN c = 1..(Len(s) - 1)
    BY <1>5, LenProperties
  <1>7. ASSUME NEW m \in 1..(Len(s) - 1)
        PROVE  c[m] = IF m < n THEN s[m] ELSE s[m + 1]
    <2>1. CASE m < n BY <1>1, <1>2, <1>5, <2>1
    <2>2. CASE ~(m < n)
      <3>1. m - (n - 1) \in 1..(Len(s) - n) /\ n + (m - (n - 1)) = m + 1
        BY <1>1, <2>2
      <3>2. c[m] = b[m - (n - 1)]
        <4>1. ~(m <= n - 1) BY <1>1, <2>2
        <4> QED BY <1>5, <4>1
      <3>3. b[m - (n - 1)] = s[n + (m - (n - 1))]
        BY <1>3, <3>1
      <3> QED BY <2>2, <3>1, <3>2, <3>3
    <2> QED BY <2>1, <2>2
  <1> QED BY <1>1, <1>4, <1>5, <1>6, <1>7

States == {"created", "pool", "out", "sent", "failed"}

LEMMA Changed ==
    ASSUME NEW t \in Seq(Deliveries), NEW n \in DOMAIN t, NEW st \in States
    PROVE  LET u == [t EXCEPT ![n].st = st]
           IN  /\ u \in Seq(Deliveries)
               /\ Len(u) = Len(t)
               /\ DOMAIN u = DOMAIN t
               /\ DOMAIN t = 1..Len(t) /\ Len(t) \in Nat
               /\ \A m \in DOMAIN t : /\ t[m] \in Deliveries
                                      /\ u[m].ev = t[m].ev
                                      /\ u[m].gen = t[m].gen
                                      /\ u[m].st = IF m = n THEN st ELSE t[m].st
  <1> DEFINE e == [t[n] EXCEPT !.st = st]
             u == [t EXCEPT ![n] = e]
  <1>1. DOMAIN t = 1..Len(t) /\ Len(t) \in Nat /\ \A m \in DOMAIN t : t[m] \in Deliveries
    BY LenProperties
  <1>2. e \in Deliveries /\ e.ev = t[n].ev /\ e.gen = t[n].gen /\ e.st = st
    BY <1>1 DEF Deliveries, States
  <1> HIDE DEF e
  <1>3. /\ u \in Seq(Deliveries) /\ Len(u) = Len(t)
        /\ \A m \in 1..Len(t) : u[m] = IF m = n THEN e ELSE t[m]
    BY <1>1, <1>2, ExceptSeq
  <1>4. DOMAIN u = DOMAIN t
    OBVIOUS
  <1>5. u = [t EXCEPT ![n].st = st]
    BY DEF e
  <1> HIDE DEF u
  <1> QED BY <1>1, <1>2, <1>3, <1>4, <1>5

(* What was written and who is next to write, as one sequence. *)
LEMMA Joined ==
    ASSUME NEW S, NEW w \in Seq(S), NEW o \in Seq(S)
    PROVE  /\ w \o o \in Seq(S) /\ Len(w) \in Nat /\ Len(o) \in Nat
           /\ DOMAIN w = 1..Len(w) /\ DOMAIN (w \o o) = 1..(Len(w) + Len(o))
           /\ DOMAIN w \subseteq DOMAIN (w \o o)
           /\ \A n \in DOMAIN w : (w \o o)[n] = w[n]
           /\ \A n \in 1..(Len(w) + Len(o)) :
                 (w \o o)[n] = IF n <= Len(w) THEN w[n] ELSE o[n - Len(w)]
  <1> DEFINE c == w \o o
  <1>1. Len(w) \in Nat /\ Len(o) \in Nat /\ DOMAIN w = 1..Len(w)
    BY LenProperties
  <1>2. /\ c \in Seq(S) /\ Len(c) = Len(w) + Len(o)
        /\ \A n \in 1..(Len(w) + Len(o)) : c[n] = IF n <= Len(w) THEN w[n] ELSE o[n - Len(w)]
    BY ConcatProperties
  <1> HIDE DEF c
  <1>3. DOMAIN c = 1..(Len(w) + Len(o))
    BY <1>2, LenProperties
  <1>4. \A n \in DOMAIN w : n \in 1..(Len(w) + Len(o)) /\ n <= Len(w)
    BY <1>1
  <1>5. DOMAIN w \subseteq DOMAIN c /\ \A n \in DOMAIN w : c[n] = w[n]
    BY <1>2, <1>3, <1>4
  <1> QED BY <1>1, <1>2, <1>3, <1>5 DEF c

LEMMA JoinedPush ==
    ASSUME NEW S, NEW w \in Seq(S), NEW o \in Seq(S), NEW e \in S
    PROVE  w \o Append(o, e) = Append(w \o o, e)
  <1> DEFINE p == Append(o, e)
             c == w \o o
             a == w \o p
             b == Append(c, e)
  <1>1. /\ p \in Seq(S) /\ Len(p) = Len(o) + 1 /\ Len(o) \in Nat
        /\ \A n \in 1..Len(o) : p[n] = o[n]
        /\ p[Len(o) + 1] = e
    BY Pushed
  <1>2. /\ c \in Seq(S) /\ Len(c) = Len(w) + Len(o) /\ Len(w) \in Nat
        /\ \A n \in 1..(Len(w) + Len(o)) : c[n] = IF n <= Len(w) THEN w[n] ELSE o[n - Len(w)]
    BY ConcatProperties, LenProperties
  <1> HIDE DEF p
  <1>3. /\ a \in Seq(S) /\ Len(a) = Len(w) + Len(p)
        /\ \A n \in 1..(Len(w) + Len(p)) : a[n] = IF n <= Len(w) THEN w[n] ELSE p[n - Len(w)]
    BY <1>1, ConcatProperties
  <1> HIDE DEF c
  <1>4. /\ b \in Seq(S) /\ Len(b) = Len(c) + 1
        /\ \A n \in 1..Len(c) : b[n] = c[n]
        /\ b[Len(c) + 1] = e
    <2>1. c \in Seq(S) BY <1>2
    <2> QED BY <2>1, Pushed
  <1> HIDE DEF a, b
  <1>5. Len(a) = Len(b)
    BY <1>1, <1>2, <1>3, <1>4
  <1>6. ASSUME NEW n \in 1..Len(b) PROVE a[n] = b[n]
    <2>0. n \in Nat /\ n >= 1 /\ n <= Len(w) + Len(o) + 1 /\ n \in 1..(Len(w) + Len(p))
      BY <1>1, <1>2, <1>4
    <2>1. CASE n <= Len(w)
      <3>1. n \in 1..Len(c) /\ n \in 1..(Len(w) + Len(o)) BY <1>1, <1>2, <2>0, <2>1
      <3>2. a[n] = w[n] BY <1>3, <2>0, <2>1
      <3>3. b[n] = c[n] BY <1>4, <3>1
      <3>4. c[n] = w[n] BY <1>2, <2>1, <3>1
      <3> QED BY <3>2, <3>3, <3>4
    <2>2. CASE Len(w) < n /\ n <= Len(w) + Len(o)
      <3>1. n \in 1..Len(c) /\ n \in 1..(Len(w) + Len(o)) /\ ~(n <= Len(w)) /\ n - Len(w) \in 1..Len(o)
        BY <1>1, <1>2, <2>0, <2>2
      <3>2. a[n] = p[n - Len(w)] BY <1>3, <2>0, <3>1
      <3>3. p[n - Len(w)] = o[n - Len(w)] BY <1>1, <3>1
      <3>4. b[n] = c[n] BY <1>4, <3>1
      <3>5. c[n] = o[n - Len(w)] BY <1>2, <3>1
      <3> QED BY <3>2, <3>3, <3>4, <3>5
    <2>3. CASE n = Len(w) + Len(o) + 1
      <3>1. n - Len(w) = Len(o) + 1 /\ ~(n <= Len(w)) /\ n = Len(c) + 1 BY <1>1, <1>2, <2>3
      <3>2. a[n] = p[n - Len(w)] BY <1>3, <2>0, <3>1
      <3>3. a[n] = e BY <1>1, <3>1, <3>2
      <3> QED BY <1>4, <3>1, <3>3
    <2>4. n <= Len(w) \/ (Len(w) < n /\ n <= Len(w) + Len(o)) \/ n = Len(w) + Len(o) + 1
      <3>1. Len(w) \in Nat /\ Len(o) \in Nat BY <1>1, <1>2
      <3> QED BY <2>0, <3>1
    <2> QED BY <2>1, <2>2, <2>3, <2>4
  <1>7. a = b
    BY <1>3, <1>4, <1>5, <1>6, SeqEqual
  <1> QED BY <1>7 DEF a, b, c, p

LEMMA JoinedMove ==
    ASSUME NEW S, NEW w \in Seq(S), NEW o \in Seq(S), o # <<>>
    PROVE  Append(w, Head(o)) \o Tail(o) = w \o o
  <1> DEFINE a == Append(w, Head(o)) \o Tail(o)
             b == w \o o
  <1>1. /\ Head(o) \in S /\ Tail(o) \in Seq(S) /\ Len(o) \in Nat /\ Len(o) > 0
        /\ Len(Tail(o)) = Len(o) - 1 /\ Head(o) = o[1]
        /\ \A n \in 1..(Len(o) - 1) : Tail(o)[n] = o[n + 1]
    BY Popped
  <1>2. /\ Append(w, Head(o)) \in Seq(S) /\ Len(w) \in Nat
        /\ Len(Append(w, Head(o))) = Len(w) + 1
        /\ \A n \in 1..Len(w) : Append(w, Head(o))[n] = w[n]
        /\ Append(w, Head(o))[Len(w) + 1] = Head(o)
    BY <1>1, Pushed
  <1>3. /\ a \in Seq(S)
        /\ DOMAIN a = 1..((Len(w) + 1) + (Len(o) - 1))
        /\ \A n \in 1..((Len(w) + 1) + (Len(o) - 1)) :
              a[n] = IF n <= Len(w) + 1 THEN Append(w, Head(o))[n] ELSE Tail(o)[n - (Len(w) + 1)]
    BY <1>1, <1>2, Joined
  <1>4. /\ b \in Seq(S) /\ DOMAIN b = 1..(Len(w) + Len(o))
        /\ \A n \in 1..(Len(w) + Len(o)) : b[n] = IF n <= Len(w) THEN w[n] ELSE o[n - Len(w)]
    BY Joined
  <1> HIDE DEF a, b
  <1>5. Len(a) = Len(w) + Len(o) /\ Len(b) = Len(w) + Len(o)
    <2>1. Len(a) \in Nat /\ DOMAIN a = 1..Len(a) /\ Len(b) \in Nat /\ DOMAIN b = 1..Len(b)
      BY <1>3, <1>4, LenProperties
    <2> QED BY <1>1, <1>2, <1>3, <1>4, <2>1
  <1>6. ASSUME NEW n \in 1..(Len(w) + Len(o)) PROVE a[n] = b[n]
    <2>1. CASE n <= Len(w)
      BY <1>1, <1>2, <1>3, <1>4, <2>1
    <2>2. CASE n = Len(w) + 1
      <3>1. n - Len(w) = 1 /\ ~(n <= Len(w)) BY <1>2, <2>2
      <3> QED BY <1>1, <1>2, <1>3, <1>4, <2>2, <3>1
    <2>3. CASE n > Len(w) + 1
      <3>1. n - (Len(w) + 1) \in 1..(Len(o) - 1) /\ (n - (Len(w) + 1)) + 1 = n - Len(w)
        BY <1>1, <1>2, <2>3
      <3>2. a[n] = Tail(o)[n - (Len(w) + 1)] BY <1>1, <1>2, <1>3, <2>3
      <3>3. b[n] = o[n - Len(w)] BY <1>2, <1>4, <2>3
      <3> QED BY <1>1, <3>1, <3>2, <3>3
    <2> QED BY <1>1, <1>2, <2>1, <2>2, <2>3
  <1>7. a = b
    BY <1>3, <1>4, <1>5, <1>6, SeqEqual
  <1> QED BY <1>7 DEF a, b

LEMMA CutTyped ==
    ASSUME NEW t \in Seq(Deliveries)
    PROVE  /\ Cut(t) \in Seq(Deliveries) /\ Len(Cut(t)) = Len(t) /\ Len(t) \in Nat
           /\ DOMAIN Cut(t) = DOMAIN t
           /\ \A n \in DOMAIN t :
                 /\ Cut(t)[n].ev = t[n].ev
                 /\ Cut(t)[n].st = IF t[n].st = "out" THEN "failed" ELSE t[n].st
           /\ \A n \in DOMAIN t : \A st \in {"created", "pool"} :
                 Cut(t)[n].st = st <=> t[n].st = st
  <1>1. DOMAIN t = 1..Len(t) /\ Len(t) \in Nat /\ \A n \in DOMAIN t : t[n] \in Deliveries
    BY LenProperties
  <1>2. ASSUME NEW n \in DOMAIN t
        PROVE  /\ Cut(t)[n] \in Deliveries /\ Cut(t)[n].ev = t[n].ev
               /\ Cut(t)[n].st = IF t[n].st = "out" THEN "failed" ELSE t[n].st
    <2>1. t[n] \in Deliveries BY <1>1
    <2>2. [t[n] EXCEPT !.st = "failed"] \in Deliveries
          /\ [t[n] EXCEPT !.st = "failed"].ev = t[n].ev
          /\ [t[n] EXCEPT !.st = "failed"].st = "failed"
      BY <2>1 DEF Deliveries
    <2> QED BY <2>1, <2>2 DEF Cut
  <1>3. DOMAIN Cut(t) = 1..Len(t) /\ Cut(t) = [n \in 1..Len(t) |-> Cut(t)[n]]
    BY <1>1 DEF Cut
  <1>4. Cut(t) \in [1..Len(t) -> Deliveries]
    BY <1>1, <1>2, <1>3
  <1>5. Cut(t) \in Seq(Deliveries) /\ Len(Cut(t)) = Len(t)
    BY <1>1, <1>4, Listed
  <1> QED BY <1>1, <1>2, <1>3, <1>5

(* The elements of a pipeline have numbers, and its indices are numbers.   *)
LEMMA Elements ==
    ASSUME NEW v \in Seq(Messages), NEW t \in Seq(Deliveries),
           NEW q \in Seq(Nat), NEW f \in Seq(Nat)
    PROVE  /\ \A n \in DOMAIN v : n \in Nat /\ v[n].ev \in Nat
           /\ \A n \in DOMAIN t : n \in Nat /\ t[n].ev \in Nat
           /\ \A n \in DOMAIN q : n \in Nat /\ q[n] \in Nat
           /\ \A n \in DOMAIN f : n \in Nat /\ f[n] \in Nat
  <1>1. \A n \in DOMAIN v : n \in Nat /\ v[n] \in Messages BY LenProperties
  <1>2. \A n \in DOMAIN t : n \in Nat /\ t[n] \in Deliveries BY LenProperties
  <1>3. \A n \in DOMAIN q : n \in Nat /\ q[n] \in Nat BY LenProperties
  <1>4. \A n \in DOMAIN f : n \in Nat /\ f[n] \in Nat BY LenProperties
  <1> QED BY <1>1, <1>2, <1>3, <1>4 DEF Messages, Deliveries

-----------------------------------------------------------------------------
(* One line in tree-change order, from the values before a step to those   *)
(* after it.                                                               *)
LEMMA LineTreeChange ==
    ASSUME NEW v \in Seq(Messages), NEW t \in Seq(Deliveries), NEW h \in Nat,
           NEW q \in Seq(Nat), NEW f \in Seq(Nat), NEW last \in Nat, NEW k \in Nat,
           Line(v, t, h, q, f, last)
    PROVE  Line(v, t, h, q, f \o [n \in 1..k |-> last + n], last + k)
  <1> DEFINE g == f \o [n \in 1..k |-> last + n]
  <1>1. /\ DOMAIN f = 1..Len(f) /\ DOMAIN g = 1..(Len(f) + k) /\ Len(f) \in Nat
        /\ \A n \in 1..Len(f) : g[n] = f[n] /\ f[n] \in Nat
        /\ \A n \in 1..k : g[Len(f) + n] = last + n
    <2> DEFINE new == [n \in 1..k |-> last + n]
    <2>1. new \in Seq(Nat) /\ Len(new) = k /\ \A n \in 1..k : new[n] = last + n
      <3>1. new \in [1..k -> Nat] OBVIOUS
      <3>2. \A n \in 1..k : new[n] = last + n OBVIOUS
      <3> HIDE DEF new
      <3> QED BY <3>1, <3>2, Listed
    <2> HIDE DEF new
    <2>2. /\ f \o new \in Seq(Nat) /\ Len(f \o new) = Len(f) + Len(new)
          /\ \A n \in 1..(Len(f) + Len(new)) :
                (f \o new)[n] = IF n <= Len(f) THEN f[n] ELSE new[n - Len(f)]
      BY <2>1, ConcatProperties
    <2>3. DOMAIN (f \o new) = 1..(Len(f) + k) /\ DOMAIN f = 1..Len(f) /\ Len(f) \in Nat
          /\ \A n \in 1..Len(f) : f[n] \in Nat
      BY <2>1, <2>2, LenProperties
    <2>4. ASSUME NEW n \in 1..k PROVE (f \o new)[Len(f) + n] = last + n
      <3>1. Len(f) + n \in 1..(Len(f) + k) /\ ~(Len(f) + n <= Len(f)) /\ (Len(f) + n) - Len(f) = n
        BY <2>3
      <3> QED BY <2>1, <2>2, <3>1
    <2>5. g = f \o new
      BY DEF new
    <2> HIDE DEF g
    <2> QED BY <2>1, <2>2, <2>3, <2>4, <2>5
  <1>2. /\ \A n \in DOMAIN v : v[n].ev \in Nat
        /\ \A n \in DOMAIN t : t[n].ev \in Nat
        /\ \A n \in DOMAIN q : q[n] \in Nat
    BY Elements
  <1> HIDE DEF g
  <1>3. ASSUME NEW n \in DOMAIN g
        PROVE  \/ n \in DOMAIN f /\ g[n] = f[n]
               \/ n > Len(f) /\ g[n] = last + (n - Len(f)) /\ n - Len(f) \in 1..k
    <2>1. n \in 1..(Len(f) + k) BY <1>1
    <2>2. CASE n > Len(f)
      <3>1. n - Len(f) \in 1..k /\ Len(f) + (n - Len(f)) = n BY <1>1, <2>1, <2>2
      <3> QED BY <1>1, <2>2, <3>1
    <2> QED BY <1>1, <2>1, <2>2
  <1>4. ASSUME NEW n \in DOMAIN g
        PROVE  \/ n \in DOMAIN f /\ g[n] = f[n]
               \/ n \notin DOMAIN f /\ g[n] \in Nat /\ g[n] > last /\ g[n] <= last + k
    BY <1>1, <1>3
  <1>5. InTurn(v, t, q, g)
    <2>1. \A m, n \in DOMAIN g : m < n => g[m] < g[n]
      <3>1. \A n \in DOMAIN f : f[n] <= last BY DEF Line, UpTo
      <3> SUFFICES ASSUME NEW m \in DOMAIN g, NEW n \in DOMAIN g, m < n PROVE g[m] < g[n]
        OBVIOUS
      <3>2. CASE n \in DOMAIN f
        <4>1. m \in DOMAIN f /\ g[m] = f[m] /\ g[n] = f[n] BY <1>1, <3>2
        <4> QED BY <4>1, <3>2 DEF Line, InTurn
      <3>3. CASE n \notin DOMAIN f /\ m \in DOMAIN f
        BY <1>1, <1>4, <3>1, <3>3
      <3>4. CASE m \notin DOMAIN f
        <4>1. m > Len(f) /\ g[m] = last + (m - Len(f)) BY <1>3, <3>4
        <4>2. n > Len(f) /\ g[n] = last + (n - Len(f)) BY <1>1, <1>3, <4>1
        <4> QED BY <1>1, <4>1, <4>2
      <3> QED BY <3>2, <3>3, <3>4
    <2> QED BY <2>1 DEF Line, InTurn
  <1>6. InLine(v, t, h, q, g)
    <2>1. /\ \A n \in DOMAIN v : v[n].ev <= last
          /\ \A n \in DOMAIN t : t[n].ev <= last
          /\ h <= last
          /\ \A n \in DOMAIN q : q[n] <= last
      BY DEF Line, UpTo
    <2>2. /\ \A m \in DOMAIN v, n \in DOMAIN g : v[m].ev < g[n]
          /\ \A m \in DOMAIN t, n \in DOMAIN g : t[m].ev < g[n]
          /\ \A n \in DOMAIN g : h < g[n]
          /\ \A m \in DOMAIN q, n \in DOMAIN g : q[m] < g[n]
      <3>1. ASSUME NEW x \in Nat, x <= last, NEW n \in DOMAIN g, n \in DOMAIN f => x < f[n]
            PROVE  x < g[n]
        BY <1>4, <3>1
      <3>2. /\ \A m \in DOMAIN v, n \in DOMAIN f : v[m].ev < f[n]
            /\ \A m \in DOMAIN t, n \in DOMAIN f : t[m].ev < f[n]
            /\ \A n \in DOMAIN f : h < f[n]
            /\ \A m \in DOMAIN q, n \in DOMAIN f : q[m] < f[n]
        BY DEF Line, InLine
      <3> QED BY <1>2, <2>1, <3>1, <3>2
    <2> QED BY <2>2 DEF Line, InLine
  <1>7. UpTo(v, t, h, q, g, last + k)
    <2>1. \A n \in DOMAIN f : f[n] \in Nat /\ f[n] <= last BY Elements DEF Line, UpTo
    <2>2. ASSUME NEW n \in DOMAIN g PROVE g[n] <= last + k
      BY <1>4, <2>1
    <2>3. /\ \A n \in DOMAIN v : v[n].ev <= last
          /\ \A n \in DOMAIN t : t[n].ev <= last
          /\ h <= last
          /\ \A n \in DOMAIN q : q[n] <= last
      BY DEF Line, UpTo
    <2> QED BY <1>2, <2>2, <2>3 DEF UpTo
  <1> QED BY <1>5, <1>6, <1>7 DEF Line, g

LEMMA LineFanOut ==
    ASSUME NEW v \in Seq(Messages), NEW t \in Seq(Deliveries), NEW h \in Nat,
           NEW q \in Seq(Nat), NEW f \in Seq(Nat), NEW last \in Nat, f # <<>>,
           Line(v, t, h, q, f, last)
    PROVE  /\ Line(v, t, h, q, Tail(f), last)
           /\ Line(v, t, h, Append(q, Head(f)), Tail(f), last)
  <1> DEFINE g == Tail(f)
             r == Append(q, Head(f))
  <1>1. /\ Len(f) \in Nat /\ Len(f) > 0 /\ DOMAIN f = 1..Len(f) /\ DOMAIN g = 1..(Len(f) - 1)
        /\ Head(f) = f[1] /\ Head(f) \in Nat
        /\ \A n \in 1..(Len(f) - 1) : g[n] = f[n + 1]
    BY Popped
  <1>2. /\ Len(q) \in Nat /\ DOMAIN q = 1..Len(q) /\ DOMAIN r = 1..(Len(q) + 1)
        /\ \A n \in 1..Len(q) : r[n] = q[n]
        /\ r[Len(q) + 1] = f[1]
    BY <1>1, Pushed
  <1> HIDE DEF g, r
  <1>3. ASSUME NEW n \in DOMAIN g
        PROVE  n + 1 \in DOMAIN f /\ g[n] = f[n + 1] /\ 1 < n + 1 /\ n \in Nat
    <2>1. n \in 1..(Len(f) - 1) /\ Len(f) \in Nat BY <1>1
    <2>2. n + 1 \in 1..Len(f) /\ 1 < n + 1 /\ n \in Nat BY <2>1
    <2> QED BY <1>1, <2>1, <2>2
  <1>4. ASSUME NEW n \in DOMAIN r
        PROVE  (n \in DOMAIN q /\ r[n] = q[n]) \/ (n = Len(q) + 1 /\ r[n] = f[1])
    <2>1. n \in 1..(Len(q) + 1) BY <1>2
    <2>2. CASE n = Len(q) + 1 BY <1>2, <2>2
    <2>3. CASE n # Len(q) + 1
      <3>1. n \in 1..Len(q) BY <1>2, <2>1, <2>3
      <3> QED BY <1>2, <3>1
    <2> QED BY <2>2, <2>3
  <1>5. 1 \in DOMAIN f BY <1>1
  <1>6. InTurn(v, t, q, g) /\ InTurn(v, t, r, g)
    <2>1. \A m, n \in DOMAIN g : m < n => g[m] < g[n]
      BY <1>3 DEF Line, InTurn
    <2>2. \A m, n \in DOMAIN r : m < n => r[m] < r[n]
      <3>1. \A n \in DOMAIN q : q[n] < f[1] BY <1>5 DEF Line, InLine
      <3>2. \A m, n \in DOMAIN q : m < n => q[m] < q[n] BY DEF Line, InTurn
      <3> SUFFICES ASSUME NEW m \in DOMAIN r, NEW n \in DOMAIN r, m < n PROVE r[m] < r[n]
        OBVIOUS
      <3>3. m \in DOMAIN q /\ r[m] = q[m] BY <1>2
      <3>4. CASE n \in DOMAIN q /\ r[n] = q[n] BY <3>2, <3>3, <3>4
      <3>5. CASE r[n] = f[1] BY <3>1, <3>3, <3>5
      <3> QED BY <1>4, <3>4, <3>5
    <2> QED BY <2>1, <2>2 DEF Line, InTurn
  <1>7. InLine(v, t, h, q, g) /\ InLine(v, t, h, r, g)
    <2>1. \A n \in DOMAIN g : f[1] < g[n]
      BY <1>3, <1>5 DEF Line, InTurn
    <2>2. InLine(v, t, h, q, g)
      BY <1>3 DEF Line, InLine
    <2>3. InLine(v, t, h, r, g)
      BY <1>3, <1>4, <1>5, <2>1, <2>2 DEF Line, InLine
    <2> QED BY <2>2, <2>3
  <1>8. UpTo(v, t, h, q, g, last) /\ UpTo(v, t, h, r, g, last)
    BY <1>3, <1>4, <1>5 DEF Line, UpTo
  <1> QED BY <1>6, <1>7, <1>8 DEF Line, g, r

(* The head of the queue goes: to a new task, to the worker, or away.      *)
LEMMA LineTake ==
    ASSUME NEW v \in Seq(Messages), NEW t \in Seq(Deliveries), NEW h \in Nat,
           NEW q \in Seq(Nat), NEW f \in Seq(Nat), NEW last \in Nat, q # <<>>,
           Line(v, t, h, q, f, last)
    PROVE  /\ Line(v, t, h, Tail(q), f, last)
           /\ h = 0 => Line(v, t, Head(q), Tail(q), f, last) /\ Head(q) # 0
  <1> DEFINE r == Tail(q)
  <1>1. /\ Len(q) \in Nat /\ Len(q) > 0 /\ DOMAIN q = 1..Len(q) /\ DOMAIN r = 1..(Len(q) - 1)
        /\ Head(q) = q[1] /\ Head(q) \in Nat
        /\ \A n \in 1..(Len(q) - 1) : r[n] = q[n + 1]
    BY Popped
  <1> HIDE DEF r
  <1>2. ASSUME NEW n \in DOMAIN r
        PROVE  n + 1 \in DOMAIN q /\ r[n] = q[n + 1] /\ 1 < n + 1 /\ n \in Nat
    <2>1. n \in 1..(Len(q) - 1) /\ Len(q) \in Nat BY <1>1
    <2>2. n + 1 \in 1..Len(q) /\ 1 < n + 1 /\ n \in Nat BY <2>1
    <2> QED BY <1>1, <2>1, <2>2
  <1>3. 1 \in DOMAIN q BY <1>1
  <1>4. InTurn(v, t, r, f)
    BY <1>2 DEF Line, InTurn
  <1>5. InLine(v, t, h, r, f) /\ UpTo(v, t, h, r, f, last)
    BY <1>2, <1>3 DEF Line, InLine, UpTo
  <1>6. ASSUME h = 0
        PROVE  InLine(v, t, q[1], r, f) /\ UpTo(v, t, q[1], r, f, last) /\ q[1] # 0
    <2>1. \A n \in DOMAIN r : q[1] < r[n]
      BY <1>2, <1>3 DEF Line, InTurn
    <2>2. q[1] # 0 /\ q[1] <= last
      <3>1. \A n \in DOMAIN q : h < q[n] /\ q[n] <= last BY DEF Line, InLine, UpTo
      <3>2. h < q[1] /\ q[1] <= last BY <1>3, <3>1
      <3>3. q[1] \in Nat BY <1>1
      <3> QED BY <1>6, <3>2, <3>3
    <2>3. InLine(v, t, q[1], r, f)
      BY <1>2, <1>3, <2>1 DEF Line, InLine
    <2>4. UpTo(v, t, q[1], r, f, last)
      BY <1>2, <2>2 DEF Line, UpTo
    <2> QED BY <2>2, <2>3, <2>4
  <1> QED BY <1>1, <1>4, <1>5, <1>6 DEF Line, r

LEMMA LineSpawn ==
    ASSUME NEW v \in Seq(Messages), NEW t \in Seq(Deliveries), NEW h \in Nat \ {0},
           NEW q \in Seq(Nat), NEW f \in Seq(Nat), NEW last \in Nat,
           NEW d \in Deliveries, d.ev = h, d.st = "created",
           Line(v, t, h, q, f, last)
    PROVE  Line(v, Append(t, d), 0, q, f, last)
  <1> DEFINE u == Append(t, d)
  <1>1. /\ Len(t) \in Nat /\ DOMAIN t = 1..Len(t) /\ DOMAIN u = 1..(Len(t) + 1)
        /\ \A n \in 1..Len(t) : u[n] = t[n]
        /\ u[Len(t) + 1] = d
    BY Pushed
  <1> HIDE DEF u
  <1>2. \A n \in DOMAIN u : (n \in DOMAIN t /\ u[n] = t[n]) \/ (n = Len(t) + 1 /\ u[n] = d)
    BY <1>1
  <1>3. /\ \A n \in DOMAIN q : q[n] \in Nat
        /\ \A n \in DOMAIN f : f[n] \in Nat
    BY LenProperties
  <1>4. InTurn(v, u, q, f)
    BY <1>1, <1>2 DEF Line, InTurn, InLine
  <1>5. InLine(v, u, 0, q, f)
    <2>1. \A n \in DOMAIN q : h < q[n] /\ 0 < q[n]
      BY <1>3 DEF Line, InLine
    <2>2. \A n \in DOMAIN f : h < f[n] /\ 0 < f[n]
      BY <1>3 DEF Line, InLine
    <2>3. \A m \in DOMAIN v : v[m].ev < h
      BY DEF Line, InLine
    <2> QED BY <1>2, <2>1, <2>2, <2>3 DEF Line, InLine
  <1>6. UpTo(v, u, 0, q, f, last)
    BY <1>2 DEF Line, UpTo
  <1> QED BY <1>4, <1>5, <1>6 DEF Line, u

LEMMA LineClear ==
    ASSUME NEW v, NEW t, NEW h \in Nat, NEW q \in Seq(Nat), NEW f \in Seq(Nat), NEW last \in Nat,
           Line(v, t, h, q, f, last)
    PROVE  /\ Line(v, t, 0, <<>>, f, last)
           /\ Line(v, <<>>, h, <<>>, f, last)
  <1>1. DOMAIN <<>> = {}
    OBVIOUS
  <1>2. \A n \in DOMAIN f : f[n] \in Nat
    BY LenProperties
  <1>3. /\ InTurn(v, t, <<>>, f) /\ InLine(v, t, 0, <<>>, f) /\ UpTo(v, t, 0, <<>>, f, last)
    BY <1>1, <1>2 DEF Line, InTurn, InLine, UpTo
  <1>4. /\ InTurn(v, <<>>, <<>>, f) /\ InLine(v, <<>>, h, <<>>, f) /\ UpTo(v, <<>>, h, <<>>, f, last)
    BY <1>1, <1>2 DEF Line, InTurn, InLine, UpTo
  <1> QED BY <1>3, <1>4 DEF Line

(* Who still waits to write gives up: what was written is left. *)
LEMMA LineShort ==
    ASSUME NEW w \in Seq(Messages), NEW o \in Seq(Messages), NEW t, NEW h, NEW q, NEW f, NEW last,
           Line(w \o o, t, h, q, f, last)
    PROVE  Line(w \o <<>>, t, h, q, f, last)
  <1>1. w \o <<>> = w
    BY ConcatEmptySeq
  <1>2. DOMAIN w \subseteq DOMAIN (w \o o) /\ \A n \in DOMAIN w : (w \o o)[n] = w[n]
    BY Joined
  <1> DEFINE v == w \o o
  <1> HIDE DEF v
  <1>3. DOMAIN w \subseteq DOMAIN v /\ \A n \in DOMAIN w : v[n] = w[n]
    BY <1>2 DEF v
  <1>4. Line(v, t, h, q, f, last)
    BY DEF v
  <1>5. Line(w, t, h, q, f, last)
    BY <1>3, <1>4 DEF Line, InTurn, InLine, UpTo
  <1> QED BY <1>1, <1>5

(* The tasks that waited to write have failed. *)
LEMMA LineCut ==
    ASSUME NEW v, NEW t \in Seq(Deliveries), NEW h, NEW q, NEW f, NEW last,
           Line(v, t, h, q, f, last)
    PROVE  Line(v, Cut(t), h, q, f, last)
  <1> DEFINE u == Cut(t)
  <1>1. /\ DOMAIN u = DOMAIN t
        /\ \A m \in DOMAIN t : u[m].ev = t[m].ev
        /\ \A m \in DOMAIN t : \A st \in {"created", "pool"} : u[m].st = st <=> t[m].st = st
    BY CutTyped
  <1> HIDE DEF u
  <1>2. InTurn(v, u, q, f)
    BY <1>1 DEF Line, InTurn
  <1>3. InLine(v, u, h, q, f)
    BY <1>1 DEF Line, InLine
  <1>4. UpTo(v, u, h, q, f, last)
    BY <1>1 DEF Line, UpTo
  <1> QED BY <1>2, <1>3, <1>4 DEF Line, u

(* The tasks that have not started are the last ones, whichever goes on.   *)
LEMMA CreatedLast ==
    ASSUME NEW v, NEW t \in Seq(Deliveries), NEW q, NEW f, InTurn(v, t, q, f),
           NEW n \in DOMAIN t,
           t[n].st = "created" => \A m \in 1..(n - 1) : t[m].st # "created",
           NEW m \in DOMAIN t, NEW k \in DOMAIN t, m < k, m # n, t[m].st = "created"
    PROVE  t[k].st = "created" /\ k # n
  <1>0. DOMAIN t = 1..Len(t) /\ Len(t) \in Nat
    BY LenProperties
  <1>1. t[k].st = "created"
    BY DEF InTurn
  <1>2. k # n
    <2> SUFFICES ASSUME k = n PROVE FALSE
      OBVIOUS
    <2>1. m \in 1..(n - 1) BY <1>0
    <2> QED BY <1>1, <2>1
  <1> QED BY <1>1, <1>2

(* A task goes on: it waits for the pool in its turn, is sent, or fails.   *)
LEMMA LineChange ==
    ASSUME NEW v \in Seq(Messages), NEW t \in Seq(Deliveries), NEW h \in Nat,
           NEW q \in Seq(Nat), NEW f \in Seq(Nat), NEW last \in Nat,
           NEW n \in DOMAIN t, NEW st \in States,
           Line(v, t, h, q, f, last),
           \/ /\ t[n].st = "created" /\ st = "pool"
              /\ \A m \in 1..(n - 1) : t[m].st # "created"
           \/ t[n].st = "pool" /\ st = "failed"
           \/ t[n].st = "out" /\ st = "sent"
    PROVE  Line(v, [t EXCEPT ![n].st = st], h, q, f, last)
  <1> DEFINE u == [t EXCEPT ![n].st = st]
  <1>1. /\ DOMAIN u = DOMAIN t /\ DOMAIN t = 1..Len(t) /\ Len(t) \in Nat
        /\ \A m \in DOMAIN t : u[m].ev = t[m].ev /\ u[m].st = IF m = n THEN st ELSE t[m].st
    BY Changed
  <1> HIDE DEF u
  <1>2. InTurn(v, u, q, f)
    <2>1. \A m, k \in DOMAIN u : m < k => u[m].ev < u[k].ev
      BY <1>1 DEF Line, InTurn
    <2>2. \A m, k \in DOMAIN u : m < k /\ u[m].st = "created" => u[k].st = "created"
      <3> SUFFICES ASSUME NEW m \in DOMAIN t, NEW k \in DOMAIN t, m < k, u[m].st = "created"
                   PROVE  u[k].st = "created"
        BY <1>1
      <3>1. InTurn(v, t, q, f) BY DEF Line
      <3>2. t[m].st = "created" /\ m # n BY <1>1
      <3>3. t[k].st = "created" /\ k # n BY <3>1, <3>2, CreatedLast
      <3> QED BY <1>1, <3>3
    <2> QED BY <2>1, <2>2 DEF Line, InTurn
  <1>3. InLine(v, u, h, q, f)
    <2>1. \A k \in DOMAIN u : u[k].st = "created" => t[k].st = "created"
      BY <1>1
    <2>2. \A k \in DOMAIN u : u[k].st = "pool" => t[k].st \in {"created", "pool"}
      BY <1>1
    <2> QED BY <1>1, <2>1, <2>2 DEF Line, InLine
  <1>4. UpTo(v, u, h, q, f, last)
    BY <1>1 DEF Line, UpTo
  <1> QED BY <1>2, <1>3, <1>4 DEF Line, u

LEMMA LineEnd ==
    ASSUME NEW v \in Seq(Messages), NEW t \in Seq(Deliveries), NEW h \in Nat,
           NEW q \in Seq(Nat), NEW f \in Seq(Nat), NEW last \in Nat,
           NEW n \in DOMAIN t,
           Line(v, t, h, q, f, last)
    PROVE  Line(v, Without(t, n), h, q, f, last)
  <1> DEFINE u == Without(t, n)
             At(m) == IF m < n THEN m ELSE m + 1
  <1>1. /\ Len(t) \in Nat /\ DOMAIN t = 1..Len(t) /\ n \in 1..Len(t)
        /\ DOMAIN u = 1..(Len(t) - 1)
        /\ \A m \in 1..(Len(t) - 1) : u[m] = IF m < n THEN t[m] ELSE t[m + 1]
    BY Removed
  <1> HIDE DEF u
  <1>2. ASSUME NEW m \in DOMAIN u PROVE At(m) \in DOMAIN t /\ u[m] = t[At(m)]
    <2>1. m \in 1..(Len(t) - 1) BY <1>1
    <2>2. CASE m < n BY <1>1, <2>1, <2>2
    <2>3. CASE ~(m < n) BY <1>1, <2>1, <2>3
    <2> QED BY <2>2, <2>3
  <1>3. ASSUME NEW m \in DOMAIN u, NEW k \in DOMAIN u, m < k PROVE At(m) < At(k)
    <2>1. m \in Nat /\ k \in Nat /\ n \in Nat BY <1>1
    <2> QED BY <1>3, <2>1
  <1> HIDE DEF At
  <1>4. InTurn(v, u, q, f)
    BY <1>2, <1>3 DEF Line, InTurn
  <1>5. InLine(v, u, h, q, f)
    BY <1>2 DEF Line, InLine
  <1>6. UpTo(v, u, h, q, f, last)
    BY <1>2 DEF Line, UpTo
  <1> QED BY <1>4, <1>5, <1>6 DEF Line, u

(* A task goes to the write lock: the first that starts, at once, or the   *)
(* first that waited for the pool's lock.                                  *)
LEMMA LineToWrite ==
    ASSUME NEW v \in Seq(Messages), NEW t \in Seq(Deliveries), NEW h \in Nat,
           NEW q \in Seq(Nat), NEW f \in Seq(Nat), NEW last \in Nat,
           NEW n \in DOMAIN t, NEW msg \in Messages, msg.ev = t[n].ev,
           \/ ~msg.waited /\ t[n].st = "created" /\ \A m \in 1..(n - 1) : t[m].st # "created"
           \/ msg.waited /\ t[n].st = "pool" /\ \A m \in 1..(n - 1) : t[m].st # "pool",
           Line(v, t, h, q, f, last)
    PROVE  Line(Append(v, msg), [t EXCEPT ![n].st = "out"], h, q, f, last)
  <1> DEFINE u == [t EXCEPT ![n].st = "out"]
             x == Append(v, msg)
  <1>1. /\ DOMAIN u = DOMAIN t /\ DOMAIN t = 1..Len(t) /\ Len(t) \in Nat
        /\ \A m \in DOMAIN t : /\ u[m].ev = t[m].ev /\ t[m].ev \in Nat
                               /\ u[m].st = IF m = n THEN "out" ELSE t[m].st
    BY Changed, Elements DEF States
  <1>2. /\ Len(v) \in Nat /\ DOMAIN v = 1..Len(v) /\ DOMAIN x = 1..(Len(v) + 1)
        /\ \A m \in 1..Len(v) : x[m] = v[m]
        /\ x[Len(v) + 1] = msg
    BY Pushed
  <1> HIDE DEF u, x
  <1>3. \A m \in DOMAIN x : (m \in DOMAIN v /\ x[m] = v[m]) \/ (m = Len(v) + 1 /\ x[m] = msg)
    BY <1>2
  <1>4. \A m \in DOMAIN v : Before(v[m], msg)
    BY DEF Line, InLine, Before
  <1>5. \A m, k \in DOMAIN t : m < k => t[m].ev < t[k].ev
    BY DEF Line, InTurn
  <1>6. ASSUME NEW k \in DOMAIN u, u[k].st = "created" PROVE msg.ev < u[k].ev
    <2>1. k # n /\ t[k].st = "created" BY <1>1, <1>6
    <2>2. ~(k < n)
      <3> SUFFICES ASSUME k < n PROVE FALSE
        OBVIOUS
      <3>0. k \in DOMAIN t /\ InTurn(v, t, q, f) BY <1>1 DEF Line
      <3>1. t[n].st = "created" BY <2>1, <3>0 DEF InTurn
      <3>2. k \in 1..(n - 1) BY <1>1
      <3>3. \A m \in 1..(n - 1) : t[m].st # "created" BY <3>1
      <3> QED BY <2>1, <3>2, <3>3
    <2>3. n < k BY <1>1, <2>1, <2>2
    <2> QED BY <1>1, <1>5, <2>3
  <1>7. ASSUME NEW k \in DOMAIN u, u[k].st = "pool"
        PROVE  msg.ev < u[k].ev \/ (~msg.waited /\ msg.ev # u[k].ev)
    <2>1. k # n /\ t[k].st = "pool" BY <1>1, <1>7
    <2>2. msg.ev # u[k].ev
      <3>1. n < k \/ k < n BY <1>1, <2>1
      <3>2. t[n].ev < t[k].ev \/ t[k].ev < t[n].ev BY <1>1, <1>5, <3>1
      <3>3. t[n].ev \in Nat /\ t[k].ev \in Nat /\ u[k].ev = t[k].ev BY <1>1
      <3> QED BY <3>2, <3>3
    <2>3. CASE msg.waited
      <3>1. ~(k < n)
        <4> SUFFICES ASSUME k < n PROVE FALSE
          OBVIOUS
        <4>1. k \in 1..(n - 1) BY <1>1
        <4> QED BY <2>1, <2>3, <4>1
      <3>2. n < k BY <1>1, <2>1, <3>1
      <3> QED BY <1>1, <1>5, <3>2
    <2> QED BY <2>2, <2>3
  <1>8. InTurn(x, u, q, f)
    <2>1. \A m, k \in DOMAIN x : m < k => Before(x[m], x[k])
      <3> SUFFICES ASSUME NEW m \in DOMAIN x, NEW k \in DOMAIN x, m < k PROVE Before(x[m], x[k])
        OBVIOUS
      <3>1. m \in DOMAIN v /\ x[m] = v[m] BY <1>2
      <3>2. CASE k \in DOMAIN v
        <4>1. x[k] = v[k] BY <1>2, <3>2
        <4> QED BY <3>1, <3>2, <4>1 DEF Line, InTurn
      <3>3. CASE x[k] = msg
        BY <1>4, <3>1, <3>3
      <3> QED BY <1>3, <3>2, <3>3
    <2>2. \A m, k \in DOMAIN u : m < k => u[m].ev < u[k].ev
      BY <1>1, <1>5
    <2>3. \A m, k \in DOMAIN u : m < k /\ u[m].st = "created" => u[k].st = "created"
      <3> SUFFICES ASSUME NEW m \in DOMAIN t, NEW k \in DOMAIN t, m < k, u[m].st = "created"
                   PROVE  u[k].st = "created"
        BY <1>1
      <3>1. InTurn(v, t, q, f) BY DEF Line
      <3>2. t[m].st = "created" /\ m # n BY <1>1
      <3>3. t[k].st = "created" /\ k # n BY <3>1, <3>2, CreatedLast
      <3> QED BY <1>1, <3>3
    <2> QED BY <2>1, <2>2, <2>3 DEF Line, InTurn
  <1>9. InLine(x, u, h, q, f)
    <2>1. /\ \A k \in DOMAIN q : msg.ev < q[k]
          /\ \A k \in DOMAIN f : msg.ev < f[k]
          /\ h # 0 => msg.ev < h
      BY DEF Line, InLine
    <2>2. \A k \in DOMAIN u : u[k].st \in {"created", "pool"} => u[k].st = t[k].st
      BY <1>1
    <2>3. InLine(v, u, h, q, f)
      BY <1>1, <2>2 DEF Line, InLine
    <2> QED BY <1>3, <1>6, <1>7, <2>1, <2>3 DEF InLine
  <1>10. UpTo(x, u, h, q, f, last)
    BY <1>1, <1>3 DEF Line, UpTo
  <1> QED BY <1>8, <1>9, <1>10 DEF Line, u, x

-----------------------------------------------------------------------------
(* The states of the specification. *)
LEMMA TypeInit ==
    ASSUME SubscriptionAssumption, SubscriptionInit
    PROVE  SubscriptionTypeOK
  <1>1. SubsTyped
    BY DEF SubscriptionAssumption, SubscriptionInit, SubsTyped, Ids
  <1>2. \A S : <<>> \in Seq(S) /\ Len(<<>>) = 0
    BY EmptySeq
  <1>3. PipelineTyped
    BY <1>2 DEF SubscriptionAssumption, SubscriptionInit, PipelineTyped
  <1> QED BY <1>1, <1>3 DEF SubscriptionTypeOK

LEMMA EntryTyped ==
    ASSUME SubscriptionAssumption, NEW k \in Keys, NEW max \in Limits
    PROVE  NewEntry(k, max) \in Entries
  <1>1. Merge(max, NoLimit) = max
    BY DEF Merge
  <1> QED BY <1>1 DEF SubscriptionAssumption, NewEntry, Entries

(* A live entry may change its counters. *)
LEMMA EntryChange ==
    ASSUME NEW e \in Entries
    PROVE  /\ [e EXCEPT !.late = TRUE] \in Entries
           /\ [e EXCEPT !.recent = 0] \in Entries
           /\ [e EXCEPT !.count = @ + 1, !.recent = @ + 1] \in Entries
  <1>1. [e EXCEPT !.late = TRUE] \in Entries BY DEF Entries
  <1>2. [e EXCEPT !.recent = 0] \in Entries BY DEF Entries
  <1>3. [e EXCEPT !.count = @ + 1, !.recent = @ + 1] \in Entries
    <2> DEFINE f == [e EXCEPT !.count = @ + 1]
    <2>1. f \in Entries BY DEF Entries
    <2>2. [e EXCEPT !.count = @ + 1, !.recent = @ + 1] = [f EXCEPT !.recent = f.recent + 1]
      BY DEF Entries
    <2> HIDE DEF f
    <2>3. [f EXCEPT !.recent = f.recent + 1] \in Entries BY <2>1 DEF Entries
    <2> QED BY <2>2, <2>3
  <1> QED BY <1>1, <1>2, <1>3

(* entry' for an action that changes one live entry. *)
LEMMA SubsStep ==
    ASSUME SubscriptionAssumption, SubscriptionTypeOK, [SubscriptionNext]_subscriptionVars
    PROVE  SubsTyped'
  <1> USE DEF SubscriptionTypeOK
  <1>1. ASSUME NEW k \in Keys, NEW max \in Limits, Subscribe(k, max)
        PROVE  SubsTyped'
    <2>1. NewEntry(k, max) \in Entries BY EntryTyped
    <2>2. CASE Existing(k) # {}
      <3>1. PICK i \in Existing(k) : /\ entry' = [entry EXCEPT ![i] = NewEntry(k, max)]
                                     /\ gen' = [gen EXCEPT ![i] = @ + 1]
                                     /\ token' = [token EXCEPT ![i] = TRUE]
                                     /\ nextId' = nextId
        BY <1>1, <2>2 DEF Subscribe
      <3>2. i \in Ids BY DEF Existing, Live
      <3>3. entry' \in [Ids -> Entries \cup {Nothing}] BY <2>1, <3>1, <3>2 DEF SubsTyped
      <3> QED BY <3>1, <3>2, <3>3 DEF SubsTyped
    <2>3. CASE Existing(k) = {}
      BY <1>1, <2>1, <2>3 DEF Subscribe, SubsTyped, Ids, SubscriptionAssumption
    <2> QED BY <2>2, <2>3
  <1>2. ASSUME NEW i \in Ids, NEW e \in Entries \cup {Nothing},
               entry' = [entry EXCEPT ![i] = e], UNCHANGED <<gen, nextId>>,
               token' \in [Ids -> BOOLEAN]
        PROVE  SubsTyped'
    BY <1>2 DEF SubsTyped
  <1>3. ASSUME NEW i \in Ids, Unsubscribe(i) \/ WorkerTerminates(i) PROVE SubsTyped'
    BY <1>3, <1>2 DEF Unsubscribe, WorkerTerminates, SubsTyped
  <1>4. ASSUME NEW i \in Live PROVE i \in Ids /\ entry[i] \in Entries
    BY <1>4 DEF Live, SubsTyped
  <1>5. ASSUME NEW i \in Ids, DurationElapses(i) PROVE SubsTyped'
    <2>1. entry[i] \in Entries BY <1>4, <1>5 DEF DurationElapses
    <2>2. [entry[i] EXCEPT !.late = TRUE] \in Entries BY <2>1, EntryChange
    <2>3. entry' = [entry EXCEPT ![i] = [entry[i] EXCEPT !.late = TRUE]]
      BY <1>5 DEF DurationElapses
    <2> QED BY <1>2, <1>5, <2>2, <2>3 DEF DurationElapses, SubsTyped
  <1>6. ASSUME NEW i \in Ids, MinutePasses(i) PROVE SubsTyped'
    <2>1. entry[i] \in Entries BY <1>4, <1>6 DEF MinutePasses
    <2>2. [entry[i] EXCEPT !.recent = 0] \in Entries BY <2>1, EntryChange
    <2>3. entry' = [entry EXCEPT ![i] = [entry[i] EXCEPT !.recent = 0]]
      BY <1>6 DEF MinutePasses
    <2> QED BY <1>2, <1>6, <2>2, <2>3 DEF MinutePasses, SubsTyped
  <1>7. ASSUME NEW i \in Ids, TokenExpires(i) PROVE SubsTyped'
    BY <1>7 DEF TokenExpires, SubsTyped
  <1>8. ASSUME NEW i \in Ids, NEW n, DeliveryStarts(i, n) PROVE SubsTyped'
    <2>1. CASE i \in Live /\ gen[i] = deliveries[i][n].gen
      <3> DEFINE e == [entry[i] EXCEPT !.count = @ + 1, !.recent = @ + 1]
      <3>1. e \in Entries BY <1>4, <2>1, EntryChange
      <3>2. entry' = [entry EXCEPT ![i] = e]
        BY <1>8, <2>1 DEF DeliveryStarts, SubsTyped
      <3> QED BY <1>2, <1>8, <3>1, <3>2 DEF DeliveryStarts, SubsTyped
    <2>2. CASE ~(i \in Live /\ gen[i] = deliveries[i][n].gen)
      BY <1>8, <2>2 DEF DeliveryStarts, SubsTyped
    <2> QED BY <2>1, <2>2
  <1>9. CASE UNCHANGED subs
    BY <1>9 DEF subs, SubsTyped
  <1>10. ASSUME NEW i \in Ids, WorkerStep(i) PROVE SubsTyped'
    BY <1>3, <1>9, <1>10 DEF WorkerStep, WorkerSkips, WorkerDispatches, WorkerResumes, WorkerDrained
  <1>11. ASSUME NEW i \in Ids, DeliveryStep(i) PROVE SubsTyped'
    BY <1>8, <1>9, <1>11 DEF DeliveryStep, LinkMade, LinkDrops, Connects, DialFails,
                             DeliverySends, DeliveryEnds
  <1>12. CASE UNCHANGED subscriptionVars \/ FanOut \/ \E k \in 1..MaxCascade : TreeChange(k)
    BY <1>9, <1>12 DEF subscriptionVars, FanOut, TreeChange
  <1> QED BY <1>1, <1>3, <1>5, <1>6, <1>7, <1>10, <1>11, <1>12 DEF SubscriptionNext, Environment

(* An action of one subscription changes the pipeline of that one. *)
Others(i) ==
    \A j \in Ids \ {i} :
        /\ worker'[j] = worker[j] /\ queue'[j] = queue[j] /\ held'[j] = held[j]
        /\ deliveries'[j] = deliveries[j] /\ out'[j] = out[j] /\ wire'[j] = wire[j]
        /\ fanned'[j] = fanned[j]
        /\ dropped'[j] = dropped[j] /\ refused'[j] = refused[j]

LEMMA OnlyOne ==
    ASSUME SubscriptionTypeOK, NEW i \in Ids,
           Unsubscribe(i) \/ WorkerStep(i) \/ DeliveryStep(i)
    PROVE  /\ Others(i)
           /\ fan' = fan /\ written' = written /\ nextId' = nextId
           /\ fanned' = fanned /\ dropped' = dropped
  <1> USE DEF SubscriptionTypeOK, PipelineTyped, Others, subs, lines
  <1>1. CASE Unsubscribe(i)
    BY <1>1 DEF Unsubscribe, DropWorker
  <1>2. CASE WorkerTerminates(i) \/ WorkerSkips(i)
    BY <1>2 DEF WorkerTerminates, WorkerSkips
  <1>3. CASE WorkerDispatches(i)
    <2>1. CASE Permitted(i) BY <1>3, <2>1 DEF WorkerDispatches
    <2>2. CASE ~Permitted(i) BY <1>3, <2>2 DEF WorkerDispatches, Hold
    <2> QED BY <2>1, <2>2
  <1>4. CASE WorkerResumes(i) \/ WorkerDrained(i)
    BY <1>4 DEF WorkerResumes, WorkerDrained
  <1>5. ASSUME NEW n, \/ DeliveryStarts(i, n) \/ Connects(i, n) \/ DialFails(i, n)
                      \/ DeliverySends(i, n) \/ DeliveryEnds(i, n)
        PROVE  /\ Others(i)
               /\ fan' = fan /\ written' = written /\ nextId' = nextId
               /\ fanned' = fanned /\ dropped' = dropped
    <2>1. CASE DeliveryStarts(i, n)
      <3>1. CASE link[i] BY <2>1, <3>1 DEF DeliveryStarts, ToWriteLock
      <3>2. CASE ~link[i] BY <2>1, <3>2 DEF DeliveryStarts
      <3> QED BY <3>1, <3>2
    <2>2. CASE Connects(i, n)
      BY <2>2 DEF Connects, ToWriteLock
    <2>3. CASE DialFails(i, n) \/ DeliverySends(i, n) \/ DeliveryEnds(i, n)
      BY <2>3 DEF DialFails, DeliverySends, DeliveryEnds
    <2> QED BY <1>5, <2>1, <2>2, <2>3
  <1>6. CASE LinkMade(i) \/ LinkDrops(i)
    BY <1>6 DEF LinkMade, LinkDrops
  <1> QED BY <1>1, <1>2, <1>3, <1>4, <1>5, <1>6 DEF WorkerStep, DeliveryStep

LEMMA PipelineStep ==
    ASSUME SubscriptionAssumption, SubscriptionTypeOK, [SubscriptionNext]_subscriptionVars
    PROVE  PipelineTyped'
  <1> USE DEF SubscriptionTypeOK, PipelineTyped
  <1>0. /\ \A i \in Ids : /\ queue[i] \in Seq(Nat) /\ deliveries[i] \in Seq(Deliveries)
                          /\ out[i] \in Seq(Messages) /\ wire[i] \in Seq(Messages)
                          /\ Len(queue[i]) \in Nat /\ Len(deliveries[i]) \in Nat
        /\ <<>> \in Seq(Nat) /\ <<>> \in Seq(Deliveries) /\ <<>> \in Seq(Messages) /\ Len(<<>>) = 0
        /\ QueueSize \in Nat \ {0} /\ Inflight \in Nat \ {0}
    BY LenProperties, EmptySeq DEF SubscriptionAssumption
  <1> USE DEF lines
  <1>1. CASE UNCHANGED <<written, changes, fan, worker, queue, held, lines, fanned, dropped, refused>>
    BY <1>1
  <1>2. ASSUME NEW k \in 1..MaxCascade, TreeChange(k) PROVE PipelineTyped'
    <2>0. k \in Nat
      BY DEF SubscriptionAssumption
    <2>1. ASSUME NEW s \in Seq(Nat), NEW p \in [1..k -> Nat]
          PROVE  s \o [n \in 1..k |-> written + p[n]] \in Seq(Nat)
      <3> DEFINE e == [n \in 1..k |-> written + p[n]]
      <3>1. e \in [1..k -> Nat] OBVIOUS
      <3> HIDE DEF e
      <3>2. e \in Seq(Nat) BY <2>0, <3>1, Listed
      <3> QED BY <3>2, ConcatProperties DEF e
    <2>2. PICK p \in Turns(k) : changes' = changes \o [n \in 1..k |-> written + p[n]]
      BY <1>2 DEF TreeChange
    <2>3. p \in [1..k -> Nat]
      BY <2>0 DEF Turns
    <2>4. changes' \in Seq(Nat)
      BY <2>1, <2>2, <2>3
    <2>5. fan' \in Seq(Nat)
      <3>1. fan' = fan \o [n \in 1..k |-> written + n]
        BY <1>2 DEF TreeChange
      <3> DEFINE e == [n \in 1..k |-> written + n]
      <3>2. e \in [1..k -> Nat] BY <2>0
      <3> HIDE DEF e
      <3>3. e \in Seq(Nat) BY <2>0, <3>2, Listed
      <3>4. fan \o e \in Seq(Nat) BY <3>3, ConcatProperties
      <3> QED BY <3>1, <3>4 DEF e
    <2> QED BY <1>2, <2>0, <2>4, <2>5 DEF TreeChange
  <1>3. CASE FanOut
    <2>1. Head(fan) \in Nat /\ Tail(fan) \in Seq(Nat)
      BY <1>3, Popped DEF FanOut
    <2>2. /\ worker' \in [Ids -> {"none", "loop", "sem", "drain", "gone"}]
          /\ fanned' \in [Ids -> SUBSET Nat] /\ dropped' \in [Ids -> SUBSET Nat]
      BY <1>3, <2>1 DEF FanOut
    <2>3. ASSUME NEW i \in Ids PROVE queue'[i] \in Seq(Nat) /\ Len(queue'[i]) <= QueueSize
      <3>1. Append(queue[i], Head(fan)) \in Seq(Nat)
            /\ Len(Append(queue[i], Head(fan))) = Len(queue[i]) + 1
        BY <2>1, Pushed
      <3>2. queue'[i] = IF i \in Live /\ ~Full(i) THEN Append(queue[i], Head(fan)) ELSE queue[i]
        BY <1>3 DEF FanOut
      <3> QED BY <1>0, <3>1, <3>2 DEF Full
    <2>4. queue' = [i \in Ids |-> queue'[i]]
      BY <1>3 DEF FanOut
    <2>5. queue' \in [Ids -> Seq(Nat)]
      BY <2>3, <2>4
    <2>6. /\ written' = written /\ changes' = changes /\ held' = held /\ lines' = lines /\ refused' = refused
          /\ fan' = Tail(fan)
      BY <1>3 DEF FanOut
    <2> QED BY <2>1, <2>2, <2>3, <2>5, <2>6
  <1>4. ASSUME NEW i \in Ids, Unsubscribe(i) PROVE PipelineTyped'
    <2>1. worker' \in [Ids -> {"none", "loop", "sem", "drain", "gone"}]
      BY <1>4 DEF Unsubscribe, DropWorker
    <2>2. queue' \in [Ids -> Seq(Nat)] /\ held' \in [Ids -> Nat]
      BY <1>0, <1>4 DEF Unsubscribe, DropWorker
    <2>3. \A j \in Ids : Len(queue'[j]) <= QueueSize
      BY <1>0, <1>4 DEF Unsubscribe, DropWorker
    <2> QED BY <1>4, <2>1, <2>2, <2>3 DEF Unsubscribe
  <1>5. ASSUME NEW i \in Ids, WorkerTerminates(i) PROVE PipelineTyped'
    BY <1>0, <1>5 DEF WorkerTerminates, Exit, subs
  <1>6. ASSUME NEW i \in Ids, WorkerSkips(i) \/ WorkerDispatches(i)
        PROVE  /\ Head(queue[i]) \in Nat /\ queue' \in [Ids -> Seq(Nat)]
               /\ \A j \in Ids : Len(queue'[j]) <= QueueSize
    <2>1. queue[i] # <<>> /\ queue' = [queue EXCEPT ![i] = Tail(queue[i])]
      BY <1>6 DEF WorkerSkips, WorkerDispatches, Takes
    <2>2. Head(queue[i]) \in Nat /\ Tail(queue[i]) \in Seq(Nat) /\ Len(Tail(queue[i])) = Len(queue[i]) - 1
      BY <1>0, <2>1, Popped
    <2> QED BY <1>0, <2>1, <2>2
  <1>7. ASSUME NEW i \in Ids, WorkerSkips(i) PROVE PipelineTyped'
    BY <1>6, <1>7 DEF WorkerSkips
  <1>8. ASSUME NEW i \in Ids, NEW ev \in Nat, Permitted(i), deliveries' = [deliveries EXCEPT ![i] = Spawned(i, ev)]
        PROVE  deliveries' \in [Ids -> Seq(Deliveries)] /\ \A j \in Ids : Len(deliveries'[j]) <= Inflight
    <2>1. [ev |-> ev, gen |-> gen[i], st |-> "created"] \in Deliveries
      BY DEF Deliveries, SubsTyped
    <2>2. Spawned(i, ev) \in Seq(Deliveries) /\ Len(Spawned(i, ev)) = Len(deliveries[i]) + 1
      BY <1>0, <2>1, Pushed DEF Spawned
    <2> QED BY <1>0, <1>8, <2>2 DEF Permitted
  <1>9. ASSUME NEW i \in Ids, WorkerDispatches(i) PROVE PipelineTyped'
    <2>1. CASE Permitted(i)
      BY <1>6, <1>8, <1>9, <2>1 DEF WorkerDispatches
    <2>2. CASE ~Permitted(i)
      <3>1. worker' \in [Ids -> {"none", "loop", "sem", "drain", "gone"}] /\ held' \in [Ids -> Nat]
        <4>1. Head(queue[i]) \in Nat BY <1>6, <1>9
        <4>2. worker' = [worker EXCEPT ![i] = "sem"] /\ held' = [held EXCEPT ![i] = Head(queue[i])]
          BY <1>9, <2>2 DEF WorkerDispatches, Hold
        <4> QED BY <4>1, <4>2
      <3>2. deliveries' = deliveries
        BY <1>9, <2>2 DEF WorkerDispatches
      <3> QED BY <1>6, <1>9, <3>1, <3>2 DEF WorkerDispatches
    <2> QED BY <2>1, <2>2
  <1>10. ASSUME NEW i \in Ids, WorkerResumes(i) PROVE PipelineTyped'
    BY <1>8, <1>10 DEF WorkerResumes
  <1>11. ASSUME NEW i \in Ids, WorkerDrained(i) PROVE PipelineTyped'
    BY <1>11 DEF WorkerDrained
  <1>12. ASSUME NEW i \in Ids, NEW n \in DOMAIN deliveries[i], NEW st \in States,
                deliveries' = [deliveries EXCEPT ![i][n].st = st]
         PROVE  deliveries' \in [Ids -> Seq(Deliveries)] /\ \A j \in Ids : Len(deliveries'[j]) <= Inflight
    <2> DEFINE u == [deliveries[i] EXCEPT ![n].st = st]
    <2>1. u \in Seq(Deliveries) /\ Len(u) = Len(deliveries[i])
      BY <1>0, Changed
    <2>2. deliveries' = [deliveries EXCEPT ![i] = u]
      BY <1>12
    <2> HIDE DEF u
    <2> QED BY <2>1, <2>2
  <1>13. ASSUME NEW i \in Ids, NEW n \in DOMAIN deliveries[i] PROVE deliveries[i][n].ev \in Nat /\ deliveries[i][n].gen \in Nat
    <2>1. deliveries[i][n] \in Deliveries BY <1>0, LenProperties
    <2> QED BY <2>1 DEF Deliveries
  <1>14. ASSUME NEW i \in Ids, NEW n \in DOMAIN deliveries[i], NEW waited \in BOOLEAN,
                ToWriteLock(i, n, waited)
         PROVE  /\ deliveries' \in [Ids -> Seq(Deliveries)] /\ \A j \in Ids : Len(deliveries'[j]) <= Inflight
                /\ out' \in [Ids -> Seq(Messages)]
    <2> DEFINE msg == [ev |-> deliveries[i][n].ev, waited |-> waited]
    <2>1. msg \in Messages BY <1>13 DEF Messages
    <2>2. Append(out[i], msg) \in Seq(Messages) BY <2>1, Pushed
    <2>3. out' = [out EXCEPT ![i] = Append(out[i], msg)] BY <1>14 DEF ToWriteLock
    <2>4. out' \in [Ids -> Seq(Messages)] BY <2>2, <2>3
    <2>5. deliveries' \in [Ids -> Seq(Deliveries)] /\ \A j \in Ids : Len(deliveries'[j]) <= Inflight
      BY <1>12, <1>14 DEF ToWriteLock, States
    <2> QED BY <2>4, <2>5
  <1>15. ASSUME NEW i \in Ids, NEW n, DeliveryStarts(i, n) \/ Connects(i, n) PROVE PipelineTyped'
    <2>1. n \in DOMAIN deliveries[i] BY <1>15 DEF DeliveryStarts, Connects, HasPool, IsFirst
    <2>2. CASE Connects(i, n)
      BY <1>14, <2>1, <2>2 DEF Connects
    <2>3. CASE DeliveryStarts(i, n) /\ link[i]
      BY <1>14, <2>1, <2>3 DEF DeliveryStarts
    <2>4. CASE DeliveryStarts(i, n) /\ ~link[i]
      BY <1>12, <2>1, <2>4 DEF DeliveryStarts, States
    <2> QED BY <1>15, <2>2, <2>3, <2>4
  <1>16. ASSUME NEW i \in Ids, NEW n, DeliverySends(i, n) \/ DialFails(i, n) PROVE PipelineTyped'
    <2>1. n \in DOMAIN deliveries[i] BY <1>16 DEF DeliverySends, DialFails, HasPool, IsFirst
    <2>2. CASE DeliverySends(i, n)
      <3>1. out[i] \in Seq(Messages) /\ out[i] # <<>> BY <2>2 DEF DeliverySends
      <3>2. Head(out[i]) \in Messages /\ Tail(out[i]) \in Seq(Messages) BY <3>1, Popped
      <3>3. Append(wire[i], Head(out[i])) \in Seq(Messages) BY <3>2, Pushed
      <3>4. wire' \in [Ids -> Seq(Messages)] /\ out' \in [Ids -> Seq(Messages)]
        BY <2>2, <3>2, <3>3 DEF DeliverySends
      <3>5. deliveries' \in [Ids -> Seq(Deliveries)] /\ \A j \in Ids : Len(deliveries'[j]) <= Inflight
        BY <1>12, <2>1, <2>2 DEF DeliverySends, States
      <3> QED BY <2>2, <3>4, <3>5 DEF DeliverySends
    <2>3. CASE DialFails(i, n)
      <3>1. deliveries' \in [Ids -> Seq(Deliveries)] /\ \A j \in Ids : Len(deliveries'[j]) <= Inflight
        BY <1>12, <2>1, <2>3 DEF DialFails, States
      <3>2. refused' \in [Ids -> SUBSET Nat]
        <4>1. deliveries[i][n].ev \in Nat BY <1>13, <2>1
        <4> QED BY <2>3, <4>1 DEF DialFails
      <3> QED BY <2>3, <3>1, <3>2 DEF DialFails
    <2> QED BY <1>16, <2>2, <2>3
  <1>17. ASSUME NEW i \in Ids, NEW n, DeliveryEnds(i, n) PROVE PipelineTyped'
    <2>1. n \in DOMAIN deliveries[i] /\ deliveries' = [deliveries EXCEPT ![i] = Without(deliveries[i], n)]
      BY <1>17 DEF DeliveryEnds
    <2>2. Without(deliveries[i], n) \in Seq(Deliveries) /\ Len(Without(deliveries[i], n)) = Len(deliveries[i]) - 1
      BY <1>0, <2>1, Removed
    <2> QED BY <1>0, <1>17, <2>1, <2>2 DEF DeliveryEnds
  <1>18. ASSUME NEW i \in Ids, WorkerStep(i) \/ DeliveryStep(i) PROVE PipelineTyped'
    <2>1. CASE LinkMade(i)
      BY <2>1 DEF LinkMade
    <2>2. CASE LinkDrops(i)
      <3>1. Cut(deliveries[i]) \in Seq(Deliveries) /\ Len(Cut(deliveries[i])) = Len(deliveries[i])
        BY <1>0, CutTyped
      <3>2. {d.ev : d \in {deliveries[i][n] : n \in {m \in DOMAIN deliveries[i] :
                                               deliveries[i][m].st = "out"}}} \subseteq Nat
        BY <1>13
      <3>3. refused' \in [Ids -> SUBSET Nat]
        BY <2>2, <3>2 DEF LinkDrops
      <3>4. deliveries' \in [Ids -> Seq(Deliveries)] /\ \A j \in Ids : Len(deliveries'[j]) <= Inflight
        BY <1>0, <2>2, <3>1 DEF LinkDrops
      <3>5. out' \in [Ids -> Seq(Messages)]
        <4>1. <<>> \in Seq(Messages) BY EmptySeq
        <4> QED BY <2>2, <4>1 DEF LinkDrops
      <3> QED BY <2>2, <3>3, <3>4, <3>5 DEF LinkDrops
    <2> QED BY <1>5, <1>7, <1>9, <1>10, <1>11, <1>15, <1>16, <1>17, <1>18, <2>1, <2>2
            DEF WorkerStep, DeliveryStep
  <1>19. CASE Environment
    BY <1>1, <1>2, <1>4, <1>19 DEF Environment, Subscribe, DurationElapses, TokenExpires, MinutePasses
  <1> QED BY <1>1, <1>3, <1>18, <1>19 DEF SubscriptionNext, subscriptionVars

(* Every reachable state of the subscriptions, their queues, workers and   *)
(* deliveries is well typed, within the limits of each.                    *)
THEOREM TypeCorrect ==
    ASSUME SubscriptionAssumption
    PROVE  SubscriptionSpec => []SubscriptionTypeOK
  <1>1. SubscriptionInit => SubscriptionTypeOK
    BY TypeInit
  <1>2. SubscriptionTypeOK /\ [SubscriptionNext]_subscriptionVars => SubscriptionTypeOK'
    BY SubsStep, PipelineStep DEF SubscriptionTypeOK
  <1> QED BY <1>1, <1>2, PTL DEF SubscriptionSpec

-----------------------------------------------------------------------------
(* One line, step by step. *)
LEMMA LineInit ==
    ASSUME SubscriptionInit
    PROVE  OneLine
  <1> SUFFICES ASSUME NEW i \in Ids PROVE LineAt(i)
    BY DEF OneLine
  <1>1. Stream(i) = <<>>
    <2>1. <<>> \in Seq(Messages) BY EmptySeq
    <2> QED BY <2>1, ConcatEmptySeq DEF SubscriptionInit, Stream
  <1>2. /\ deliveries[i] = <<>> /\ queue[i] = <<>> /\ fan = <<>> /\ held[i] = 0 /\ written = 0
        /\ worker[i] # "sem"
    BY DEF SubscriptionInit
  <1>3. DOMAIN <<>> = {}
    OBVIOUS
  <1>4. Line(<<>>, <<>>, 0, <<>>, <<>>, 0)
    BY <1>3 DEF Line, InTurn, InLine, UpTo
  <1> QED BY <1>1, <1>2, <1>4 DEF LineAt

(* A subscription whose pipeline is left alone stays in line. *)
LEMMA LineKept ==
    ASSUME NEW i \in Ids, LineAt(i), fan' = fan, written' = written,
           worker'[i] = worker[i], queue'[i] = queue[i], held'[i] = held[i],
           deliveries'[i] = deliveries[i], out'[i] = out[i], wire'[i] = wire[i]
    PROVE  LineAt(i)'
  <1>1. Stream(i)' = Stream(i)
    BY DEF Stream
  <1> QED BY <1>1 DEF LineAt

LEMMA LineFan ==
    ASSUME SubscriptionTypeOK, OneLine, FanOut \/ \E k \in 1..MaxCascade : TreeChange(k),
           NEW i \in Ids
    PROVE  LineAt(i)'
  <1> DEFINE L(q, f, last) == Line(Stream(i), deliveries[i], held[i], q, f, last)
  <1>1. /\ wire[i] \in Seq(Messages) /\ out[i] \in Seq(Messages)
        /\ deliveries[i] \in Seq(Deliveries) /\ held[i] \in Nat
        /\ queue[i] \in Seq(Nat) /\ fan \in Seq(Nat) /\ written \in Nat
    BY DEF SubscriptionTypeOK, PipelineTyped
  <1>2. Stream(i) \in Seq(Messages)
    BY <1>1, Joined DEF Stream
  <1>3. L(queue[i], fan, written) /\ (worker[i] = "sem" <=> held[i] # 0)
    BY DEF OneLine, LineAt
  <1>4. Stream(i)' = Stream(i) /\ held' = held /\ deliveries' = deliveries
    BY DEF TreeChange, FanOut, lines, Stream
  <1>5. ASSUME NEW k \in 1..MaxCascade, TreeChange(k) PROVE LineAt(i)'
    <2>1. L(queue[i], fan \o [n \in 1..k |-> written + n], written + k)
      <3>1. k \in Nat OBVIOUS
      <3> QED BY <1>1, <1>2, <1>3, <3>1, LineTreeChange
    <2>2. /\ fan' = fan \o [n \in 1..k |-> written + n] /\ written' = written + k
          /\ queue' = queue /\ worker' = worker
      BY <1>5 DEF TreeChange
    <2> QED BY <1>3, <1>4, <2>1, <2>2 DEF LineAt
  <1>6. CASE FanOut
    <2>1. L(queue[i], Tail(fan), written) /\ L(Append(queue[i], Head(fan)), Tail(fan), written)
      <3>1. fan # <<>> BY <1>6 DEF FanOut
      <3> QED BY <1>1, <1>2, <1>3, <3>1, LineFanOut
    <2>2. queue'[i] = queue[i] \/ queue'[i] = Append(queue[i], Head(fan))
      BY <1>6 DEF FanOut
    <2>3. worker'[i] = "sem" <=> worker[i] = "sem"
      BY <1>6 DEF FanOut
    <2>4. fan' = Tail(fan) /\ written' = written
      BY <1>6 DEF FanOut
    <2> HIDE DEF L
    <2>5. L(queue'[i], Tail(fan), written)
      BY <2>1, <2>2
    <2> QED BY <1>3, <1>4, <2>3, <2>4, <2>5 DEF LineAt, L
  <1> QED BY <1>5, <1>6

(* The worker of i: drops its queue, takes its head, spawns a delivery.    *)
LEMMA LineWorker ==
    ASSUME SubscriptionTypeOK, OneLine, NEW i \in Ids, Unsubscribe(i) \/ WorkerStep(i)
    PROVE  LineAt(i)'
  <1> DEFINE L(t, h, q) == Line(Stream(i), t, h, q, fan, written)
  <1>1. /\ Stream(i) \in Seq(Messages) /\ deliveries[i] \in Seq(Deliveries) /\ held[i] \in Nat
        /\ queue[i] \in Seq(Nat) /\ fan \in Seq(Nat) /\ written \in Nat
        /\ gen[i] \in Nat
    BY Joined DEF Stream, SubscriptionTypeOK, PipelineTyped, SubsTyped
  <1>2. L(deliveries[i], held[i], queue[i]) /\ (worker[i] = "sem" <=> held[i] # 0)
    BY DEF OneLine, LineAt
  <1>3. wire' = wire /\ fan' = fan /\ written' = written
        /\ (out' = out => Stream(i)' = Stream(i))
    BY OnlyOne DEF Stream, lines, Unsubscribe, WorkerStep, WorkerTerminates, WorkerSkips,
                   WorkerDispatches, WorkerResumes, WorkerDrained
  <1>4. L(deliveries[i], 0, <<>>) /\ L(<<>>, held[i], <<>>)
    BY <1>1, <1>2, LineClear
  <1>5. ASSUME queue[i] # <<>>, held[i] = 0
        PROVE  /\ L(deliveries[i], 0, Tail(queue[i]))
               /\ L(deliveries[i], Head(queue[i]), Tail(queue[i]))
               /\ Head(queue[i]) \in Nat \ {0}
    BY <1>1, <1>2, <1>5, LineTake, Popped
  <1>6. ASSUME NEW ev \in Nat \ {0}, NEW q \in Seq(Nat), L(deliveries[i], ev, q)
        PROVE  L(Spawned(i, ev), 0, q)
    <2>1. [ev |-> ev, gen |-> gen[i], st |-> "created"] \in Deliveries
      BY <1>1 DEF Deliveries
    <2> QED BY <1>1, <1>6, <2>1, LineSpawn DEF Spawned
  <1> HIDE DEF L
  <1>7. CASE Unsubscribe(i)
    <2>1. worker'[i] # "sem" /\ queue'[i] = <<>> /\ held'[i] = 0 /\ deliveries'[i] = deliveries[i] /\ out' = out
      BY <1>7 DEF lines, Unsubscribe, DropWorker, SubscriptionTypeOK, PipelineTyped
    <2> QED BY <1>3, <1>4, <2>1 DEF LineAt, L
  <1>8. CASE WorkerTerminates(i)
    <2>1. worker[i] = "loop" /\ worker'[i] = "gone" /\ queue'[i] = <<>> /\ deliveries'[i] = <<>> /\ held'[i] = held[i]
      BY <1>8 DEF WorkerTerminates, Takes, Exit, SubscriptionTypeOK, PipelineTyped
    <2>2. wire[i] \in Seq(Messages) /\ out[i] \in Seq(Messages)
      BY DEF SubscriptionTypeOK, PipelineTyped
    <2>3. Line(wire[i] \o <<>>, <<>>, held[i], <<>>, fan, written)
      BY <1>4, <2>2, LineShort DEF L, Stream
    <2>4. Stream(i)' = wire[i] \o <<>>
      BY <1>3, <1>8 DEF WorkerTerminates, Stream, SubscriptionTypeOK, PipelineTyped
    <2> QED BY <1>2, <1>3, <2>1, <2>3, <2>4 DEF LineAt
  <1>9. ASSUME WorkerSkips(i) \/ WorkerDispatches(i)
        PROVE  /\ worker[i] = "loop" /\ queue[i] # <<>> /\ held[i] = 0
               /\ queue'[i] = Tail(queue[i]) /\ Tail(queue[i]) \in Seq(Nat)
    BY <1>1, <1>2, <1>9, Popped DEF WorkerSkips, WorkerDispatches, Takes, SubscriptionTypeOK, PipelineTyped
  <1>10. CASE WorkerSkips(i)
    <2>1. worker' = worker /\ held' = held /\ deliveries' = deliveries /\ out' = out
      BY <1>10 DEF WorkerSkips, lines
    <2> QED BY <1>3, <1>5, <1>9, <1>10, <2>1 DEF LineAt, L
  <1>11. CASE WorkerDispatches(i)
    <2>1. CASE Permitted(i)
      <3>1. deliveries'[i] = Spawned(i, Head(queue[i])) /\ worker' = worker /\ held' = held /\ out' = out
        BY <1>11, <2>1 DEF WorkerDispatches, SubscriptionTypeOK, PipelineTyped
      <3>2. L(deliveries'[i], 0, Tail(queue[i]))
        BY <1>5, <1>6, <1>9, <1>11, <3>1
      <3> QED BY <1>3, <1>9, <1>11, <3>1, <3>2 DEF LineAt, L
    <2>2. CASE ~Permitted(i)
      <3>1. worker'[i] = "sem" /\ held'[i] = Head(queue[i]) /\ deliveries' = deliveries /\ out' = out
        BY <1>11, <2>2 DEF WorkerDispatches, Hold, SubscriptionTypeOK, PipelineTyped
      <3> QED BY <1>3, <1>5, <1>9, <1>11, <3>1 DEF LineAt, L
    <2> QED BY <2>1, <2>2
  <1>12. CASE WorkerResumes(i)
    <2>1. /\ worker[i] = "sem" /\ worker'[i] = "loop" /\ held'[i] = 0
          /\ deliveries'[i] = Spawned(i, held[i]) /\ queue' = queue /\ out' = out
      BY <1>12 DEF WorkerResumes, SubscriptionTypeOK, PipelineTyped
    <2> QED BY <1>1, <1>2, <1>3, <1>6, <2>1 DEF LineAt, L
  <1>13. CASE WorkerDrained(i)
    <2>1. /\ worker[i] = "drain" /\ worker'[i] = "gone"
          /\ held' = held /\ deliveries' = deliveries /\ queue' = queue /\ out' = out
      BY <1>13 DEF lines, WorkerDrained, SubscriptionTypeOK, PipelineTyped
    <2> QED BY <1>2, <1>3, <2>1 DEF LineAt, L
  <1> QED BY <1>7, <1>8, <1>10, <1>11, <1>12, <1>13 DEF WorkerStep

(* A delivery of i starts, is written, fails or ends. *)
LEMMA LineDelivery ==
    ASSUME SubscriptionTypeOK, OneLine, NEW i \in Ids, DeliveryStep(i)
    PROVE  LineAt(i)'
  <1> DEFINE L(v, t) == Line(v, t, held[i], queue[i], fan, written)
  <1>1. /\ Stream(i) \in Seq(Messages) /\ wire[i] \in Seq(Messages) /\ out[i] \in Seq(Messages)
        /\ deliveries[i] \in Seq(Deliveries) /\ held[i] \in Nat
        /\ queue[i] \in Seq(Nat) /\ fan \in Seq(Nat) /\ written \in Nat
        /\ \A n \in DOMAIN deliveries[i] : deliveries[i][n] \in Deliveries
    BY Joined, LenProperties DEF Stream, SubscriptionTypeOK, PipelineTyped
  <1>2. L(Stream(i), deliveries[i]) /\ (worker[i] = "sem" <=> held[i] # 0)
    BY DEF OneLine, LineAt
  <1>3. worker' = worker /\ queue' = queue /\ held' = held /\ fan' = fan /\ written' = written
    BY DEF DeliveryStep, LinkMade, LinkDrops, DeliveryStarts, Connects, DialFails,
           DeliverySends, DeliveryEnds
  <1>4. ASSUME L(Stream(i)', deliveries'[i]) PROVE LineAt(i)'
    BY <1>2, <1>3, <1>4 DEF LineAt
  <1>5. ASSUME UNCHANGED <<out, wire>> PROVE Stream(i)' = Stream(i)
    BY <1>5 DEF Stream
  <1>6. ASSUME NEW n \in DOMAIN deliveries[i], NEW waited \in BOOLEAN, ToWriteLock(i, n, waited),
               wire' = wire,
               \/ /\ ~waited /\ deliveries[i][n].st = "created"
                  /\ \A m \in 1..(n - 1) : deliveries[i][m].st # "created"
               \/ /\ waited /\ deliveries[i][n].st = "pool"
                  /\ \A m \in 1..(n - 1) : deliveries[i][m].st # "pool"
        PROVE  LineAt(i)'
    <2> DEFINE msg == [ev |-> deliveries[i][n].ev, waited |-> waited]
    <2>1. deliveries'[i] = [deliveries[i] EXCEPT ![n].st = "out"] /\ out'[i] = Append(out[i], msg)
      BY <1>6 DEF ToWriteLock, SubscriptionTypeOK, PipelineTyped
    <2>2. msg \in Messages /\ msg.ev = deliveries[i][n].ev /\ msg.waited = waited
      BY <1>1 DEF Messages, Deliveries
    <2> HIDE DEF msg
    <2>3. Stream(i)' = Append(Stream(i), msg)
      <3>0. \A w, o \in Seq(Messages), e \in Messages : w \o Append(o, e) = Append(w \o o, e)
        BY JoinedPush
      <3>1. wire[i] \o Append(out[i], msg) = Append(wire[i] \o out[i], msg)
        BY <1>1, <2>2, <3>0
      <3> QED BY <1>6, <2>1, <3>1 DEF Stream
    <2>4. L(Append(Stream(i), msg), [deliveries[i] EXCEPT ![n].st = "out"])
      BY <1>1, <1>2, <1>6, <2>2, LineToWrite
    <2> QED BY <1>4, <2>1, <2>3, <2>4
  <1>7. ASSUME NEW n, DeliveryStarts(i, n) PROVE LineAt(i)'
    <2>1. /\ n \in DOMAIN deliveries[i] /\ deliveries[i][n].st = "created"
          /\ \A m \in 1..(n - 1) : deliveries[i][m].st # "created"
          /\ wire' = wire
      BY <1>7 DEF DeliveryStarts, IsFirst
    <2>2. CASE link[i]
      BY <1>6, <1>7, <2>1, <2>2 DEF DeliveryStarts
    <2>3. CASE ~link[i]
      <3>1. deliveries'[i] = [deliveries[i] EXCEPT ![n].st = "pool"] /\ out' = out
        BY <1>7, <2>3 DEF DeliveryStarts, SubscriptionTypeOK, PipelineTyped
      <3>2. L(Stream(i), [deliveries[i] EXCEPT ![n].st = "pool"])
        BY <1>1, <1>2, <2>1, LineChange DEF States
      <3> QED BY <1>4, <1>5, <2>1, <3>1, <3>2
    <2> QED BY <2>2, <2>3
  <1>8. ASSUME NEW n, Connects(i, n) PROVE LineAt(i)'
    <2>1. /\ n \in DOMAIN deliveries[i] /\ deliveries[i][n].st = "pool"
          /\ \A m \in 1..(n - 1) : deliveries[i][m].st # "pool"
          /\ ToWriteLock(i, n, TRUE) /\ wire' = wire
      BY <1>8 DEF Connects, HasPool, IsFirst
    <2> QED BY <1>6, <2>1
  <1>9. ASSUME NEW n, DialFails(i, n) PROVE LineAt(i)'
    <2>1. n \in DOMAIN deliveries[i] /\ deliveries[i][n].st = "pool"
      BY <1>9 DEF DialFails, HasPool, IsFirst
    <2>2. deliveries'[i] = [deliveries[i] EXCEPT ![n].st = "failed"] /\ UNCHANGED <<out, wire>>
      BY <1>9 DEF DialFails, SubscriptionTypeOK, PipelineTyped
    <2>3. L(Stream(i), [deliveries[i] EXCEPT ![n].st = "failed"])
      BY <1>1, <1>2, <2>1, LineChange DEF States
    <2> QED BY <1>4, <1>5, <2>2, <2>3
  <1>10. ASSUME NEW n, DeliverySends(i, n) PROVE LineAt(i)'
    <2>1. /\ n \in DOMAIN deliveries[i] /\ deliveries[i][n].st = "out" /\ out[i] # <<>>
          /\ deliveries'[i] = [deliveries[i] EXCEPT ![n].st = "sent"]
          /\ wire'[i] = Append(wire[i], Head(out[i])) /\ out'[i] = Tail(out[i])
      BY <1>10 DEF DeliverySends, SubscriptionTypeOK, PipelineTyped
    <2>2. Stream(i)' = Stream(i)
      <3>1. \A w, o \in Seq(Messages) : o # <<>> => Append(w, Head(o)) \o Tail(o) = w \o o
        BY JoinedMove
      <3>2. Append(wire[i], Head(out[i])) \o Tail(out[i]) = wire[i] \o out[i]
        BY <1>1, <2>1, <3>1
      <3> QED BY <2>1, <3>2 DEF Stream
    <2>3. L(Stream(i), [deliveries[i] EXCEPT ![n].st = "sent"])
      BY <1>1, <1>2, <2>1, LineChange DEF States
    <2> QED BY <1>4, <2>1, <2>2, <2>3
  <1>11. ASSUME NEW n, DeliveryEnds(i, n) PROVE LineAt(i)'
    <2>1. n \in DOMAIN deliveries[i]
      BY <1>11 DEF DeliveryEnds
    <2>2. deliveries'[i] = Without(deliveries[i], n) /\ UNCHANGED <<out, wire>>
      BY <1>11 DEF DeliveryEnds, SubscriptionTypeOK, PipelineTyped
    <2>3. L(Stream(i), Without(deliveries[i], n))
      BY <1>1, <1>2, <2>1, LineEnd
    <2> QED BY <1>4, <1>5, <2>2, <2>3
  <1>12. CASE LinkMade(i)
    <2>1. deliveries' = deliveries /\ UNCHANGED <<out, wire>>
      BY <1>12 DEF LinkMade
    <2> QED BY <1>2, <1>4, <1>5, <2>1
  <1>13. CASE LinkDrops(i)
    <2>1. deliveries'[i] = Cut(deliveries[i]) /\ out'[i] = <<>> /\ wire' = wire
      BY <1>13 DEF LinkDrops, SubscriptionTypeOK, PipelineTyped
    <2>2. L(Stream(i), Cut(deliveries[i]))
      BY <1>1, <1>2, LineCut
    <2>3. L(wire[i] \o <<>>, Cut(deliveries[i]))
      BY <1>1, <2>2, LineShort DEF Stream
    <2>4. Stream(i)' = wire[i] \o <<>>
      BY <2>1 DEF Stream
    <2> QED BY <1>4, <2>1, <2>3, <2>4
  <1> QED BY <1>7, <1>8, <1>9, <1>10, <1>11, <1>12, <1>13 DEF DeliveryStep

LEMMA LineStep ==
    ASSUME SubscriptionAssumption, SubscriptionTypeOK, OneLine, [SubscriptionNext]_subscriptionVars
    PROVE  OneLine'
  <1> SUFFICES ASSUME NEW j \in Ids PROVE LineAt(j)'
    BY DEF OneLine
  <1>1. LineAt(j)
    BY DEF OneLine
  <1>2. CASE UNCHANGED <<written, fan, worker, queue, held, lines>>
    BY <1>1, <1>2, LineKept DEF lines
  <1>3. CASE FanOut \/ \E k \in 1..MaxCascade : TreeChange(k)
    BY <1>3, LineFan
  <1>4. ASSUME NEW i \in Ids, Unsubscribe(i) \/ WorkerStep(i) \/ DeliveryStep(i)
        PROVE  LineAt(j)'
    <2>1. CASE i = j
      BY <1>4, <2>1, LineWorker, LineDelivery
    <2>2. CASE i # j
      BY <1>1, <1>4, <2>2, OnlyOne, LineKept DEF Others
    <2> QED BY <2>1, <2>2
  <1>5. CASE Environment
    BY <1>2, <1>3, <1>4, <1>5 DEF Environment, Subscribe, DurationElapses, TokenExpires, MinutePasses
  <1> QED BY <1>2, <1>3, <1>4, <1>5 DEF SubscriptionNext, subscriptionVars

(* Whatever fails, is dropped, cut off or answered out of order, what a    *)
(* subscriber receives is in the order in which Phase 2 scheduled it, each *)
(* event once, except that a delivery that waited for the pool's lock may  *)
(* be overtaken by later ones that did not wait: the FIFO of the fan-out   *)
(* tasks, the queue, the one worker and the two locks keep that much.      *)
THEOREM OrderCorrect ==
    ASSUME SubscriptionAssumption
    PROVE  SubscriptionSpec => []SendOrder
  <1>1. SubscriptionInit => SubscriptionTypeOK /\ OneLine
    BY TypeInit, LineInit
  <1>2. SubscriptionTypeOK /\ OneLine /\ [SubscriptionNext]_subscriptionVars
            => (SubscriptionTypeOK /\ OneLine)'
    BY SubsStep, PipelineStep, LineStep DEF SubscriptionTypeOK
  <1>3. SubscriptionTypeOK /\ OneLine => SendOrder
    <2> SUFFICES ASSUME SubscriptionTypeOK, OneLine, NEW i \in Ids,
                        NEW m \in DOMAIN wire[i], NEW n \in DOMAIN wire[i], m < n
                 PROVE  Before(wire[i][m], wire[i][n])
      BY DEF SendOrder
    <2>1. wire[i] \in Seq(Messages) /\ out[i] \in Seq(Messages)
      BY DEF SubscriptionTypeOK, PipelineTyped
    <2> DEFINE v == wire[i] \o out[i]
    <2>2. DOMAIN wire[i] \subseteq DOMAIN v /\ \A l \in DOMAIN wire[i] : v[l] = wire[i][l]
      <3>1. \A w, o \in Seq(Messages) :
               DOMAIN w \subseteq DOMAIN (w \o o) /\ \A l \in DOMAIN w : (w \o o)[l] = w[l]
        BY Joined
      <3> QED BY <2>1, <3>1
    <2>3. v = Stream(i)
      BY DEF Stream
    <2> HIDE DEF v
    <2>4. \A k, l \in DOMAIN v : k < l => Before(v[k], v[l])
      BY <2>3 DEF OneLine, LineAt, Line, InTurn
    <2>5. m \in DOMAIN v /\ n \in DOMAIN v /\ v[m] = wire[i][m] /\ v[n] = wire[i][n]
      BY <2>2
    <2> QED BY <2>4, <2>5
  <1> QED BY <1>1, <1>2, <1>3, PTL DEF SubscriptionSpec

-----------------------------------------------------------------------------
(* The accounts.  The events of a pipeline are those of its parts; what a  *)
(* step moves from one part to another stays among them.                   *)
Events(q) == {q[n] : n \in DOMAIN q}
EventsOf(t) == {t[n].ev : n \in DOMAIN t}

LEMMA EventsPushed ==
    ASSUME NEW q \in Seq(Nat), NEW ev \in Nat
    PROVE  Events(Append(q, ev)) = Events(q) \cup {ev}
  <1> DEFINE r == Append(q, ev)
  <1>1. /\ Len(q) \in Nat /\ DOMAIN q = 1..Len(q) /\ DOMAIN r = 1..(Len(q) + 1)
        /\ \A n \in 1..Len(q) : r[n] = q[n]
        /\ r[Len(q) + 1] = ev
    BY Pushed
  <1> HIDE DEF r
  <1>2. \A n \in DOMAIN r : (n \in DOMAIN q /\ r[n] = q[n]) \/ r[n] = ev
    BY <1>1
  <1>3. \A n \in DOMAIN q : n \in DOMAIN r /\ r[n] = q[n]
    BY <1>1
  <1>4. Len(q) + 1 \in DOMAIN r
    BY <1>1
  <1>5. Events(r) = Events(q) \cup {ev}
    BY <1>1, <1>2, <1>3, <1>4 DEF Events
  <1> QED BY <1>5 DEF r

LEMMA EventsPopped ==
    ASSUME NEW q \in Seq(Nat), q # <<>>
    PROVE  Events(q) = Events(Tail(q)) \cup {Head(q)}
  <1> DEFINE r == Tail(q)
  <1>1. /\ Len(q) \in Nat /\ Len(q) > 0 /\ DOMAIN q = 1..Len(q) /\ DOMAIN r = 1..(Len(q) - 1)
        /\ Head(q) = q[1]
        /\ \A n \in 1..(Len(q) - 1) : r[n] = q[n + 1]
    BY Popped
  <1> HIDE DEF r
  <1>2. \A n \in DOMAIN r : n + 1 \in DOMAIN q /\ r[n] = q[n + 1]
    BY <1>1
  <1>3. \A n \in DOMAIN q : n = 1 \/ (n - 1 \in DOMAIN r /\ r[n - 1] = q[n])
    BY <1>1
  <1>4. 1 \in DOMAIN q
    BY <1>1
  <1>5. Events(q) = Events(r) \cup {q[1]}
    BY <1>2, <1>3, <1>4 DEF Events
  <1> QED BY <1>1, <1>5 DEF r

LEMMA EventsOfPushed ==
    ASSUME NEW S, NEW t \in Seq(S), NEW d \in S
    PROVE  EventsOf(Append(t, d)) = EventsOf(t) \cup {d.ev}
  <1> DEFINE u == Append(t, d)
  <1>1. /\ Len(t) \in Nat /\ DOMAIN t = 1..Len(t) /\ DOMAIN u = 1..(Len(t) + 1)
        /\ \A n \in 1..Len(t) : u[n] = t[n]
        /\ u[Len(t) + 1] = d
    BY Pushed
  <1> HIDE DEF u
  <1>2. \A n \in DOMAIN u : (n \in DOMAIN t /\ u[n] = t[n]) \/ u[n] = d
    BY <1>1
  <1>3. \A n \in DOMAIN t : n \in DOMAIN u /\ u[n] = t[n]
    BY <1>1
  <1>4. Len(t) + 1 \in DOMAIN u
    BY <1>1
  <1>5. EventsOf(u) = EventsOf(t) \cup {d.ev}
    BY <1>1, <1>2, <1>3, <1>4 DEF EventsOf
  <1> QED BY <1>5 DEF u

LEMMA EventsOfChanged ==
    ASSUME NEW t \in Seq(Deliveries), NEW n \in DOMAIN t, NEW st \in States
    PROVE  EventsOf([t EXCEPT ![n].st = st]) = EventsOf(t)
  <1> DEFINE u == [t EXCEPT ![n].st = st]
  <1>1. DOMAIN u = DOMAIN t /\ \A m \in DOMAIN t : u[m].ev = t[m].ev
    BY Changed
  <1> HIDE DEF u
  <1>2. EventsOf(u) = EventsOf(t)
    BY <1>1 DEF EventsOf
  <1> QED BY <1>2 DEF u

LEMMA EventsOfRemoved ==
    ASSUME NEW t \in Seq(Deliveries), NEW n \in DOMAIN t
    PROVE  /\ EventsOf(t) = EventsOf(Without(t, n)) \cup {t[n].ev}
           /\ \A m \in DOMAIN Without(t, n) : \E k \in DOMAIN t : Without(t, n)[m] = t[k]
  <1> DEFINE u == Without(t, n)
  <1>1. /\ Len(t) \in Nat /\ DOMAIN t = 1..Len(t) /\ n \in 1..Len(t)
        /\ DOMAIN u = 1..(Len(t) - 1)
        /\ \A m \in 1..(Len(t) - 1) : u[m] = IF m < n THEN t[m] ELSE t[m + 1]
    BY Removed
  <1> HIDE DEF u
  <1>2. ASSUME NEW m \in DOMAIN u PROVE \E k \in DOMAIN t : u[m] = t[k]
    <2>1. CASE m < n BY <1>1, <2>1
    <2>2. CASE ~(m < n)
      <3>1. m + 1 \in DOMAIN t /\ u[m] = t[m + 1] BY <1>1, <2>2
      <3> QED BY <3>1
    <2> QED BY <2>1, <2>2
  <1>3. ASSUME NEW k \in DOMAIN t, k # n PROVE \E m \in DOMAIN u : u[m] = t[k]
    <2>1. CASE k < n
      <3>1. k \in DOMAIN u /\ u[k] = t[k] BY <1>1, <2>1
      <3> QED BY <3>1
    <2>2. CASE k > n
      <3>1. k - 1 \in DOMAIN u /\ u[k - 1] = t[(k - 1) + 1] /\ (k - 1) + 1 = k BY <1>1, <2>2
      <3> QED BY <3>1
    <2> QED BY <1>1, <1>3, <2>1, <2>2
  <1>4. EventsOf(t) = EventsOf(u) \cup {t[n].ev}
    <2>1. EventsOf(t) \subseteq EventsOf(u) \cup {t[n].ev}
      BY <1>3 DEF EventsOf
    <2>2. EventsOf(u) \cup {t[n].ev} \subseteq EventsOf(t)
      BY <1>2 DEF EventsOf
    <2> QED BY <2>1, <2>2
  <1> QED BY <1>2, <1>4 DEF u

(* Which ids are live after a step. *)
LEMMA LiveStep ==
    ASSUME SubscriptionAssumption, SubscriptionTypeOK, [SubscriptionNext]_subscriptionVars
    PROVE  \/ Live' \subseteq Live
           \/ /\ \E k \in Keys, max \in Limits : Subscribe(k, max)
              /\ nextId \in Ids /\ nextId' = nextId + 1
              /\ Live' \subseteq Live \cup {nextId}
  <1> USE DEF SubscriptionTypeOK, SubsTyped
  <1>1. ASSUME NEW k \in Keys, NEW max \in Limits, Subscribe(k, max)
        PROVE  \/ Live' \subseteq Live
               \/ /\ nextId \in Ids /\ nextId' = nextId + 1
                  /\ Live' \subseteq Live \cup {nextId}
    <2>1. CASE Existing(k) # {}
      BY <1>1, <2>1 DEF Subscribe, Existing, Live
    <2>2. CASE Existing(k) = {}
      BY <1>1, <2>2 DEF Subscribe, Live
    <2> QED BY <2>1, <2>2
  <1>2. ASSUME NEW i \in Ids, Unsubscribe(i) \/ WorkerTerminates(i) PROVE Live' \subseteq Live
    BY <1>2 DEF Unsubscribe, WorkerTerminates, Live
  <1>3. ASSUME NEW i \in Ids, DurationElapses(i) \/ MinutePasses(i) PROVE Live' \subseteq Live
    BY <1>3 DEF DurationElapses, MinutePasses, Live
  <1>4. ASSUME NEW i \in Ids, NEW n, DeliveryStarts(i, n) PROVE Live' \subseteq Live
    BY <1>4 DEF DeliveryStarts, Live
  <1>5. UNCHANGED entry => Live' \subseteq Live
    BY DEF Live
  <1>6. ASSUME NEW i \in Ids, WorkerStep(i) \/ DeliveryStep(i) PROVE Live' \subseteq Live
    <2>1. CASE WorkerStep(i)
      BY <1>2, <1>5, <2>1 DEF WorkerStep, WorkerSkips, WorkerDispatches, WorkerResumes, WorkerDrained, subs
    <2>2. CASE DeliveryStep(i)
      <3>1. (\E n : DeliveryStarts(i, n)) \/ UNCHANGED entry
        BY <2>2 DEF DeliveryStep, LinkMade, LinkDrops, Connects, DialFails, DeliverySends,
                    DeliveryEnds, subs
      <3> QED BY <1>4, <1>5, <3>1
    <2> QED BY <1>6, <2>1, <2>2
  <1>7. CASE Environment
    BY <1>1, <1>2, <1>3, <1>5, <1>7 DEF Environment, TokenExpires, TreeChange, subs
  <1> QED BY <1>5, <1>6, <1>7 DEF SubscriptionNext, FanOut, subscriptionVars, subs

(* An id that was not handed out has nothing. *)
LEMMA IdsStep ==
    ASSUME SubscriptionAssumption, SubscriptionTypeOK, IdsInTurn, [SubscriptionNext]_subscriptionVars
    PROVE  IdsInTurn'
  <1> DEFINE Blank(j) == /\ queue[j] = <<>> /\ deliveries[j] = <<>> /\ wire[j] = <<>> /\ held[j] = 0
                         /\ out[j] = <<>>
                         /\ fanned[j] = {} /\ dropped[j] = {} /\ refused[j] = {}
                         /\ worker[j] = "none"
             Works(j) == worker[j] \in {"none", "loop", "sem"}
  <1>1. \A j \in Ids : (j \in Live => j < nextId /\ Works(j)) /\ (j >= nextId => Blank(j))
    BY DEF IdsInTurn
  <1>2. nextId \in Nat /\ \A j \in Ids : j \in Nat
    BY DEF SubscriptionTypeOK, SubsTyped, Ids, SubscriptionAssumption
  <1>3. SUFFICES ASSUME NEW j \in Ids
                 PROVE  /\ j \in Live' => j < nextId' /\ Works(j)'
                        /\ j >= nextId' => Blank(j)'
    BY DEF IdsInTurn
  <1>4. CASE UNCHANGED <<worker, queue, held, deliveries, out, wire, fanned, dropped, refused>>
             /\ Live' \subseteq Live /\ nextId' = nextId
    BY <1>1, <1>4
  <1>5. ASSUME NEW k \in Keys, NEW max \in Limits, Subscribe(k, max)
        PROVE  /\ j \in Live' => j < nextId' /\ Works(j)'
               /\ j >= nextId' => Blank(j)'
    <2>1. UNCHANGED <<worker, queue, held, deliveries, out, wire, fanned, dropped, refused>>
      BY <1>5 DEF Subscribe, lines
    <2>2. nextId' = nextId \/ nextId' = nextId + 1
      BY <1>5 DEF Subscribe
    <2>3. \/ Live' \subseteq Live
          \/ nextId \in Ids /\ nextId' = nextId + 1 /\ Live' \subseteq Live \cup {nextId}
      BY <1>5, LiveStep
    <2>4. j \in Live' => j \in Live \/ (j = nextId /\ nextId' = nextId + 1)
      BY <2>3
    <2>5. j \in Live' => j < nextId' /\ Works(j)
      BY <1>1, <1>2, <2>2, <2>4
    <2>6. j >= nextId' => Blank(j)
      BY <1>1, <1>2, <2>2
    <2> QED BY <2>1, <2>5, <2>6
  <1>6. CASE ~\E k \in Keys, max \in Limits : Subscribe(k, max)
    <2>1. Live' \subseteq Live
      BY <1>6, LiveStep
    <2>2. CASE FanOut
      <3>1. nextId' = nextId /\ held' = held /\ deliveries' = deliveries /\ out' = out
            /\ wire' = wire /\ refused' = refused
            /\ worker'[j] = (IF j \in Live /\ worker[j] = "none" THEN "loop" ELSE worker[j])
        BY <2>2 DEF FanOut, subs, lines
      <3>2. j \notin Live => /\ queue'[j] = queue[j] /\ dropped'[j] = dropped[j]
                             /\ fanned'[j] = fanned[j] /\ worker'[j] = worker[j]
        BY <2>2 DEF FanOut
      <3>3. j >= nextId => j \notin Live
        BY <1>1, <1>2
      <3> QED BY <1>1, <2>1, <3>1, <3>2, <3>3
    <2>3. ASSUME NEW i \in Ids, Unsubscribe(i) \/ WorkerStep(i) \/ DeliveryStep(i),
                 ~LinkMade(i), ~LinkDrops(i)
          PROVE  /\ j \in Live' => j < nextId' /\ Works(j)'
                 /\ j >= nextId' => Blank(j)'
      <3>1. Others(i) /\ nextId' = nextId
        BY <2>3, OnlyOne
      <3>2. CASE j # i
        BY <1>1, <2>1, <3>1, <3>2 DEF Others
      <3>3. i \in Live \/ ~Blank(i)
        <4>1. Unsubscribe(i) => i \in Live
          BY DEF Unsubscribe
        <4>2. WorkerStep(i) => worker[i] # "none"
          BY DEF WorkerStep, WorkerTerminates, WorkerSkips, WorkerDispatches, Takes,
                 WorkerResumes, WorkerDrained
        <4>3. DeliveryStep(i) => \E n : n \in DOMAIN deliveries[i]
          BY <2>3 DEF DeliveryStep, DeliveryStarts, Connects, DialFails, HasPool, IsFirst,
                      DeliverySends, DeliveryEnds
        <4>4. DOMAIN <<>> = {}
          OBVIOUS
        <4>5. DeliveryStep(i) => deliveries[i] # <<>>
          BY <4>3, <4>4
        <4> QED BY <2>3, <4>1, <4>2, <4>5
      <3>4. i < nextId
        BY <1>1, <1>2, <3>3
      <3>5. i \in Live' => Works(i)'
        <4> USE DEF SubscriptionTypeOK, PipelineTyped, SubsTyped
        <4>1. CASE Unsubscribe(i) \/ WorkerTerminates(i)
          BY <4>1 DEF Unsubscribe, WorkerTerminates, Live
        <4>2. CASE WorkerDispatches(i)
          BY <1>1, <2>1, <4>2 DEF WorkerDispatches, Hold
        <4>3. CASE WorkerResumes(i)
          BY <4>3 DEF WorkerResumes
        <4>4. CASE WorkerDrained(i)
          BY <1>1, <2>1, <4>4 DEF WorkerDrained
        <4>5. CASE worker' = worker
          BY <1>1, <2>1, <4>5
        <4> QED BY <2>3, <4>1, <4>2, <4>3, <4>4, <4>5 DEF WorkerStep, DeliveryStep, WorkerSkips,
               DeliveryStarts, Connects, DialFails, DeliverySends, DeliveryEnds
      <3>6. CASE j = i
        BY <1>2, <3>1, <3>4, <3>5, <3>6
      <3> QED BY <3>2, <3>6
    <2>5. ASSUME NEW i \in Ids, LinkMade(i)
          PROVE  /\ j \in Live' => j < nextId' /\ Works(j)'
                 /\ j >= nextId' => Blank(j)'
      BY <1>4, <2>1, <2>5 DEF LinkMade, subs
    <2>6. ASSUME NEW i \in Ids, LinkDrops(i)
          PROVE  /\ j \in Live' => j < nextId' /\ Works(j)'
                 /\ j >= nextId' => Blank(j)'
      <3>1. Others(i)
        BY <2>6, OnlyOne DEF DeliveryStep
      <3>2. /\ nextId' = nextId /\ worker' = worker /\ queue' = queue /\ held' = held /\ wire' = wire
            /\ fanned' = fanned /\ dropped' = dropped
        BY <2>6 DEF LinkDrops, subs
      <3>3. ASSUME Blank(i) PROVE deliveries'[i] = <<>> /\ out'[i] = <<>> /\ refused'[i] = {}
        <4>1. /\ deliveries'[i] = Cut(deliveries[i]) /\ out'[i] = <<>>
              /\ refused'[i] = refused[i]
                     \cup {d.ev : d \in {deliveries[i][n] : n \in {m \in DOMAIN deliveries[i] :
                                                                deliveries[i][m].st = "out"}}}
          BY <2>6 DEF LinkDrops, SubscriptionTypeOK, PipelineTyped
        <4>2. DOMAIN deliveries[i] = {}
          BY <3>3
        <4>3. deliveries[i] \in Seq(Deliveries) /\ Len(deliveries[i]) = 0
          BY <3>3, EmptySeq DEF SubscriptionTypeOK, PipelineTyped
        <4>4. Cut(deliveries[i]) = <<>>
          <5>1. Cut(deliveries[i]) \in Seq(Deliveries) /\ Len(Cut(deliveries[i])) = 0
            BY <4>3, CutTyped
          <5> QED BY <5>1, EmptySeq
        <4> QED BY <3>3, <4>1, <4>2, <4>4
      <3>4. CASE j = i
        BY <1>1, <2>1, <3>2, <3>3, <3>4
      <3>5. CASE j # i
        BY <1>1, <2>1, <3>1, <3>2, <3>5 DEF Others
      <3> QED BY <3>4, <3>5
    <2>4. CASE Environment
      BY <1>4, <1>6, <2>1, <2>3, <2>4 DEF Environment, LinkMade, LinkDrops, Unsubscribe, DurationElapses,
                                          TokenExpires, MinutePasses, TreeChange, subs, lines
    <2> QED BY <1>4, <2>1, <2>2, <2>3, <2>4, <2>5, <2>6 DEF SubscriptionNext, subscriptionVars, subs, lines
  <1> QED BY <1>5, <1>6

(* OverIsKnown and NothingVanishes for one subscription: a task that is    *)
(* over is known by its fate, and what was fanned out is in one of the     *)
(* parts.                                                                  *)
Known(w, t, R) ==
    \A n \in DOMAIN t : /\ t[n].st = "sent" => t[n].ev \in EventsOf(w)
                        /\ t[n].st = "failed" => t[n].ev \in R

Parts(w, t, h, q, R, D) ==
    Events(q) \cup EventsOf(t) \cup (IF h = 0 THEN {} ELSE {h}) \cup EventsOf(w) \cup R \cup D

BooksAt(i) ==
    /\ Known(wire[i], deliveries[i], refused[i])
    /\ i \in Live => fanned[i] = Parts(wire[i], deliveries[i], held[i], queue[i], refused[i], dropped[i])

Books == \A i \in Ids : BooksAt(i)

LEMMA BooksKept ==
    ASSUME NEW i \in Ids, BooksAt(i), i \in Live' => i \in Live,
           queue'[i] = queue[i], held'[i] = held[i], deliveries'[i] = deliveries[i], wire'[i] = wire[i],
           fanned'[i] = fanned[i], dropped'[i] = dropped[i], refused'[i] = refused[i]
    PROVE  BooksAt(i)'
  BY DEF BooksAt

LEMMA BooksFanOut ==
    ASSUME SubscriptionTypeOK, Books, FanOut, NEW i \in Ids, i \in Live' => i \in Live
    PROVE  BooksAt(i)'
  <1>1. queue[i] \in Seq(Nat) /\ Head(fan) \in Nat
    BY Popped DEF FanOut, SubscriptionTypeOK, PipelineTyped
  <1>2. /\ held' = held /\ deliveries' = deliveries /\ wire' = wire /\ refused' = refused
    BY DEF FanOut, lines
  <1>3. CASE i \in Live
    <2>1. fanned'[i] = fanned[i] \cup {Head(fan)}
      BY <1>3 DEF FanOut
    <2>2. CASE Full(i)
      <3>1. queue'[i] = queue[i] /\ dropped'[i] = dropped[i] \cup {Head(fan)}
        BY <1>3, <2>2 DEF FanOut
      <3> QED BY <1>2, <1>3, <2>1, <3>1 DEF Books, BooksAt, Parts
    <2>3. CASE ~Full(i)
      <3>1. queue'[i] = Append(queue[i], Head(fan)) /\ dropped'[i] = dropped[i]
        BY <1>3, <2>3 DEF FanOut
      <3>2. Events(queue'[i]) = Events(queue[i]) \cup {Head(fan)}
        BY <1>1, <3>1, EventsPushed
      <3> QED BY <1>2, <1>3, <2>1, <3>1, <3>2 DEF Books, BooksAt, Parts
    <2> QED BY <2>2, <2>3
  <1>4. CASE i \notin Live
    BY <1>2, <1>4 DEF Books, BooksAt
  <1> QED BY <1>3, <1>4

(* A task that was just created has no fate yet. *)
LEMMA BooksSpawn ==
    ASSUME NEW i \in Ids, SubscriptionTypeOK, NEW ev \in Nat, Known(wire[i], deliveries[i], refused[i])
    PROVE  /\ Known(wire[i], Spawned(i, ev), refused[i])
           /\ EventsOf(Spawned(i, ev)) = EventsOf(deliveries[i]) \cup {ev}
  <1> DEFINE t == deliveries[i]
             d == [ev |-> ev, gen |-> gen[i], st |-> "created"]
             u == Append(t, d)
  <1>1. t \in Seq(Deliveries) /\ d \in Deliveries
    BY DEF SubscriptionTypeOK, PipelineTyped, SubsTyped, Deliveries
  <1>2. d.ev = ev /\ d.st = "created"
    OBVIOUS
  <1> HIDE DEF d
  <1>3. EventsOf(u) = EventsOf(t) \cup {ev}
    BY <1>1, <1>2, EventsOfPushed
  <1>4. \A n \in DOMAIN u : (n \in DOMAIN t /\ u[n] = t[n]) \/ u[n] = d
    BY <1>1, Pushed
  <1>5. u = Spawned(i, ev)
    BY DEF Spawned, d
  <1> HIDE DEF u
  <1>6. Known(wire[i], u, refused[i])
    BY <1>2, <1>4 DEF Known
  <1> QED BY <1>3, <1>5, <1>6

LEMMA BooksWorker ==
    ASSUME SubscriptionTypeOK, OneLine, Books, NEW i \in Ids, WorkerStep(i) \/ Unsubscribe(i),
           i \in Live' => i \in Live
    PROVE  BooksAt(i)'
  <1>1. /\ queue[i] \in Seq(Nat) /\ held[i] \in Nat /\ deliveries[i] \in Seq(Deliveries)
        /\ Known(wire[i], deliveries[i], refused[i]) /\ (worker[i] = "sem" <=> held[i] # 0)
    BY DEF SubscriptionTypeOK, PipelineTyped, Books, BooksAt, OneLine, LineAt
  <1>2. fanned' = fanned /\ dropped' = dropped
    BY OnlyOne
  <1>3. CASE Unsubscribe(i)
    <2>1. i \notin Live' /\ deliveries' = deliveries /\ wire' = wire /\ refused' = refused
      BY <1>3 DEF lines, Unsubscribe, Live, SubscriptionTypeOK, SubsTyped
    <2> QED BY <1>1, <2>1 DEF BooksAt
  <1>4. CASE WorkerTerminates(i)
    <2>1. i \notin Live' /\ deliveries'[i] = <<>> /\ wire' = wire /\ refused' = refused
      BY <1>4 DEF WorkerTerminates, Live, SubscriptionTypeOK, SubsTyped, PipelineTyped
    <2> QED BY <2>1 DEF BooksAt, Known
  <1>5. ASSUME WorkerSkips(i) \/ WorkerDispatches(i)
        PROVE  /\ worker[i] = "loop" /\ held[i] = 0 /\ i \in Live
               /\ queue'[i] = Tail(queue[i]) /\ Head(queue[i]) \in Nat
               /\ Events(queue[i]) = Events(queue'[i]) \cup {Head(queue[i])}
    <2>1. worker[i] = "loop" /\ queue[i] # <<>> /\ i \in Live /\ queue'[i] = Tail(queue[i])
      BY <1>5 DEF WorkerSkips, WorkerDispatches, Takes, SubscriptionTypeOK, PipelineTyped
    <2> QED BY <1>1, <2>1, EventsPopped, Popped
  <1>6. CASE WorkerSkips(i)
    <2>1. /\ refused'[i] = refused[i] \cup {Head(queue[i])}
          /\ held' = held /\ deliveries' = deliveries /\ wire' = wire
      BY <1>6 DEF lines, WorkerSkips, SubscriptionTypeOK, PipelineTyped
    <2>2. Known(wire'[i], deliveries'[i], refused'[i])
      BY <1>1, <2>1 DEF Known
    <2> QED BY <1>2, <1>5, <1>6, <2>1, <2>2 DEF Books, BooksAt, Parts
  <1>7. CASE WorkerDispatches(i)
    <2>1. wire' = wire /\ refused' = refused
      BY <1>7 DEF WorkerDispatches
    <2>2. CASE Permitted(i)
      <3>1. deliveries'[i] = Spawned(i, Head(queue[i])) /\ held' = held
        BY <1>7, <2>2 DEF WorkerDispatches, SubscriptionTypeOK, PipelineTyped
      <3>2. /\ Known(wire[i], deliveries'[i], refused[i])
            /\ EventsOf(deliveries'[i]) = EventsOf(deliveries[i]) \cup {Head(queue[i])}
        BY <1>1, <1>5, <1>7, <3>1, BooksSpawn
      <3> QED BY <1>2, <1>5, <1>7, <2>1, <3>1, <3>2 DEF Books, BooksAt, Parts
    <2>3. CASE ~Permitted(i)
      <3>1. worker'[i] = "sem" /\ deliveries' = deliveries /\ held'[i] = Head(queue[i])
        BY <1>7, <2>3 DEF WorkerDispatches, Hold, SubscriptionTypeOK, PipelineTyped
      <3>2. held'[i] # 0
        <4>1. LineAt(i)' BY LineWorker
        <4> QED BY <3>1, <4>1 DEF LineAt
      <3> QED BY <1>2, <1>5, <1>7, <2>1, <3>1, <3>2 DEF Books, BooksAt, Parts
    <2> QED BY <2>2, <2>3
  <1>8. CASE WorkerResumes(i)
    <2>1. /\ worker[i] = "sem" /\ held'[i] = 0 /\ deliveries'[i] = Spawned(i, held[i])
          /\ queue' = queue /\ wire' = wire /\ refused' = refused
      BY <1>8 DEF WorkerResumes, SubscriptionTypeOK, PipelineTyped
    <2>2. /\ Known(wire[i], deliveries'[i], refused[i])
          /\ EventsOf(deliveries'[i]) = EventsOf(deliveries[i]) \cup {held[i]}
      BY <1>1, <2>1, BooksSpawn
    <2>3. held[i] # 0
      BY <1>1, <2>1
    <2> QED BY <1>2, <2>1, <2>2, <2>3 DEF Books, BooksAt, Parts
  <1>9. CASE WorkerDrained(i)
    BY <1>9, BooksKept DEF lines, WorkerDrained, Books
  <1> QED BY <1>3, <1>4, <1>6, <1>7, <1>8, <1>9 DEF WorkerStep

LEMMA BooksDelivery ==
    ASSUME SubscriptionTypeOK, Books, NEW i \in Ids, DeliveryStep(i), i \in Live' => i \in Live
    PROVE  BooksAt(i)'
  <1> DEFINE w == wire[i]
             t == deliveries[i]
             R == refused[i]
  <1>1. /\ t \in Seq(Deliveries) /\ w \in Seq(Messages)
        /\ Known(w, t, R)
        /\ i \in Live => fanned[i] = Parts(w, t, held[i], queue[i], R, dropped[i])
    BY DEF SubscriptionTypeOK, PipelineTyped, Books, BooksAt
  <1>2. queue' = queue /\ held' = held /\ fanned' = fanned /\ dropped' = dropped
    BY DEF DeliveryStep, LinkMade, LinkDrops, DeliveryStarts, Connects, DialFails,
           DeliverySends, DeliveryEnds
  <1>3. ASSUME NEW n \in DOMAIN t, NEW st \in States, deliveries'[i] = [t EXCEPT ![n].st = st]
        PROVE  /\ EventsOf(deliveries'[i]) = EventsOf(t)
               /\ DOMAIN deliveries'[i] = DOMAIN t
               /\ \A m \in DOMAIN t : /\ deliveries'[i][m].ev = t[m].ev
                                      /\ deliveries'[i][m].st = IF m = n THEN st ELSE t[m].st
    <2>1. EventsOf(deliveries'[i]) = EventsOf(t)
      BY <1>1, <1>3, EventsOfChanged
    <2> DEFINE u == [t EXCEPT ![n].st = st]
    <2>2. /\ DOMAIN u = DOMAIN t
          /\ \A m \in DOMAIN t : u[m].ev = t[m].ev /\ u[m].st = IF m = n THEN st ELSE t[m].st
      BY <1>1, Changed
    <2>3. deliveries'[i] = u
      BY <1>3
    <2> HIDE DEF u
    <2> QED BY <2>1, <2>2, <2>3
  <1>4. ASSUME NEW n \in DOMAIN t, NEW st \in {"pool", "out"}, deliveries'[i] = [t EXCEPT ![n].st = st],
               wire' = wire, refused' = refused
        PROVE  BooksAt(i)'
    <2>1. /\ EventsOf(deliveries'[i]) = EventsOf(t) /\ DOMAIN deliveries'[i] = DOMAIN t
          /\ \A m \in DOMAIN t : /\ deliveries'[i][m].ev = t[m].ev
                                 /\ deliveries'[i][m].st = IF m = n THEN st ELSE t[m].st
      <3>1. st \in States /\ deliveries'[i] = [t EXCEPT ![n].st = st]
        BY <1>4 DEF States
      <3> HIDE DEF t
      <3> QED BY <1>3, <3>1
    <2>2. Known(w, deliveries'[i], R)
      BY <1>1, <2>1 DEF Known
    <2> QED BY <1>1, <1>2, <1>4, <2>1, <2>2 DEF BooksAt, Parts
  <1>5. ASSUME NEW n, DeliveryStarts(i, n) \/ Connects(i, n) PROVE BooksAt(i)'
    <2>1. n \in DOMAIN t /\ wire' = wire /\ refused' = refused
      BY <1>5 DEF DeliveryStarts, Connects, HasPool, IsFirst
    <2>2. deliveries'[i] = [t EXCEPT ![n].st = "pool"] \/ deliveries'[i] = [t EXCEPT ![n].st = "out"]
      <3>1. CASE DeliveryStarts(i, n) /\ ~link[i]
        BY <3>1 DEF DeliveryStarts, SubscriptionTypeOK, PipelineTyped
      <3>2. CASE ToWriteLock(i, n, FALSE) \/ ToWriteLock(i, n, TRUE)
        BY <3>2 DEF ToWriteLock, SubscriptionTypeOK, PipelineTyped
      <3> QED BY <1>5, <3>1, <3>2 DEF DeliveryStarts, Connects
    <2> QED BY <1>4, <2>1, <2>2
  <1>6. ASSUME NEW n, DeliverySends(i, n) PROVE BooksAt(i)'
    <2> DEFINE msg == Head(out[i])
    <2>1. /\ n \in DOMAIN t /\ deliveries'[i] = [t EXCEPT ![n].st = "sent"]
          /\ wire'[i] = Append(w, msg) /\ refused' = refused
          /\ msg.ev = t[n].ev /\ out[i] # <<>>
      BY <1>6 DEF DeliverySends, SubscriptionTypeOK, PipelineTyped
    <2>2. /\ EventsOf(deliveries'[i]) = EventsOf(t) /\ DOMAIN deliveries'[i] = DOMAIN t
          /\ \A m \in DOMAIN t : /\ deliveries'[i][m].ev = t[m].ev
                                 /\ deliveries'[i][m].st = IF m = n THEN "sent" ELSE t[m].st
      BY <1>3, <2>1 DEF States
    <2>3. msg \in Messages
      <3>1. out[i] \in Seq(Messages) BY DEF SubscriptionTypeOK, PipelineTyped
      <3> QED BY <2>1, <3>1, Popped
    <2> HIDE DEF msg
    <2>4. EventsOf(wire'[i]) = EventsOf(w) \cup {t[n].ev}
      BY <1>1, <2>1, <2>3, EventsOfPushed
    <2>5. t[n].ev \in EventsOf(t)
      BY <2>1 DEF EventsOf
    <2>6. Known(wire'[i], deliveries'[i], R)
      BY <1>1, <2>2, <2>4 DEF Known
    <2>7. Parts(wire'[i], deliveries'[i], held[i], queue[i], R, dropped[i])
              = Parts(w, t, held[i], queue[i], R, dropped[i])
      BY <2>2, <2>4, <2>5 DEF Parts
    <2> QED BY <1>1, <1>2, <2>1, <2>6, <2>7 DEF BooksAt
  <1>7. ASSUME NEW X \in SUBSET EventsOf(t), wire' = wire, refused'[i] = R \cup X,
               EventsOf(deliveries'[i]) = EventsOf(t), DOMAIN deliveries'[i] = DOMAIN t,
               \A m \in DOMAIN t :
                  /\ deliveries'[i][m].ev = t[m].ev
                  /\ deliveries'[i][m].st # t[m].st => deliveries'[i][m].st = "failed" /\ t[m].ev \in X
        PROVE  BooksAt(i)'
    <2>1. Known(w, deliveries'[i], refused'[i])
      <3> SUFFICES ASSUME NEW m \in DOMAIN t
                   PROVE  /\ deliveries'[i][m].st = "sent" => deliveries'[i][m].ev \in EventsOf(w)
                          /\ deliveries'[i][m].st = "failed" => deliveries'[i][m].ev \in refused'[i]
        BY <1>7 DEF Known
      <3>1. CASE deliveries'[i][m].st = t[m].st
        BY <1>1, <1>7, <3>1 DEF Known
      <3>2. CASE deliveries'[i][m].st # t[m].st
        BY <1>7, <3>2
      <3> QED BY <3>1, <3>2
    <2>2. Parts(w, deliveries'[i], held[i], queue[i], refused'[i], dropped[i])
              = Parts(w, t, held[i], queue[i], R, dropped[i])
      BY <1>7 DEF Parts
    <2> QED BY <1>1, <1>2, <1>7, <2>1, <2>2 DEF BooksAt
  <1>8. ASSUME NEW n, DialFails(i, n) PROVE BooksAt(i)'
    <2>1. /\ n \in DOMAIN t /\ deliveries'[i] = [t EXCEPT ![n].st = "failed"]
          /\ wire' = wire /\ refused'[i] = R \cup {t[n].ev}
      BY <1>8 DEF DialFails, HasPool, IsFirst, SubscriptionTypeOK, PipelineTyped
    <2>2. /\ EventsOf(deliveries'[i]) = EventsOf(t) /\ DOMAIN deliveries'[i] = DOMAIN t
          /\ \A m \in DOMAIN t : /\ deliveries'[i][m].ev = t[m].ev
                                 /\ deliveries'[i][m].st = IF m = n THEN "failed" ELSE t[m].st
      BY <1>3, <2>1 DEF States
    <2>3. {t[n].ev} \in SUBSET EventsOf(t)
      BY <2>1 DEF EventsOf
    <2> QED BY <1>7, <2>1, <2>2, <2>3
  <1>9. CASE LinkDrops(i)
    <2> DEFINE X == {d.ev : d \in {t[n] : n \in {m \in DOMAIN t : t[m].st = "out"}}}
    <2>1. deliveries'[i] = Cut(t) /\ wire' = wire /\ refused'[i] = R \cup X
      BY <1>9 DEF LinkDrops, SubscriptionTypeOK, PipelineTyped
    <2>2. /\ DOMAIN Cut(t) = DOMAIN t
          /\ \A m \in DOMAIN t : /\ Cut(t)[m].ev = t[m].ev
                                 /\ Cut(t)[m].st = IF t[m].st = "out" THEN "failed" ELSE t[m].st
      BY <1>1, CutTyped
    <2>3. EventsOf(Cut(t)) = EventsOf(t)
      BY <2>2 DEF EventsOf
    <2>4. X \in SUBSET EventsOf(t)
      BY DEF EventsOf
    <2>5. \A m \in DOMAIN t : t[m].st = "out" => t[m].ev \in X
      OBVIOUS
    <2> HIDE DEF X
    <2> QED BY <1>7, <2>1, <2>2, <2>3, <2>4, <2>5
  <1>10. CASE LinkMade(i)
    BY <1>10, BooksKept DEF LinkMade, Books
  <1>11. ASSUME NEW n, DeliveryEnds(i, n) PROVE BooksAt(i)'
    <2>1. /\ n \in DOMAIN t /\ deliveries'[i] = Without(t, n)
          /\ wire' = wire /\ refused' = refused
          /\ t[n].st \in {"sent", "failed"}
      BY <1>11 DEF DeliveryEnds, Over, SubscriptionTypeOK, PipelineTyped
    <2>2. /\ EventsOf(t) = EventsOf(deliveries'[i]) \cup {t[n].ev}
          /\ \A m \in DOMAIN deliveries'[i] : \E k \in DOMAIN t : deliveries'[i][m] = t[k]
      BY <1>1, <2>1, EventsOfRemoved
    <2>3. t[n].ev \in EventsOf(w) \cup R
      BY <1>1, <2>1 DEF Known
    <2>4. Known(w, deliveries'[i], R)
      BY <1>1, <2>2 DEF Known
    <2>5. Parts(w, deliveries'[i], held[i], queue[i], R, dropped[i])
              = Parts(w, t, held[i], queue[i], R, dropped[i])
      BY <2>2, <2>3 DEF Parts
    <2> QED BY <1>1, <1>2, <2>1, <2>4, <2>5 DEF BooksAt
  <1> QED BY <1>5, <1>6, <1>8, <1>9, <1>10, <1>11 DEF DeliveryStep

LEMMA BooksStep ==
    ASSUME SubscriptionAssumption, SubscriptionTypeOK, OneLine, IdsInTurn, Books, [SubscriptionNext]_subscriptionVars
    PROVE  Books'
  <1> SUFFICES ASSUME NEW j \in Ids PROVE BooksAt(j)'
    BY DEF Books
  <1>1. BooksAt(j)
    BY DEF Books
  <1>2. ASSUME NEW k \in Keys, NEW max \in Limits, Subscribe(k, max) PROVE BooksAt(j)'
    <2>1. UNCHANGED <<queue, held, deliveries, wire, fanned, dropped, refused>>
      BY <1>2 DEF Subscribe, lines
    <2>2. CASE j \in Live' => j \in Live
      BY <1>1, <2>1, <2>2, BooksKept
    <2>3. CASE j = nextId
      <3>1. /\ queue[j] = <<>> /\ deliveries[j] = <<>> /\ wire[j] = <<>> /\ held[j] = 0
            /\ fanned[j] = {} /\ dropped[j] = {} /\ refused[j] = {}
        BY <2>3 DEF IdsInTurn, SubscriptionTypeOK, SubsTyped, Ids, SubscriptionAssumption
      <3>2. Events(<<>>) = {} /\ EventsOf(<<>>) = {}
        BY DEF Events, EventsOf
      <3>3. fanned[j] = Parts(wire[j], deliveries[j], held[j], queue[j], refused[j], dropped[j])
        BY <3>1, <3>2 DEF Parts
      <3> QED BY <1>1, <2>1, <3>3 DEF BooksAt
    <2> QED BY <1>2, <2>2, <2>3, LiveStep
  <1>3. CASE ~\E k \in Keys, max \in Limits : Subscribe(k, max)
    <2>1. j \in Live' => j \in Live
      BY <1>3, LiveStep
    <2>2. CASE UNCHANGED <<queue, held, deliveries, wire, fanned, dropped, refused>>
      BY <1>1, <2>1, <2>2, BooksKept
    <2>3. CASE FanOut
      BY <2>1, <2>3, BooksFanOut
    <2>4. ASSUME NEW i \in Ids, Unsubscribe(i) \/ WorkerStep(i) \/ DeliveryStep(i)
          PROVE  BooksAt(j)'
      <3>1. CASE i = j
        BY <2>1, <2>4, <3>1, BooksWorker, BooksDelivery
      <3>2. CASE i # j
        BY <1>1, <2>1, <2>4, <3>2, OnlyOne, BooksKept DEF Others
      <3> QED BY <3>1, <3>2
    <2>5. CASE Environment
      BY <1>3, <2>2, <2>4, <2>5 DEF Environment, DurationElapses, TokenExpires, MinutePasses, TreeChange, lines
    <2> QED BY <2>2, <2>3, <2>4, <2>5 DEF SubscriptionNext, subscriptionVars, lines
  <1> QED BY <1>2, <1>3

LEMMA BooksInit ==
    ASSUME SubscriptionAssumption, SubscriptionInit
    PROVE  IdsInTurn /\ Books
  <1>1. Live = {}
    BY DEF SubscriptionInit, Live
  <1>2. IdsInTurn
    BY <1>1 DEF SubscriptionInit, IdsInTurn
  <1>3. Books
    BY <1>1 DEF SubscriptionInit, Books, BooksAt, Known
  <1> QED BY <1>2, <1>3

(* Every event fanned out to a live subscription is queued, held, in a     *)
(* delivery, written, refused or counted as dropped: no interleaving of    *)
(* the worker, its deliveries, renewals and failures loses one unseen.     *)
THEOREM AccountsCorrect ==
    ASSUME SubscriptionAssumption
    PROVE  SubscriptionSpec => [](NothingVanishes /\ OverIsKnown)
  <1> DEFINE Inv == SubscriptionTypeOK /\ OneLine /\ IdsInTurn /\ Books
  <1>1. SubscriptionInit => Inv
    BY TypeInit, LineInit, BooksInit
  <1>2. Inv /\ [SubscriptionNext]_subscriptionVars => Inv'
    <2> SUFFICES ASSUME Inv, [SubscriptionNext]_subscriptionVars PROVE Inv'
      OBVIOUS
    <2>1. SubscriptionTypeOK' BY SubsStep, PipelineStep DEF SubscriptionTypeOK
    <2>2. OneLine' BY LineStep
    <2>3. IdsInTurn' BY IdsStep
    <2>4. Books' BY BooksStep
    <2> QED BY <2>1, <2>2, <2>3, <2>4
  <1>3. Inv => NothingVanishes /\ OverIsKnown
    <2> SUFFICES ASSUME Books PROVE NothingVanishes /\ OverIsKnown
      OBVIOUS
    <2>1. NothingVanishes
      BY DEF Books, BooksAt, Parts, Events, EventsOf, NothingVanishes, Pending, Live
    <2>2. OverIsKnown
      BY DEF Books, BooksAt, Known, EventsOf, OverIsKnown
    <2> QED BY <2>1, <2>2
  <1> QED BY <1>1, <1>2, <1>3, PTL DEF SubscriptionSpec

=============================================================================
