----------------------------- MODULE Role_proofs -----------------------------
(***************************************************************************)
(* Proofs about the role-derived tokens of Role, for every set of peers,   *)
(* roles, grants and callers, and any order of the assignments' paths; and *)
(* about the tokens of Capability, for all that may be offered and asked.  *)
(***************************************************************************)
EXTENDS Role, Capability, SequenceTheorems, FiniteSetTheorems, NaturalsInduction,
        WellFoundedInduction, TLAPS

Vias == {"startup", "assign", "re-derive", "delegate"}

RoleNames == Roles \cup {NoRole}

Minted == [peer : Peers, role : RoleNames, grants : Grants, via : Vias, parent : Nat]

Contexts ==
    [assigned : SUBSET Pairs, excluded : SUBSET Peers, minted : Seq(Minted),
     tokens : SUBSET Nat, links : [Pairs -> Nat], behind : SUBSET Pairs]

(* A context as the handlers leave it: what is bound was minted, a link    *)
(* names a token of its own assignee, and an excluded peer holds nothing.  *)
Good(s) ==
    /\ s \in Contexts
    /\ s.tokens \subseteq 1..Len(s.minted)
    /\ \A a \in Pairs : s.links[a] # 0 =>
           s.links[a] \in 1..Len(s.minted) /\ s.minted[s.links[a]].peer = a.peer
    /\ \A t \in s.tokens : s.minted[t].peer \notin s.excluded

(* The links of the assignments in A follow the definitions D.             *)
Follows(s, D, A) ==
    \A a \in A \cap (s.assigned \ s.behind) :
        s.links[a] \in s.tokens /\ D[a.role] \notin {NoRole, Empty}
            => s.minted[s.links[a]].grants = D[a.role]

(* TokensFollowDefinition is inductive only with the exclusions: an        *)
(* assignment of an excluded peer is passed over by a cascade, and it is   *)
(* that its peer holds nothing, under a link of its own, which keeps the   *)
(* old token from being bound.                                             *)
RoleInv ==
    /\ defs \in [Roles -> Grants \cup {Empty, NoRole}]
    /\ Good(Context)
    /\ Follows(Context, defs, Pairs)

-----------------------------------------------------------------------------
(* What a step leaves alone for the assignments in A.                      *)
Carries(s, x, A) ==
    \A a \in A \cap (x.assigned \ x.behind) :
        x.links[a] \in x.tokens =>
            /\ a \in s.assigned \ s.behind
            /\ x.links[a] = s.links[a] /\ x.links[a] \in s.tokens
            /\ x.minted[x.links[a]] = s.minted[x.links[a]]

LEMMA CarriesFollows ==
    ASSUME NEW s, NEW x, NEW A, NEW D, Follows(s, D, A), Carries(s, x, A)
    PROVE  Follows(x, D, A)
  BY DEF Follows, Carries

LEMMA SweepGood ==
    ASSUME NEW s, Good(s), NEW p \in Peers
    PROVE  /\ Good(Sweep(s, p)) /\ Carries(s, Sweep(s, p), Pairs)
           /\ Good(Lands(s, p)) /\ Carries(s, Lands(s, p), Pairs)
           /\ Lands(s, p).excluded = s.excluded \cup {p}
           /\ Lands(s, p).tokens = {t \in s.tokens : s.minted[t].peer # p}
           /\ Lands(s, p).assigned = s.assigned /\ Lands(s, p).minted = s.minted
           /\ Lands(s, p).links = s.links /\ Lands(s, p).behind = s.behind
  <1>0. s \in Contexts /\ s.tokens \subseteq Nat
    BY DEF Good, Contexts
  <1> DEFINE x == Sweep(s, p)
             y == Lands(s, p)
  <1>1. /\ x \in Contexts /\ x.tokens = {t \in s.tokens : s.minted[t].peer # p}
        /\ x.assigned = s.assigned /\ x.excluded = s.excluded /\ x.minted = s.minted
        /\ x.links = s.links /\ x.behind = s.behind
    BY <1>0 DEF Contexts, Sweep
  <1>2. /\ y \in Contexts /\ y.tokens = {t \in s.tokens : s.minted[t].peer # p}
        /\ y.assigned = s.assigned /\ y.excluded = s.excluded \cup {p} /\ y.minted = s.minted
        /\ y.links = s.links /\ y.behind = s.behind
    BY <1>0 DEF Contexts, Sweep, Lands
  <1> HIDE DEF x, y
  <1>3. Good(x) /\ Carries(s, x, Pairs)
    BY <1>1 DEF Good, Carries
  <1>4. Good(y) /\ Carries(s, y, Pairs)
    BY <1>2 DEF Good, Carries
  <1> QED BY <1>2, <1>3, <1>4 DEF x, y

LEMMA MintIs ==
    ASSUME NEW s \in Contexts, NEW p \in Peers, NEW r \in RoleNames, NEW g \in Grants,
           NEW via \in Vias, NEW parent \in Nat
    PROVE  LET x == Mint(s, p, r, g, via, parent)
               t == Len(s.minted) + 1
           IN  /\ x \in Contexts
               /\ Len(x.minted) = t /\ t \in Nat /\ Len(s.minted) \in Nat
               /\ \A u \in 1..Len(s.minted) : x.minted[u] = s.minted[u]
               /\ x.minted[t].peer = p /\ x.minted[t].grants = g
               /\ x.tokens = s.tokens \cup {t}
               /\ x.assigned = s.assigned /\ x.excluded = s.excluded
               /\ x.links = s.links /\ x.behind = s.behind
  <1> DEFINE m == [peer |-> p, role |-> r, grants |-> g, via |-> via, parent |-> parent]
             x == Mint(s, p, r, g, via, parent)
             t == Len(s.minted) + 1
  <1>1. m \in Minted /\ s.minted \in Seq(Minted)
    BY DEF Minted, Contexts
  <1>2. m.peer = p /\ m.grants = g
    OBVIOUS
  <1> HIDE DEF m
  <1>3. /\ Append(s.minted, m) \in Seq(Minted) /\ Len(Append(s.minted, m)) = t
        /\ Len(s.minted) \in Nat
        /\ \A u \in 1..Len(s.minted) : Append(s.minted, m)[u] = s.minted[u]
        /\ Append(s.minted, m)[t] = m
    BY <1>1, AppendProperties, LenProperties
  <1>4. s.tokens \cup {t} \in SUBSET Nat
    BY <1>3 DEF Contexts
  <1>5. x = [s EXCEPT !.minted = Append(@, m), !.tokens = @ \cup {t}]
    BY DEF Mint, m
  <1> HIDE DEF x
  <1>6. /\ x \in Contexts /\ x.minted = Append(s.minted, m) /\ x.tokens = s.tokens \cup {t}
        /\ x.assigned = s.assigned /\ x.excluded = s.excluded
        /\ x.links = s.links /\ x.behind = s.behind
    BY <1>3, <1>4, <1>5 DEF Contexts
  <1>7. /\ Len(x.minted) = t /\ t \in Nat
        /\ \A u \in 1..Len(s.minted) : x.minted[u] = s.minted[u]
        /\ x.minted[t].peer = p /\ x.minted[t].grants = g
    BY <1>2, <1>3, <1>6
  <1> QED BY <1>3, <1>6, <1>7 DEF x

(* A token has been written, t, for a peer that may have been excluded     *)
(* meanwhile; no other is bound to an excluded peer.                       *)
Written(s, x, p, g) ==
    LET t == Len(s.minted) + 1
    IN  /\ x \in Contexts
        /\ Len(x.minted) = t
        /\ \A u \in 1..Len(s.minted) : x.minted[u] = s.minted[u]
        /\ x.minted[t].peer = p /\ x.minted[t].grants = g
        /\ x.tokens \subseteq s.tokens \cup {t}
        /\ \A u \in x.tokens : u # t => x.minted[u].peer \notin x.excluded
        /\ x.assigned = s.assigned /\ x.links = s.links /\ x.behind = s.behind

LEMMA WritesIs ==
    ASSUME NEW s, Good(s), NEW p \in Peers, NEW r \in Roles, NEW g \in Grants,
           NEW via \in Vias, NEW parent \in Nat, NEW landing \in Landings
    PROVE  Written(s, Writes(s, p, r, g, via, parent, landing), p, g)
  <1> DEFINE token(x) == Mint(x, p, r, g, via, parent)
             here == {l \in landing : l.at = p}
             l == CHOOSE x \in here : TRUE
             w == Writes(s, p, r, g, via, parent, landing)
             t == Len(s.minted) + 1
  <1>0. s \in Contexts /\ r \in RoleNames
    BY DEF Good, RoleNames
  <1>1. CASE here = {}
    <2>1. w = token(s)
      BY <1>1 DEF Writes
    <2> HIDE DEF w, here
    <2>2. Written(s, token(s), p, g)
      <3> DEFINE x == token(s)
      <3>1. /\ x \in Contexts
            /\ Len(x.minted) = t /\ t \in Nat /\ Len(s.minted) \in Nat
            /\ \A u \in 1..Len(s.minted) : x.minted[u] = s.minted[u]
            /\ x.minted[t].peer = p /\ x.minted[t].grants = g
            /\ x.tokens = s.tokens \cup {t}
            /\ x.assigned = s.assigned /\ x.excluded = s.excluded
            /\ x.links = s.links /\ x.behind = s.behind
        BY <1>0, MintIs
      <3> HIDE DEF x
      <3>2. Written(s, x, p, g)
        BY <3>1 DEF Written, Good
      <3> QED BY <3>2 DEF x
    <2> QED BY <2>1, <2>2 DEF w
  <1>2. here # {} => l \in landing /\ l.on \in Peers /\ l.early \in BOOLEAN
    <2> SUFFICES ASSUME here # {} PROVE l \in landing /\ l.on \in Peers /\ l.early \in BOOLEAN
      OBVIOUS
    <2>1. l \in here
      OBVIOUS
    <2>2. landing \subseteq [at : Peers, on : Peers, early : BOOLEAN]
      BY DEF Landings
    <2> HIDE DEF l
    <2> QED BY <2>1, <2>2
  <1>3. CASE here # {} /\ l.early
    <2>1. w = token(Lands(s, l.on))
      BY <1>3 DEF Writes
    <2> HIDE DEF w, here, l
    <2> DEFINE y == Lands(s, l.on)
               x == token(y)
    <2>2. /\ Good(y) /\ y \in Contexts /\ y.tokens \subseteq s.tokens
          /\ y.assigned = s.assigned /\ y.minted = s.minted
          /\ y.links = s.links /\ y.behind = s.behind
      BY <1>2, <1>3, SweepGood DEF Good
    <2> HIDE DEF y
    <2>3. /\ x \in Contexts
          /\ Len(x.minted) = t /\ t \in Nat /\ Len(s.minted) \in Nat
          /\ \A u \in 1..Len(s.minted) : x.minted[u] = s.minted[u]
          /\ x.minted[t].peer = p /\ x.minted[t].grants = g
          /\ x.tokens = y.tokens \cup {t}
          /\ x.assigned = s.assigned /\ x.excluded = y.excluded
          /\ x.links = s.links /\ x.behind = s.behind
      <3>1. /\ x \in Contexts
            /\ Len(x.minted) = Len(y.minted) + 1 /\ Len(y.minted) \in Nat
            /\ \A u \in 1..Len(y.minted) : x.minted[u] = y.minted[u]
            /\ x.minted[Len(y.minted) + 1].peer = p /\ x.minted[Len(y.minted) + 1].grants = g
            /\ x.tokens = y.tokens \cup {Len(y.minted) + 1}
            /\ x.assigned = y.assigned /\ x.excluded = y.excluded
            /\ x.links = y.links /\ x.behind = y.behind
        BY <1>0, <2>2, MintIs
      <3> HIDE DEF x
      <3> QED BY <2>2, <3>1
    <2> HIDE DEF x
    <2>4. Written(s, x, p, g)
      BY <2>2, <2>3 DEF Written, Good
    <2> QED BY <2>1, <2>4 DEF w, x, y
  <1>4. CASE here # {} /\ ~l.early
    <2>1. w = Lands(token(s), l.on)
      BY <1>4 DEF Writes
    <2> HIDE DEF w, here, l
    <2> DEFINE y == token(s)
               x == Lands(y, l.on)
    <2>2. /\ y \in Contexts
          /\ Len(y.minted) = t /\ t \in Nat /\ Len(s.minted) \in Nat
          /\ \A u \in 1..Len(s.minted) : y.minted[u] = s.minted[u]
          /\ y.minted[t].peer = p /\ y.minted[t].grants = g
          /\ y.tokens = s.tokens \cup {t}
          /\ y.assigned = s.assigned /\ y.excluded = s.excluded
          /\ y.links = s.links /\ y.behind = s.behind
      BY <1>0, MintIs
    <2> HIDE DEF y
    <2>3. /\ x \in Contexts /\ x.tokens = {u \in y.tokens : y.minted[u].peer # l.on}
          /\ x.assigned = y.assigned /\ x.excluded = y.excluded \cup {l.on} /\ x.minted = y.minted
          /\ x.links = y.links /\ x.behind = y.behind
      BY <1>2, <1>4, <2>2 DEF Lands, Sweep, Contexts
    <2> HIDE DEF x
    <2>4. Written(s, x, p, g)
      BY <2>2, <2>3 DEF Written, Good
    <2> QED BY <2>1, <2>4 DEF w, x, y
  <1> QED BY <1>1, <1>3, <1>4

(* The token is linked, or not, and unbound again if its peer has been     *)
(* excluded (SEC-2).                                                       *)
LEMMA Settled ==
    ASSUME NEW s, Good(s), NEW p \in Peers, NEW g, NEW w, Written(s, w, p, g),
           NEW a \in Pairs, a.peer = p, NEW z \in Contexts,
           z.minted = w.minted, z.excluded = w.excluded, z.tokens \subseteq w.tokens,
           p \in w.excluded => Len(s.minted) + 1 \notin z.tokens,
           \A b \in Pairs \ {a} : z.links[b] = s.links[b],
           z.links[a] \in {s.links[a], Len(s.minted) + 1, 0},
           z.assigned \subseteq s.assigned \cup {a}, s.behind \ {a} \subseteq z.behind
    PROVE  /\ Good(z) /\ Carries(s, z, Pairs \ {a})
           /\ z.links[a] = Len(s.minted) + 1 => z.minted[z.links[a]].grants = g
           /\ (z.links = s.links /\ z.assigned = s.assigned /\ z.behind = s.behind)
                 => Carries(s, z, Pairs)
  <1> DEFINE t == Len(s.minted) + 1
  <1>1. Len(s.minted) \in Nat /\ s.links \in [Pairs -> Nat]
    BY LenProperties DEF Good, Contexts
  <1>2. \A b \in Pairs : s.links[b] # t /\ (s.links[b] # 0 => s.links[b] \in 1..Len(s.minted))
    BY <1>1 DEF Good
  <1>3. /\ Len(z.minted) = t
        /\ \A u \in 1..Len(s.minted) : z.minted[u] = s.minted[u]
        /\ z.minted[t].peer = p /\ z.minted[t].grants = g
        /\ z.tokens \subseteq s.tokens \cup {t}
        /\ \A u \in z.tokens : u # t => z.minted[u].peer \notin z.excluded
    BY DEF Written
  <1>4. s.tokens \subseteq 1..Len(s.minted)
    BY DEF Good
  <1>5. z.tokens \subseteq 1..Len(z.minted)
    BY <1>1, <1>3, <1>4
  <1>6. ASSUME NEW b \in Pairs, z.links[b] # 0
        PROVE  z.links[b] \in 1..Len(z.minted) /\ z.minted[z.links[b]].peer = b.peer
    <2>1. CASE z.links[b] = s.links[b]
      BY <1>1, <1>2, <1>3, <1>6, <2>1 DEF Good
    <2>2. CASE z.links[b] # s.links[b]
      <3>1. b = a /\ z.links[b] = t
        BY <1>6, <2>2
      <3> QED BY <1>1, <1>3, <3>1
    <2> QED BY <2>1, <2>2
  <1>7. \A u \in z.tokens : z.minted[u].peer \notin z.excluded
    BY <1>3
  <1>8. Good(z)
    BY <1>5, <1>6, <1>7 DEF Good
  <1>9. ASSUME NEW b \in Pairs, z.links[b] = s.links[b], z.links[b] \in z.tokens
        PROVE  z.links[b] \in s.tokens /\ z.minted[z.links[b]] = s.minted[z.links[b]]
    <2>1. z.links[b] # t
      BY <1>2, <1>9
    <2> QED BY <1>3, <1>4, <1>9, <2>1
  <1>10. Carries(s, z, Pairs \ {a})
    BY <1>9 DEF Carries
  <1>11. (z.links = s.links /\ z.assigned = s.assigned /\ z.behind = s.behind) => Carries(s, z, Pairs)
    BY <1>9 DEF Carries
  <1> QED BY <1>3, <1>8, <1>10, <1>11

LEMMA PairsAre ==
    /\ \A p \in Peers, r \in Roles : Pair(p, r) \in Pairs /\ Pair(p, r).peer = p /\ Pair(p, r).role = r
    /\ \A a \in Pairs : a.peer \in Peers /\ a.role \in Roles /\ a = Pair(a.peer, a.role)
  BY DEF Pairs, Pair

LEMMA ReMintGood ==
    ASSUME NEW s, Good(s), NEW p \in Peers, NEW r \in Roles, NEW g \in Grants, NEW landing \in Landings
    PROVE  LET z == ReMint(s, p, r, g, landing)
               a == Pair(p, r)
           IN  /\ Good(z) /\ Carries(s, z, Pairs \ {a})
               /\ z.links[a] \in z.tokens => z.minted[z.links[a]].grants = g
  <1> DEFINE a == Pair(p, r)
             t == Len(s.minted) + 1
             made == Writes(s, p, r, g, "re-derive", 0, landing)
             linked == [Unbind(made, s.links[a]) EXCEPT !.links[a] = t, !.behind = @ \ {a}]
             undone == [Unbind(linked, t) EXCEPT !.links[a] = 0]
             z == ReMint(s, p, r, g, landing)
  <1>1. Written(s, made, p, g)
    BY WritesIs DEF Vias
  <1>2. z = IF p \in linked.excluded THEN undone ELSE linked
    BY DEF ReMint, Settle
  <1>3. a \in Pairs /\ a.peer = p
    BY PairsAre
  <1>4. s \in Contexts /\ Len(s.minted) \in Nat /\ s.links \in [Pairs -> Nat] /\ 0 \notin s.tokens
    BY LenProperties DEF Good, Contexts
  <1> HIDE DEF made, a
  <1>5. /\ made \in Contexts /\ made.links = s.links /\ made.behind = s.behind
        /\ made.assigned = s.assigned
    BY <1>1 DEF Written
  <1>6. /\ linked \in Contexts /\ linked.minted = made.minted /\ linked.excluded = made.excluded
        /\ linked.tokens = made.tokens \ {s.links[a]}
        /\ linked.links = [s.links EXCEPT ![a] = t]
        /\ linked.assigned = s.assigned /\ linked.behind = s.behind \ {a}
    <2> DEFINE u == Unbind(made, s.links[a])
    <2>1. /\ u \in Contexts /\ u.minted = made.minted /\ u.excluded = made.excluded
          /\ u.tokens = made.tokens \ {s.links[a]} /\ u.links = s.links
          /\ u.assigned = s.assigned /\ u.behind = s.behind
      BY <1>5 DEF Contexts, Unbind
    <2> HIDE DEF u
    <2>2. linked = [u EXCEPT !.links[a] = t, !.behind = @ \ {a}]
      BY DEF u
    <2> HIDE DEF linked
    <2>3. t \in Nat
      BY <1>4
    <2> HIDE DEF t
    <2>6. [s.links EXCEPT ![a] = t] \in [Pairs -> Nat]
      BY <1>4, <2>3
    <2>4. linked = [u EXCEPT !.links = [s.links EXCEPT ![a] = t], !.behind = s.behind \ {a}]
      BY <2>1, <2>2 DEF Contexts
    <2>5. s.behind \ {a} \in SUBSET Pairs
      BY <1>4 DEF Contexts
    <2> QED BY <2>1, <2>3, <2>4, <2>5, <2>6 DEF Contexts
  <1> HIDE DEF linked
  <1>7. /\ undone \in Contexts /\ undone.minted = made.minted /\ undone.excluded = made.excluded
        /\ undone.tokens = linked.tokens \ {t}
        /\ undone.links = [linked.links EXCEPT ![a] = 0]
        /\ undone.assigned = s.assigned /\ undone.behind = s.behind \ {a}
    BY <1>3, <1>4, <1>6 DEF Contexts, Unbind
  <1> HIDE DEF undone, z
  <1>8. /\ z \in Contexts /\ z.minted = made.minted /\ z.excluded = made.excluded
        /\ z.tokens \subseteq made.tokens
        /\ p \in made.excluded => t \notin z.tokens
        /\ \A b \in Pairs \ {a} : z.links[b] = s.links[b]
        /\ z.links[a] \in {t, 0}
        /\ z.assigned = s.assigned /\ z.behind = s.behind \ {a}
    BY <1>2, <1>3, <1>4, <1>6, <1>7
  <1>9. Good(z) /\ Carries(s, z, Pairs \ {a}) /\ (z.links[a] = t => z.minted[z.links[a]].grants = g)
    <2>1. /\ z.links[a] \in {s.links[a], Len(s.minted) + 1, 0}
          /\ z.assigned \subseteq s.assigned \cup {a} /\ s.behind \ {a} \subseteq z.behind
          /\ p \in made.excluded => Len(s.minted) + 1 \notin z.tokens
      BY <1>8
    <2> QED BY <1>1, <1>3, <1>8, <2>1, Settled
  <1>10. z.links[a] \in z.tokens => z.links[a] = t
    BY <1>8, <1>9, <1>4 DEF Good
  <1> QED BY <1>9, <1>10 DEF z, a

-----------------------------------------------------------------------------
(* The cascade is the function its recursive definition describes.         *)

LEMMA Least ==
    ASSUME NEW T \in SUBSET Nat, T # {}
    PROVE  \E n \in T : \A m \in T : n <= m
  <1>1. PICK x \in T : \A y \in T : ~(<<y, x>> \in OpToRel(<, Nat))
    BY NatLessThanWellFounded, WFMin
  <1>2. \A y \in T : ~(y < x)
    BY <1>1 DEF OpToRel
  <1> QED BY <1>2

IsCascade(f, k, s, r, g, caller, landing) ==
    f = [n \in 0..k |-> IF n = 0 THEN s
                        ELSE ReDeriveOne(f[n - 1], Order[n], r, g, caller, landing)]

LEMMA CascadeExists ==
    ASSUME NEW N \in Nat, NEW s, NEW r, NEW g, NEW caller, NEW landing
    PROVE  \E f : IsCascade(f, N, s, r, g, caller, landing)
  <1> DEFINE One(x, n) == ReDeriveOne(x, Order[n], r, g, caller, landing)
             Reaches(k) == \E f : f = [n \in 0..k |-> IF n = 0 THEN s ELSE One(f[n - 1], n)]
             T == {k \in 0..N : ~Reaches(k)}
  <1> HIDE DEF One
  <1>1. Reaches(0)
    <2> DEFINE f == [n \in 0..0 |-> s]
    <2>1. f = [n \in 0..0 |-> IF n = 0 THEN s ELSE One(f[n - 1], n)]
      OBVIOUS
    <2> HIDE DEF f
    <2> QED BY <2>1
  <1>2. ASSUME NEW k \in 1..N, Reaches(k - 1) PROVE Reaches(k)
    <2>1. PICK h : h = [n \in 0..(k - 1) |-> IF n = 0 THEN s ELSE One(h[n - 1], n)]
      BY <1>2
    <2> DEFINE f == [n \in 0..k |-> IF n = k THEN One(h[k - 1], k) ELSE h[n]]
    <2>2. \A n \in 0..(k - 1) : h[n] = IF n = 0 THEN s ELSE One(h[n - 1], n)
      BY <2>1
    <2>3. \A n \in 0..(k - 1) : f[n] = h[n]
      OBVIOUS
    <2>4. f[k] = One(h[k - 1], k) /\ DOMAIN f = 0..k /\ k # 0
      OBVIOUS
    <2>5. f = [n \in 0..k |-> f[n]]
      OBVIOUS
    <2> HIDE DEF f
    <2>6. ASSUME NEW n \in 0..k PROVE f[n] = IF n = 0 THEN s ELSE One(f[n - 1], n)
      <3>1. CASE n = k
        <4>1. k - 1 \in 0..(k - 1)
          OBVIOUS
        <4> QED BY <3>1, <4>1, <2>3, <2>4
      <3>2. CASE n # k /\ n # 0
        <4>1. n \in 0..(k - 1) /\ n - 1 \in 0..(k - 1)
          BY <3>2
        <4> QED BY <3>2, <4>1, <2>2, <2>3
      <3>3. CASE n # k /\ n = 0
        <4>1. n \in 0..(k - 1)
          BY <3>3
        <4> QED BY <3>3, <4>1, <2>2, <2>3
      <3> QED BY <3>1, <3>2, <3>3
    <2>7. f = [n \in 0..k |-> IF n = 0 THEN s ELSE One(f[n - 1], n)]
      BY <2>5, <2>6
    <2> QED BY <2>7
  <1> HIDE DEF Reaches
  <1>3. T = {}
    <2> SUFFICES ASSUME T # {} PROVE FALSE
      OBVIOUS
    <2>1. T \in SUBSET Nat
      OBVIOUS
    <2>2. PICK k \in T : \A m \in T : k <= m
      BY <2>1, Least
    <2>3. k # 0 /\ k \in 0..N /\ ~Reaches(k)
      BY <1>1, <2>2
    <2>4. k \in 1..N /\ k - 1 \in 0..N /\ ~(k <= k - 1)
      BY <2>3
    <2>5. Reaches(k - 1)
      BY <2>2, <2>4
    <2> QED BY <1>2, <2>3, <2>4, <2>5
  <1>4. Reaches(N)
    BY <1>3
  <1> QED BY <1>4 DEF Reaches, IsCascade, One

LEMMA CascadedIs ==
    ASSUME RoleAssumption, NEW s, NEW r, NEW g, NEW caller, NEW landing
    PROVE  LET f == Cascaded(s, r, g, caller, landing)
           IN  /\ f[0] = s
               /\ \A n \in 1..Len(Order) :
                     f[n] = ReDeriveOne(f[n - 1], Order[n], r, g, caller, landing)
  <1> DEFINE f == Cascaded(s, r, g, caller, landing)
             Is(h) == IsCascade(h, Len(Order), s, r, g, caller, landing)
  <1>1. Len(Order) \in Nat
    BY LenProperties DEF RoleAssumption
  <1>2. \E h : Is(h)
    BY <1>1, CascadeExists
  <1>3. f = CHOOSE h : Is(h)
    BY DEF Cascaded, IsCascade
  <1>4. Is(f)
    <2> HIDE DEF Is, f
    <2> QED BY <1>2, <1>3, Zenon
  <1>5. f = [n \in 0..Len(Order) |-> IF n = 0 THEN s
                        ELSE ReDeriveOne(f[n - 1], Order[n], r, g, caller, landing)]
    BY <1>4 DEF IsCascade
  <1> HIDE DEF f
  <1>6. /\ f[0] = s
        /\ \A n \in 1..Len(Order) : f[n] = ReDeriveOne(f[n - 1], Order[n], r, g, caller, landing)
    BY <1>1, <1>5
  <1> QED BY <1>6 DEF f

LEMMA OneFollows ==
    ASSUME NEW x, Good(x), NEW p \in Peers, NEW r \in Roles, NEW g \in Grants, NEW caller,
           NEW landing \in Landings, NEW D, D[r] = g, NEW A \in SUBSET Pairs, Follows(x, D, A)
    PROVE  LET z == ReDeriveOne(x, p, r, g, caller, landing)
           IN  Good(z) /\ Follows(z, D, A \cup {Pair(p, r)})
  <1> DEFINE a == Pair(p, r)
             z == ReDeriveOne(x, p, r, g, caller, landing)
  <1>0. /\ a \in Pairs /\ a.peer = p /\ a.role = r /\ x \in Contexts
    BY PairsAre DEF Good
  <1>1. CASE a \notin x.assigned \/ p \in x.excluded
    <2>1. z = x
      BY <1>1 DEF ReDeriveOne
    <2>2. a \in x.assigned => x.links[a] \notin x.tokens
      <3> SUFFICES ASSUME a \in x.assigned, x.links[a] \in x.tokens PROVE FALSE
        OBVIOUS
      <3> HIDE DEF a, z
      <3>1. x.links[a] # 0
        BY <1>0 DEF Good, Contexts
      <3> QED BY <1>0, <1>1, <3>1 DEF Good
    <2> HIDE DEF a, z
    <2> QED BY <2>1, <2>2 DEF Follows, a, z
  <1>2. CASE ~(a \notin x.assigned \/ p \in x.excluded) /\ ~Covers(caller, p, g)
    <2>1. z = [x EXCEPT !.behind = @ \cup {a}]
      BY <1>2 DEF ReDeriveOne
    <2> HIDE DEF a, z
    <2>2. /\ z \in Contexts /\ z.assigned = x.assigned /\ z.excluded = x.excluded
          /\ z.minted = x.minted /\ z.tokens = x.tokens /\ z.links = x.links
          /\ z.behind = x.behind \cup {a}
      BY <1>0, <2>1 DEF Contexts
    <2>3. Good(z)
      BY <2>2 DEF Good
    <2>4. Follows(z, D, A \cup {a})
      BY <2>2 DEF Follows
    <2> QED BY <2>3, <2>4 DEF a, z
  <1>3. CASE ~(a \notin x.assigned \/ p \in x.excluded) /\ Covers(caller, p, g)
    <2>1. z = ReMint(x, p, r, g, landing)
      BY <1>3 DEF ReDeriveOne
    <2>2. /\ Good(z) /\ Carries(x, z, Pairs \ {a})
          /\ z.links[a] \in z.tokens => z.minted[z.links[a]].grants = g
      BY <2>1, ReMintGood
    <2> HIDE DEF a, z
    <2>3. Carries(x, z, A \ {a}) /\ Follows(x, D, A \ {a})
      BY <2>2 DEF Carries, Follows
    <2>4. Follows(z, D, A \ {a})
      BY <2>3, CarriesFollows
    <2>5. Follows(z, D, A \cup {a})
      BY <1>0, <2>2, <2>4 DEF Follows
    <2> QED BY <2>2, <2>5 DEF a, z
  <1> QED BY <1>1, <1>2, <1>3

(* A cascade leaves every assignment of the role with the new definition,  *)
(* path by path.                                                           *)
LEMMA ReDeriveFollows ==
    ASSUME RoleAssumption, NEW s, Good(s), NEW r \in Roles, NEW g \in Grants \cup {Empty, NoRole},
           NEW caller, NEW landing \in Landings,
           NEW D \in [Roles -> Grants \cup {Empty, NoRole}], Follows(s, D, Pairs)
    PROVE  LET z == ReDerive(s, r, g, caller, landing)
           IN  Good(z) /\ Follows(z, [D EXCEPT ![r] = g], Pairs)
  <1> DEFINE E == [D EXCEPT ![r] = g]
             z == ReDerive(s, r, g, caller, landing)
             Others == {a \in Pairs : a.role # r}
  <1>1. E[r] = g /\ \A q \in Roles \ {r} : E[q] = D[q]
    OBVIOUS
  <1>2. \A a \in Others : a.role \in Roles \ {r}
    BY PairsAre
  <1> HIDE DEF E
  <1>3. Follows(s, E, Others)
    BY <1>1, <1>2 DEF Follows
  <1>4. CASE g \in {NoRole, Empty}
    <2>1. z = s
      BY <1>4 DEF ReDerive
    <2>2. \A a \in Pairs : a \notin Others => E[a.role] = g
      BY <1>1
    <2>3. Follows(s, E, Pairs)
      BY <1>3, <1>4, <2>2 DEF Follows
    <2> HIDE DEF z
    <2> QED BY <2>1, <2>3 DEF z, E
  <1>5. CASE g \notin {NoRole, Empty}
    <2> DEFINE N == Len(Order)
               f == Cascaded(s, r, g, caller, landing)
               Done(n) == Others \cup {Pair(Order[m], r) : m \in 1..n}
               Fine(n) == Good(f[n]) /\ Follows(f[n], E, Done(n))
               T == {n \in 0..N : ~Fine(n)}
    <2>1. g \in Grants /\ z = f[N]
      BY <1>5 DEF ReDerive
    <2>2. f[0] = s /\ \A n \in 1..N : f[n] = ReDeriveOne(f[n - 1], Order[n], r, g, caller, landing)
      BY CascadedIs
    <2>3. N \in Nat /\ \A n \in 1..N : Order[n] \in Peers
      BY LenProperties, ElementOfSeq DEF RoleAssumption
    <2> HIDE DEF f, z, N
    <2>4. Fine(0)
      <3>1. Done(0) = Others
        OBVIOUS
      <3> HIDE DEF Done, Others
      <3> QED BY <1>3, <2>2, <3>1
    <2>5. ASSUME NEW n \in 1..N, Fine(n - 1) PROVE Fine(n)
      <3>1. Done(n) = Done(n - 1) \cup {Pair(Order[n], r)}
        <4>1. 1..n = (1..(n - 1)) \cup {n}
          BY <2>3
        <4> QED BY <4>1
      <3>2. Done(n - 1) \in SUBSET Pairs
        <4>1. \A m \in 1..(n - 1) : m \in 1..N
          BY <2>3
        <4> QED BY <2>3, <4>1, PairsAre
      <3> HIDE DEF Done
      <3> QED BY <1>1, <2>1, <2>2, <2>3, <2>5, <3>1, <3>2, OneFollows
    <2> HIDE DEF Fine
    <2>6. T = {}
      <3> SUFFICES ASSUME T # {} PROVE FALSE
        OBVIOUS
      <3>1. T \in SUBSET Nat
        BY <2>3
      <3>2. PICK k \in T : \A m \in T : k <= m
        BY <3>1, Least
      <3>3. k # 0 /\ k \in 0..N /\ ~Fine(k)
        BY <2>4, <3>2
      <3>4. k \in 1..N /\ k - 1 \in 0..N /\ ~(k <= k - 1)
        BY <2>3, <3>3
      <3>5. Fine(k - 1)
        BY <3>2, <3>4
      <3> QED BY <2>5, <3>3, <3>4, <3>5
    <2>7. Good(f[N]) /\ Follows(f[N], E, Done(N))
      <3>1. Fine(N)
        BY <2>3, <2>6
      <3> QED BY <3>1 DEF Fine
    <2>8. Pairs \subseteq Done(N)
      <3> SUFFICES ASSUME NEW a \in Pairs, a.role = r PROVE a \in {Pair(Order[m], r) : m \in 1..N}
        OBVIOUS
      <3>1. PICK m \in 1..N : Order[m] = a.peer
        BY PairsAre DEF RoleAssumption, N
      <3>2. a = Pair(Order[m], r)
        BY <3>1, PairsAre
      <3> QED BY <3>2
    <2>9. Follows(f[N], E, Pairs)
      <3> HIDE DEF Done
      <3> QED BY <2>7, <2>8 DEF Follows
    <2> QED BY <2>1, <2>7, <2>9 DEF z, E
  <1> QED BY <1>4, <1>5

-----------------------------------------------------------------------------
LEMMA BecomesInv ==
    ASSUME NEW z \in Contexts, Becomes(z), Good(z), NEW D, defs' = D,
           D \in [Roles -> Grants \cup {Empty, NoRole}], Follows(z, D, Pairs)
    PROVE  RoleInv'
  <1>1. Context' = z
    BY DEF Context, Becomes, Contexts
  <1>2. Good(Context') /\ Follows(Context', defs', Pairs)
    BY <1>1
  <1> QED BY <1>2 DEF RoleInv, Good, Follows, Contexts, Pairs

(* A step that only takes away, or adds what no link names.                *)
LEMMA CarriesInv ==
    ASSUME RoleInv, NEW z, Becomes(z), Good(z), Carries(Context, z, Pairs), UNCHANGED defs
    PROVE  RoleInv'
  <1>1. Follows(z, defs, Pairs) /\ defs \in [Roles -> Grants \cup {Empty, NoRole}] /\ z \in Contexts
    BY CarriesFollows DEF RoleInv, Good
  <1> QED BY <1>1, BecomesInv

LEMMA CascadeInv ==
    ASSUME RoleAssumption, RoleInv, NEW r \in Roles, NEW g \in Grants \cup {Empty, NoRole}, NEW caller,
           Cascade(r, g, caller), defs' = [defs EXCEPT ![r] = g]
    PROVE  RoleInv'
  <1>1. PICK landing \in Landings : Becomes(ReDerive(Context, r, g, caller, landing))
    BY DEF Cascade
  <1> DEFINE z == ReDerive(Context, r, g, caller, landing)
             D == [defs EXCEPT ![r] = g]
  <1>2. Good(Context) /\ Follows(Context, defs, Pairs) /\ defs \in [Roles -> Grants \cup {Empty, NoRole}]
    BY DEF RoleInv
  <1>3. Good(z) /\ Follows(z, D, Pairs)
    BY <1>2, ReDeriveFollows
  <1>4. D \in [Roles -> Grants \cup {Empty, NoRole}]
    BY <1>2
  <1> HIDE DEF z, D
  <1>5. z \in Contexts /\ Becomes(z) /\ defs' = D
    BY <1>1, <1>3 DEF Good, z, D
  <1> QED BY <1>3, <1>4, <1>5, BecomesInv

LEMMA MintGood ==
    ASSUME NEW s, Good(s), NEW p \in Peers, p \notin s.excluded, NEW r \in RoleNames,
           NEW g \in Grants, NEW via \in Vias, NEW parent \in Nat
    PROVE  LET z == Mint(s, p, r, g, via, parent)
           IN  Good(z) /\ Carries(s, z, Pairs)
  <1> DEFINE z == Mint(s, p, r, g, via, parent)
             t == Len(s.minted) + 1
  <1>1. s \in Contexts
    BY DEF Good
  <1>2. /\ z \in Contexts
        /\ Len(z.minted) = t /\ t \in Nat /\ Len(s.minted) \in Nat
        /\ \A u \in 1..Len(s.minted) : z.minted[u] = s.minted[u]
        /\ z.minted[t].peer = p /\ z.minted[t].grants = g
        /\ z.tokens = s.tokens \cup {t}
        /\ z.assigned = s.assigned /\ z.excluded = s.excluded
        /\ z.links = s.links /\ z.behind = s.behind
    BY <1>1, MintIs
  <1> HIDE DEF z
  <1>3. s.tokens \subseteq 1..Len(s.minted) /\ t \notin 1..Len(s.minted)
    BY <1>2 DEF Good
  <1>4. z.tokens \subseteq 1..Len(z.minted)
    BY <1>2, <1>3
  <1>5. ASSUME NEW a \in Pairs, z.links[a] # 0
        PROVE  /\ z.links[a] \in 1..Len(s.minted) /\ z.links[a] \in 1..Len(z.minted)
               /\ z.minted[z.links[a]].peer = a.peer
    <2>1. z.links[a] \in 1..Len(s.minted) /\ s.minted[z.links[a]].peer = a.peer
      BY <1>2, <1>5 DEF Good
    <2> QED BY <1>2, <2>1
  <1>6. ASSUME NEW u \in z.tokens PROVE z.minted[u].peer \notin z.excluded
    <2>1. CASE u = t
      BY <1>2, <2>1
    <2>2. CASE u # t
      <3>1. u \in s.tokens /\ u \in 1..Len(s.minted)
        BY <1>2, <1>3, <2>2
      <3> QED BY <1>2, <3>1 DEF Good
    <2> QED BY <2>1, <2>2
  <1>7. Good(z)
    BY <1>2, <1>4, <1>5, <1>6 DEF Good
  <1>8. ASSUME NEW a \in Pairs, z.links[a] \in z.tokens
        PROVE  z.links[a] \in s.tokens /\ z.minted[z.links[a]] = s.minted[z.links[a]]
    <2>1. z.links[a] # 0
      BY <1>2, <1>4, <1>8
    <2> QED BY <1>2, <1>3, <1>5, <1>8, <2>1
  <1>9. Carries(s, z, Pairs)
    BY <1>2, <1>8 DEF Carries
  <1> QED BY <1>7, <1>9 DEF z

LEMMA StartupInv ==
    ASSUME RoleInv, NEW p \in Peers, NEW g \in Grants, Startup(p, g)
    PROVE  RoleInv'
  <1> DEFINE z == Mint(Context, p, NoRole, g, "startup", 0)
  <1>1. p \notin Context.excluded /\ Becomes(z) /\ UNCHANGED defs
    BY DEF Startup, Context
  <1>2. Good(Context) /\ "startup" \in Vias /\ NoRole \in RoleNames /\ 0 \in Nat
    BY DEF RoleInv, Vias, RoleNames
  <1>3. Good(z) /\ Carries(Context, z, Pairs)
    BY <1>1, <1>2, MintGood
  <1> QED BY <1>1, <1>3, CarriesInv

LEMMA AssignInv ==
    ASSUME RoleInv, NEW p \in Peers, NEW r \in Roles, Assign(p, r)
    PROVE  RoleInv'
  <1> DEFINE s == Context
             a == Pair(p, r)
             t == Len(s.minted) + 1
             g == defs[r]
  <1>1. PICK landing \in Landings :
            LET written == [Writes(s, p, r, g, "assign", 0, landing)
                               EXCEPT !.assigned = @ \cup {a}, !.links[a] = t, !.behind = @ \ {a}]
            IN  Becomes(Settle(written, p, RollBack(written, a, t)))
    BY DEF Assign, Context
  <1>2. g \in Grants /\ UNCHANGED defs /\ defs \in [Roles -> Grants \cup {Empty, NoRole}]
    BY DEF Assign, RoleInv
  <1> DEFINE w == Writes(s, p, r, g, "assign", 0, landing)
             written == [w EXCEPT !.assigned = @ \cup {a}, !.links[a] = t, !.behind = @ \ {a}]
             undone == RollBack(written, a, t)
             z == IF p \in written.excluded THEN undone ELSE written
  <1>3. Becomes(z)
    BY <1>1 DEF Settle
  <1>4. Good(s) /\ Follows(s, defs, Pairs) /\ a \in Pairs /\ a.peer = p /\ a.role = r
    BY PairsAre DEF RoleInv
  <1> HIDE DEF s, a
  <1>5. Written(s, w, p, g)
    BY <1>2, <1>4, WritesIs DEF Vias
  <1>6. s \in Contexts /\ Len(s.minted) \in Nat /\ s.links \in [Pairs -> Nat] /\ 0 \notin s.tokens
    BY <1>4, LenProperties DEF Good, Contexts
  <1> HIDE DEF w
  <1>7. w \in Contexts /\ w.links = s.links /\ w.behind = s.behind /\ w.assigned = s.assigned
    BY <1>5 DEF Written
  <1>8. /\ written \in Contexts /\ written.minted = w.minted /\ written.excluded = w.excluded
        /\ written.tokens = w.tokens /\ written.links = [s.links EXCEPT ![a] = t]
        /\ written.assigned = s.assigned \cup {a} /\ written.behind = s.behind \ {a}
    <2>1. t \in Nat
      BY <1>6
    <2> HIDE DEF t
    <2>2. [s.links EXCEPT ![a] = t] \in [Pairs -> Nat]
      BY <1>6, <2>1
    <2>3. written = [w EXCEPT !.assigned = s.assigned \cup {a}, !.links = [s.links EXCEPT ![a] = t],
                              !.behind = s.behind \ {a}]
      BY <1>7 DEF Contexts
    <2>4. s.assigned \cup {a} \in SUBSET Pairs /\ s.behind \ {a} \in SUBSET Pairs
      BY <1>4, <1>6 DEF Contexts
    <2> HIDE DEF written
    <2> QED BY <1>7, <2>2, <2>3, <2>4 DEF Contexts
  <1> HIDE DEF written
  <1>9. /\ undone \in Contexts /\ undone.minted = w.minted /\ undone.excluded = w.excluded
        /\ undone.tokens = w.tokens \ {t}
        /\ undone.links = [written.links EXCEPT ![a] = 0]
        /\ undone.assigned = written.assigned \ {a} /\ undone.behind = s.behind \ {a}
    <2> DEFINE u == Unbind(written, t)
    <2>1. /\ u \in Contexts /\ u.minted = w.minted /\ u.excluded = w.excluded
          /\ u.tokens = w.tokens \ {t} /\ u.links = written.links
          /\ u.assigned = written.assigned /\ u.behind = s.behind \ {a}
      BY <1>8 DEF Contexts, Unbind
    <2>2. undone = [u EXCEPT !.links[a] = 0, !.assigned = @ \ {a}]
      BY DEF RollBack
    <2>3. [written.links EXCEPT ![a] = 0] \in [Pairs -> Nat]
      BY <1>8 DEF Contexts
    <2> HIDE DEF u, undone
    <2>4. undone = [u EXCEPT !.links = [written.links EXCEPT ![a] = 0], !.assigned = written.assigned \ {a}]
      BY <2>1, <2>2 DEF Contexts
    <2>5. written.assigned \ {a} \in SUBSET Pairs
      BY <1>8 DEF Contexts
    <2> QED BY <2>1, <2>3, <2>4, <2>5 DEF Contexts
  <1> HIDE DEF undone
  <1>10. /\ z \in Contexts /\ z.minted = w.minted /\ z.excluded = w.excluded
         /\ z.tokens \subseteq w.tokens
         /\ p \in w.excluded => t \notin z.tokens
         /\ \A b \in Pairs \ {a} : z.links[b] = s.links[b]
         /\ z.links[a] \in {t, 0}
         /\ z.assigned \subseteq s.assigned \cup {a} /\ z.behind = s.behind \ {a}
    BY <1>4, <1>6, <1>8, <1>9
  <1> HIDE DEF z
  <1>11. Good(z) /\ Carries(s, z, Pairs \ {a}) /\ (z.links[a] = t => z.minted[z.links[a]].grants = g)
    <2> HIDE DEF g
    <2>1. Good(s) /\ a \in Pairs /\ a.peer = p /\ Written(s, w, p, g)
      BY <1>4, <1>5
    <2>2. z \in Contexts /\ z.minted = w.minted /\ z.excluded = w.excluded /\ z.tokens \subseteq w.tokens
      BY <1>10
    <2>3. p \in w.excluded => Len(s.minted) + 1 \notin z.tokens
      BY <1>10
    <2>4. z.links[a] \in {s.links[a], Len(s.minted) + 1, 0} /\ \A b \in Pairs \ {a} : z.links[b] = s.links[b]
      BY <1>10
    <2>5. z.assigned \subseteq s.assigned \cup {a} /\ s.behind \ {a} \subseteq z.behind
      BY <1>10
    <2>6. Good(z) /\ Carries(s, z, Pairs \ {a})
      BY <2>1, <2>2, <2>3, <2>4, <2>5, Settled
    <2>7. z.links[a] = Len(s.minted) + 1 => z.minted[z.links[a]].grants = g
      BY <2>1, <2>2 DEF Written
    <2> QED BY <2>6, <2>7
  <1>12. z.links[a] \in z.tokens => z.links[a] = t
    BY <1>6, <1>10, <1>11 DEF Good
  <1>13. Follows(z, defs, Pairs)
    <2>1. Follows(s, defs, Pairs \ {a})
      BY <1>4 DEF Follows
    <2>2. Follows(z, defs, Pairs \ {a})
      BY <1>11, <2>1, CarriesFollows
    <2> QED BY <1>4, <1>11, <1>12, <2>2 DEF Follows
  <1> QED BY <1>2, <1>3, <1>10, <1>11, <1>13, BecomesInv

LEMMA DropInv ==
    ASSUME RoleInv, NEW A \in SUBSET Pairs, Becomes(Drop(Context, A)), UNCHANGED defs
    PROVE  RoleInv'
  <1> DEFINE s == Context
             z == Drop(s, A)
  <1>1. Good(s)
    BY DEF RoleInv
  <1> HIDE DEF s
  <1>2. s \in Contexts
    BY <1>1 DEF Good
  <1>3. /\ z \in Contexts /\ z.minted = s.minted /\ z.excluded = s.excluded
        /\ z.tokens \subseteq s.tokens
        /\ z.links = [a \in Pairs |-> IF a \in A THEN 0 ELSE s.links[a]]
        /\ z.assigned = s.assigned \ A /\ z.behind = s.behind \ A
    <2> DEFINE L == [a \in Pairs |-> IF a \in A THEN 0 ELSE s.links[a]]
    <2>1. L \in [Pairs -> Nat]
      BY <1>2 DEF Contexts
    <2>2. z = [s EXCEPT !.tokens = @ \ {s.links[a] : a \in A}, !.assigned = @ \ A, !.behind = @ \ A,
                        !.links = L]
      BY <1>2 DEF Drop, Contexts
    <2> HIDE DEF L, z
    <2>3. z.links = L
      BY <1>2, <2>2 DEF Contexts
    <2>4. /\ z \in Contexts /\ z.minted = s.minted /\ z.excluded = s.excluded
          /\ z.tokens \subseteq s.tokens /\ z.assigned = s.assigned \ A /\ z.behind = s.behind \ A
      BY <1>2, <2>1, <2>2 DEF Contexts
    <2> QED BY <2>3, <2>4 DEF L
  <1> HIDE DEF z
  <1>4. Good(z)
    BY <1>1, <1>3 DEF Good
  <1>5. Carries(s, z, Pairs)
    BY <1>3 DEF Carries
  <1> QED BY <1>4, <1>5, CarriesInv DEF s, z

LEMMA LandsInv ==
    ASSUME RoleInv, NEW p \in Peers, Becomes(Lands(Context, p)), UNCHANGED defs
    PROVE  RoleInv'
  <1>1. Good(Context)
    BY DEF RoleInv
  <1>2. Good(Lands(Context, p)) /\ Carries(Context, Lands(Context, p), Pairs)
    BY <1>1, SweepGood
  <1> QED BY <1>2, CarriesInv

LEMMA UnexcludeInv ==
    ASSUME RoleInv, NEW p \in Peers, Unexclude(p)
    PROVE  RoleInv'
  <1> DEFINE s == Context
             z == [s EXCEPT !.excluded = @ \ {p}]
  <1>1. Good(s) /\ s \in Contexts
    BY DEF RoleInv, Good
  <1>2. Becomes(z) /\ UNCHANGED defs
    BY DEF Unexclude
  <1> HIDE DEF s
  <1>3. /\ z \in Contexts /\ z.minted = s.minted /\ z.excluded \subseteq s.excluded
        /\ z.tokens = s.tokens /\ z.links = s.links
        /\ z.assigned = s.assigned /\ z.behind = s.behind
    BY <1>1 DEF Contexts
  <1> HIDE DEF z
  <1>4. Good(z) /\ Carries(s, z, Pairs)
    BY <1>1, <1>3 DEF Good, Carries
  <1> QED BY <1>2, <1>4, CarriesInv DEF s

LEMMA DelegateInv ==
    ASSUME RoleAssumption, RoleInv, NEW p \in Peers, NEW r \in Roles, NEW g \in Grants, Delegate(p, r, g)
    PROVE  RoleInv'
  <1> DEFINE s == Context
             d == Pair(Local, r)
             parent == links[d]
             a == Pair(p, r)
             t == Len(s.minted) + 1
  <1>1. PICK landing \in Landings :
            LET w == Writes(s, p, r, g, "delegate", parent, landing)
            IN  Becomes(Settle(w, p, Unbind(w, t)))
    BY DEF Delegate, Context
  <1> DEFINE w == Writes(s, p, r, g, "delegate", parent, landing)
             undone == Unbind(w, t)
             z == IF p \in w.excluded THEN undone ELSE w
  <1>2. Becomes(z) /\ UNCHANGED defs
    BY <1>1 DEF Settle, Delegate
  <1>3. Good(s) /\ a \in Pairs /\ a.peer = p
    BY PairsAre DEF RoleInv
  <1>4. parent \in Nat
    <2>1. d \in Pairs /\ s.links = links
      BY PairsAre DEF RoleAssumption, Context
    <2> HIDE DEF s, d
    <2> QED BY <1>3, <2>1 DEF Good, Contexts
  <1> HIDE DEF s, a, d, parent
  <1>5. Written(s, w, p, g)
    BY <1>3, <1>4, WritesIs DEF Vias
  <1> HIDE DEF w
  <1>6. w \in Contexts /\ w.links = s.links /\ w.behind = s.behind /\ w.assigned = s.assigned
    BY <1>5 DEF Written
  <1>7. /\ undone \in Contexts /\ undone.minted = w.minted /\ undone.excluded = w.excluded
        /\ undone.tokens = w.tokens \ {t} /\ undone.links = s.links
        /\ undone.assigned = s.assigned /\ undone.behind = s.behind
    BY <1>6 DEF Contexts, Unbind
  <1> HIDE DEF undone
  <1>8. /\ z \in Contexts /\ z.minted = w.minted /\ z.excluded = w.excluded
        /\ z.tokens \subseteq w.tokens
        /\ p \in w.excluded => Len(s.minted) + 1 \notin z.tokens
        /\ z.links = s.links /\ z.assigned = s.assigned /\ z.behind = s.behind
    BY <1>6, <1>7
  <1> HIDE DEF z
  <1>9. /\ \A b \in Pairs \ {a} : z.links[b] = s.links[b]
        /\ z.links[a] \in {s.links[a], Len(s.minted) + 1, 0}
        /\ z.assigned \subseteq s.assigned \cup {a} /\ s.behind \ {a} \subseteq z.behind
    BY <1>8
  <1>10. Good(z) /\ Carries(s, z, Pairs)
    BY <1>3, <1>5, <1>8, <1>9, Settled
  <1> QED BY <1>2, <1>10, CarriesInv DEF s

LEMMA HandleInv ==
    ASSUME RoleAssumption, RoleInv, Handle
    PROVE  RoleInv'
  <1>1. PICK r \in Roles :
            \/ \E g \in Grants, caller \in Callers : Define(r, g, caller)
            \/ \E caller \in Callers : ReDeriveRole(r, caller)
            \/ \E p \in Peers : Assign(p, r) \/ Unassign(p, r)
            \/ \E p \in Peers, scope \in Grants : Delegate(p, r, scope)
    BY DEF Handle
  <1>2. ASSUME NEW g \in Grants, NEW caller \in Callers, Define(r, g, caller) PROVE RoleInv'
    <2>1. Cascade(r, g, caller) /\ defs' = [defs EXCEPT ![r] = g]
      BY <1>2 DEF Define
    <2> QED BY <2>1, CascadeInv
  <1>3. ASSUME NEW caller \in Callers, ReDeriveRole(r, caller) PROVE RoleInv'
    <2>1. Cascade(r, defs[r], caller) /\ defs' = defs
      BY <1>3 DEF ReDeriveRole
    <2>2. defs[r] \in Grants \cup {Empty, NoRole} /\ defs = [defs EXCEPT ![r] = defs[r]]
      BY DEF RoleInv
    <2> QED BY <2>1, <2>2, CascadeInv
  <1>4. ASSUME NEW p \in Peers, Assign(p, r) PROVE RoleInv'
    BY <1>4, AssignInv
  <1>5. ASSUME NEW p \in Peers, Unassign(p, r) PROVE RoleInv'
    <2>1. {Pair(p, r)} \in SUBSET Pairs /\ Becomes(Drop(Context, {Pair(p, r)})) /\ UNCHANGED defs
      BY <1>5, PairsAre DEF Unassign
    <2> QED BY <2>1, DropInv
  <1>6. ASSUME NEW p \in Peers, NEW scope \in Grants, Delegate(p, r, scope) PROVE RoleInv'
    BY <1>6, DelegateInv
  <1> QED BY <1>1, <1>2, <1>3, <1>4, <1>5, <1>6

LEMMA HandlePeerInv ==
    ASSUME RoleInv, HandlePeer
    PROVE  RoleInv'
  <1>1. PICK p \in Peers : UnassignAll(p) \/ Exclude(p) \/ Unexclude(p)
    BY DEF HandlePeer
  <1>2. CASE UnassignAll(p)
    <2> DEFINE A == {a \in assigned : a.peer = p}
    <2>1. A \in SUBSET Pairs
      BY DEF RoleInv, Good, Contexts, Context
    <2>2. Becomes(Drop(Context, A)) /\ UNCHANGED defs
      BY <1>2 DEF UnassignAll
    <2> HIDE DEF A
    <2> QED BY <2>1, <2>2, DropInv
  <1>3. CASE Exclude(p)
    BY <1>3, LandsInv DEF Exclude, Lands
  <1>4. CASE Unexclude(p)
    BY <1>4, UnexcludeInv
  <1> QED BY <1>1, <1>2, <1>3, <1>4

LEMMA ArrivesInv ==
    ASSUME RoleAssumption, RoleInv, Arrives
    PROVE  RoleInv'
  <1>1. ASSUME NEW r \in Roles, NEW g \in Grants \cup {Empty, NoRole}, PutDefinition(r, g)
        PROVE  RoleInv'
    <2>1. Cascade(r, g, Everything) /\ defs' = [defs EXCEPT ![r] = g]
      BY <1>1 DEF PutDefinition
    <2> QED BY <2>1, CascadeInv
  <1>2. ASSUME NEW p \in Peers, Becomes(Lands(Context, p)), UNCHANGED defs PROVE RoleInv'
    BY <1>2, LandsInv
  <1> QED BY <1>1, <1>2 DEF Arrives

LEMMA RoleInit ==
    ASSUME Init PROVE RoleInv
  <1>1. defs \in [Roles -> Grants \cup {Empty, NoRole}]
    BY DEF Init
  <1>2. /\ Context.assigned = {} /\ Context.excluded \in SUBSET Peers /\ Context.minted = << >>
        /\ Context.tokens = {} /\ Context.links = [a \in Pairs |-> 0] /\ Context.behind = {}
    BY DEF Init, Context
  <1>3. << >> \in Seq(Minted)
    BY EmptySeq
  <1>4. Context \in Contexts
    <2>1. [a \in Pairs |-> 0] \in [Pairs -> Nat]
      OBVIOUS
    <2> QED BY <1>3, <2>1 DEF Init, Context, Contexts
  <1>5. Good(Context)
    BY <1>2, <1>4 DEF Good
  <1>6. Follows(Context, defs, Pairs)
    BY <1>2 DEF Follows
  <1> QED BY <1>1, <1>5, <1>6 DEF RoleInv

LEMMA RoleStep ==
    ASSUME RoleAssumption, RoleInv, [Next]_vars
    PROVE  RoleInv'
  <1>1. ASSUME NEW p \in Peers, NEW g \in Grants, Startup(p, g) PROVE RoleInv'
    BY <1>1, StartupInv
  <1>2. CASE UNCHANGED <<defs, assigned, excluded, minted, tokens, links, behind>>
    BY <1>2 DEF RoleInv, Context, Good, Follows, Contexts, Pairs
  <1>3. CASE Register
    BY <1>2, <1>3 DEF Register
  <1>4. CASE Handle
    BY <1>4, HandleInv
  <1>5. CASE HandlePeer
    BY <1>5, HandlePeerInv
  <1>6. CASE Arrives
    BY <1>6, ArrivesInv
  <1>7. CASE UNCHANGED vars
    BY <1>2, <1>7 DEF vars
  <1> QED BY <1>1, <1>3, <1>4, <1>5, <1>6, <1>7 DEF Next

(* The inductive invariant of the role-derived tokens: what is bound was   *)
(* minted, every link names a token of its own assignee, an excluded peer  *)
(* holds none, and the linked tokens follow the definitions, through every *)
(* handler, watcher and exclusion that lands inside one.                   *)
THEOREM RoleInvCorrect == ASSUME RoleAssumption PROVE Spec => []RoleInv
  BY RoleInit, RoleStep, PTL DEF Spec

(* An excluded peer holds no role-derived token, in every run of every     *)
(* instance: the sweeps and the check after the last write leave no gap,   *)
(* wherever the exclusion lands (SEC-2).                                   *)
THEOREM ExcludedCorrect == ASSUME RoleAssumption PROVE Spec => []ExcludedHoldsNothing
  <1>1. RoleInv => ExcludedHoldsNothing
    BY DEF RoleInv, Good, Context, ExcludedHoldsNothing
  <1> QED BY <1>1, RoleInvCorrect, PTL

(* A linked token carries the grants of the current definition: a cascade  *)
(* of any length, over any order of the paths, misses no assignment.       *)
THEOREM FollowCorrect == ASSUME RoleAssumption PROVE Spec => []TokensFollowDefinition
  <1>1. RoleInv => TokensFollowDefinition
    BY DEF RoleInv, Good, Contexts, Follows, Context, TokensFollowDefinition
  <1> QED BY <1>1, RoleInvCorrect, PTL

-----------------------------------------------------------------------------
(* Capability tokens.  A pattern is a sequence of segments, and what one   *)
(* covers or matches is compared segment by segment.                       *)
USE DEF Paths

(* What a star at the end of a pattern asks of a value. *)
LEMMA UnderFront ==
    ASSUME NEW p \in Paths, NEW v \in Paths, EndsStar(p)
    PROVE  Under(Front(p), v) <=> Len(v) >= Len(p) /\ \A i \in 1 .. Len(p) - 1 : v[i] = p[i]
  <1> DEFINE f == Front(p)
  <1>1. f \in Seq(Segments) /\ Len(f) = Len(p) - 1 /\ \A i \in 1 .. Len(p) - 1 : f[i] = p[i]
    BY DEF Front, EndsStar, Paths
  <1>2. CASE Len(v) >= Len(p)
    <2>1. SubSeq(v, 1, Len(f)) \in Seq(Segments) /\ Len(SubSeq(v, 1, Len(f))) = Len(f)
          /\ \A i \in 1 .. Len(f) : SubSeq(v, 1, Len(f))[i] = v[i]
      BY <1>1, <1>2 DEF Paths, EndsStar
    <2>2. SubSeq(v, 1, Len(f)) = f <=> \A i \in 1 .. Len(f) : v[i] = f[i]
      <3>1. ASSUME \A i \in 1 .. Len(f) : v[i] = f[i] PROVE SubSeq(v, 1, Len(f)) = f
        BY <1>1, <2>1, <3>1, SeqEqual DEF Paths
      <3> QED BY <2>1, <3>1
    <2> HIDE DEF f
    <2> QED BY <1>1, <1>2, <2>2 DEF Under, f, EndsStar
  <1>3. CASE ~(Len(v) >= Len(p))
    BY <1>1, <1>3 DEF Under, Paths
  <1> QED BY <1>2, <1>3

(* A pattern of identifiers covers what the patterns it covers match. *)
LEMMA IdTransitive ==
    ASSUME NEW p \in Paths, NEW c \in Paths, NEW v \in Paths, IdMatches(p, c), IdMatches(c, v)
    PROVE  IdMatches(p, v)
  <1>1. CASE p = Star
    BY <1>1 DEF IdMatches
  <1>2. CASE p # Star /\ EndsStar(p)
    <2>1. Len(c) >= Len(p) /\ \A i \in 1 .. Len(p) - 1 : c[i] = p[i]
      BY <1>2, UnderFront DEF IdMatches
    <2>2. c # Star /\ Len(p) \in Nat /\ Len(c) \in Nat /\ Len(v) \in Nat
      BY <1>2, <2>1 DEF EndsStar, Star, Paths
    <2>3. CASE EndsStar(c)
      <3>1. Len(v) >= Len(c) /\ \A i \in 1 .. Len(c) - 1 : v[i] = c[i]
        BY <2>2, <2>3, UnderFront DEF IdMatches
      <3>2. Len(v) >= Len(p) /\ \A i \in 1 .. Len(p) - 1 : v[i] = p[i]
        BY <2>1, <2>2, <3>1
      <3> QED BY <1>2, <3>2, UnderFront DEF IdMatches
    <2>4. CASE ~EndsStar(c)
      BY <2>2, <2>4 DEF IdMatches
    <2> QED BY <2>3, <2>4
  <1>3. CASE p # Star /\ ~EndsStar(p)
    BY <1>3 DEF IdMatches
  <1> QED BY <1>1, <1>2, <1>3

LEMMA IdReflexive ==
    ASSUME NEW p \in Paths
    PROVE  IdMatches(p, p)
  <1>1. CASE EndsStar(p)
    BY <1>1, UnderFront DEF IdMatches, Paths
  <1>2. CASE ~EndsStar(p)
    BY <1>2 DEF IdMatches
  <1> QED BY <1>1, <1>2

LEMMA OneStar ==
    ASSUME CapabilityAssumption, NEW p \in Paths, Len(p) <= 1, Len(p) >= 1, p[1] = "*"
    PROVE  p = Star
  <1>1. Star \in Paths
    BY DEF Star, CapabilityAssumption
  <1>2. Len(Star) = 1
    BY DEF Star
  <1>3. Star[1] = "*"
    BY DEF Star
  <1> QED BY <1>1, <1>2, <1>3, SeqEqual

LEMMA BeyondPeer ==
    ASSUME NEW u \in Paths, Len(u) >= 3
    PROVE  /\ Beyond(u, 2) \in Paths /\ Len(Beyond(u, 2)) = Len(u) - 2
           /\ \A i \in 1 .. Len(u) - 2 : Beyond(u, 2)[i] = u[i + 2]
  <1>1. /\ Beyond(u, 2) \in Seq(Segments) /\ Len(Beyond(u, 2)) = Len(u) - 2
        /\ \A i \in 1 .. Len(u) - 2 : Beyond(u, 2)[i] = u[i + 2]
    BY SubSeqProperties DEF Beyond
  <1>2. Beyond(u, 2) # <<>>
    BY <1>1
  <1> QED BY <1>1, <1>2

(* Where a pattern names its peer, so does what it matches. *)
LEMMA Peeled ==
    ASSUME CapabilityAssumption, NEW c \in Paths, NEW u \in Paths, HasPeer(c), IdMatches(c, u)
    PROVE  HasPeer(u) /\ IdMatches(Beyond(c, 2), Beyond(u, 2))
  <1>0. Len(c) >= 3 /\ c[1] = "/" /\ c # Star /\ Len(c) \in Nat /\ Len(u) \in Nat
    BY DEF HasPeer, Star, Paths
  <1>1. CASE EndsStar(c)
    <2>1. Len(u) >= Len(c) /\ \A i \in 1 .. Len(c) - 1 : u[i] = c[i]
      <3>1. Under(Front(c), u)
        BY <1>0, <1>1 DEF IdMatches
      <3> QED BY <1>1, <3>1, UnderFront
    <2>2. HasPeer(u)
      BY <1>0, <2>1 DEF HasPeer
    <2> DEFINE C == Beyond(c, 2)  U == Beyond(u, 2)
    <2>3. /\ C \in Paths /\ Len(C) = Len(c) - 2 /\ \A i \in 1 .. Len(c) - 2 : C[i] = c[i + 2]
          /\ U \in Paths /\ Len(U) = Len(u) - 2 /\ \A i \in 1 .. Len(u) - 2 : U[i] = u[i + 2]
      BY <1>0, <2>1, BeyondPeer
    <2> HIDE DEF C, U
    <2>4. CASE Len(c) = 3
      <3>1. Len(C) <= 1 /\ Len(C) >= 1 /\ C[1] = "*"
        BY <1>0, <1>1, <2>3, <2>4 DEF EndsStar, Last
      <3>2. C = Star
        BY <2>3, <3>1, OneStar
      <3> QED BY <2>2, <3>2 DEF IdMatches, C, U
    <2>5. CASE Len(c) # 3
      <3>1. EndsStar(C) /\ Len(C) >= 2
        BY <1>0, <1>1, <2>3, <2>5 DEF EndsStar, Last
      <3>2. Len(U) >= Len(C) /\ \A i \in 1 .. Len(C) - 1 : U[i] = C[i]
        <4>1. Len(c) \in Nat /\ Len(u) \in Nat /\ Len(c) >= 3 /\ Len(u) >= Len(c)
          BY <1>0, <2>1
        <4>2. ASSUME NEW i \in 1 .. Len(C) - 1 PROVE U[i] = C[i]
          <5>1. i \in 1 .. Len(c) - 2 /\ i \in 1 .. Len(u) - 2 /\ i + 2 \in 1 .. Len(c) - 1
            BY <2>3, <4>1
          <5> QED BY <2>1, <2>3, <5>1
        <4> QED BY <2>3, <4>1, <4>2
      <3>3. Under(Front(C), U)
        BY <2>3, <3>1, <3>2, UnderFront
      <3> QED BY <2>2, <3>1, <3>3 DEF IdMatches, C, U, Star
    <2> QED BY <2>4, <2>5
  <1>2. CASE ~EndsStar(c)
    <2>1. c = u
      BY <1>0, <1>2 DEF IdMatches
    <2> QED BY <1>0, <2>1, IdReflexive, BeyondPeer
  <1> QED BY <1>1, <1>2

LEMMA MatchesIs ==
    ASSUME NEW p \in Paths, NEW u \in Paths
    PROVE  Matches(p, u) <=>
              /\ p # Never /\ u # Never
              /\ AnyPeer(p) => HasPeer(u) /\ IdMatches(Beyond(p, 2), Beyond(u, 2))
              /\ ~AnyPeer(p) => IdMatches(p, u)
  BY DEF Matches

(* What a pattern with a peer matches is of a peer, and matches beyond it. *)
LEMMA MatchesBeyond ==
    ASSUME CapabilityAssumption, NEW c \in Paths, NEW u \in Paths, HasPeer(c), Matches(c, u)
    PROVE  HasPeer(u) /\ IdMatches(Beyond(c, 2), Beyond(u, 2))
  BY MatchesIs, Peeled

(* A pattern of no peer that covers one of any peer covers every path. *)
LEMMA PastWide ==
    ASSUME NEW p \in Paths, NEW c \in Paths, NEW u \in Paths,
           ~AnyPeer(p), AnyPeer(c), IdMatches(p, c), HasPeer(u)
    PROVE  IdMatches(p, u)
  <1>1. CASE p = Star
    BY <1>1 DEF IdMatches
  <1>2. CASE p # Star /\ EndsStar(p)
    <2>1. Len(c) >= Len(p) /\ \A i \in 1 .. Len(p) - 1 : c[i] = p[i]
      BY <1>2, UnderFront DEF IdMatches
    <2>2. Len(p) \in Nat /\ Len(p) >= 2 /\ c[1] = "/" /\ c[2] = "*"
      BY <1>2 DEF AnyPeer, EndsStar
    <2>3. p[1] = "/"
      BY <2>1, <2>2
    <2>4. Len(p) <= 2
      <3>1. ASSUME Len(p) >= 3 PROVE FALSE
        <4>1. p[2] = "*"
          BY <2>1, <2>2, <3>1
        <4> QED BY <2>3, <3>1, <4>1 DEF AnyPeer
      <3> QED BY <2>2, <3>1
    <2>5. Len(u) >= 3 /\ u[1] = "/"
      BY DEF HasPeer
    <2>6. Under(Front(p), u)
      <3>1. \A i \in 1 .. Len(p) - 1 : u[i] = p[i]
        BY <2>2, <2>3, <2>4, <2>5
      <3> QED BY <1>2, <2>2, <2>4, <2>5, <3>1, UnderFront
    <2> QED BY <1>2, <2>6 DEF IdMatches
  <1>3. CASE p # Star /\ ~EndsStar(p)
    BY <1>3 DEF IdMatches
  <1> QED BY <1>1, <1>2, <1>3

(* The pattern of everything names no peer. *)
LEMMA StarIs ==
    ASSUME CapabilityAssumption
    PROVE  Star \in Paths /\ ~AnyPeer(Star) /\ ~EndsStar(Star) /\ Star # Never
  <1>1. Star \in Paths
    BY DEF Star, CapabilityAssumption
  <1>2. Len(Star) <= 1
    BY DEF Star
  <1>3. Len(Never) >= 2
    BY DEF Never
  <1>4. Star # Never
    BY <1>2, <1>3
  <1> QED BY <1>1, <1>2, <1>4 DEF AnyPeer, EndsStar

(* A star at the end, or for the peer: neither is the path that is never.  *)
LEMMA NotNever ==
    ASSUME NEW p \in Paths, EndsStar(p) \/ AnyPeer(p)
    PROVE  p # Never
  <1>1. Len(Never) = 2
    BY DEF Never
  <1>2. Never[2] = "never-match"
    BY DEF Never
  <1> QED BY <1>1, <1>2 DEF EndsStar, AnyPeer, Last

(* pattern_covers(): what a pattern covers matches no more. *)
LEMMA CoversMatches ==
    ASSUME CapabilityAssumption, NEW p \in Paths, NEW c \in Paths, NEW u \in Paths,
           PatternCovers(p, c), Matches(c, u), p # Anything \/ HasPeer(u)
    PROVE  Matches(p, u)
  <1>0. u # Never
    BY MatchesIs
  <1>1. CASE p = c
    BY <1>1
  <1>2. CASE p = Star
    BY <1>0, <1>2, StarIs, MatchesIs DEF IdMatches
  <1>3. CASE p = Anything
    <2>1. Len(p) <= 3 /\ Len(p) >= 3
      BY <1>3 DEF Anything
    <2>2. p[1] = "/" /\ p[2] = "*"
      BY <1>3 DEF Anything
    <2>3. p[3] = "*"
      BY <1>3 DEF Anything
    <2>4. Beyond(p, 2) = Star
      <3>1. Beyond(p, 2) \in Paths /\ Len(Beyond(p, 2)) <= 1 /\ Len(Beyond(p, 2)) >= 1 /\ Beyond(p, 2)[1] = p[1 + 2]
        BY <2>1, BeyondPeer
      <3> QED BY <2>3, <3>1, OneStar
    <2>5. AnyPeer(p)
      BY <2>1, <2>2 DEF AnyPeer
    <2> QED BY <1>0, <1>3, <2>4, <2>5, NotNever, MatchesIs DEF IdMatches
  <1>4. CASE EndsStar(p) /\ Under(Front(p), c)
    <2>1. p # Star /\ IdMatches(p, c)
      BY <1>4, StarIs DEF IdMatches
    <2>2. CASE AnyPeer(p)
      <3>1. HasPeer(p)
        BY <2>2 DEF AnyPeer, HasPeer
      <3>2. HasPeer(c) /\ IdMatches(Beyond(p, 2), Beyond(c, 2))
        BY <2>1, <3>1, Peeled
      <3>3. HasPeer(u) /\ IdMatches(Beyond(c, 2), Beyond(u, 2))
        BY <3>2, MatchesBeyond
      <3>4. Beyond(p, 2) \in Paths /\ Beyond(c, 2) \in Paths /\ Beyond(u, 2) \in Paths
        BY <3>1, <3>2, <3>3, BeyondPeer DEF HasPeer
      <3>5. IdMatches(Beyond(p, 2), Beyond(u, 2))
        BY <3>2, <3>3, <3>4, IdTransitive
      <3> QED BY <1>0, <2>2, <3>3, <3>5, NotNever, MatchesIs
    <2>3. CASE ~AnyPeer(p)
      <3>1. CASE AnyPeer(c)
        <4>1. HasPeer(u)
          BY <3>1, MatchesIs
        <4>2. IdMatches(p, u)
          BY <2>1, <2>3, <3>1, <4>1, PastWide
        <4> QED BY <1>0, <1>4, <2>3, <4>2, NotNever, MatchesIs
      <3>2. CASE ~AnyPeer(c)
        <4>1. IdMatches(p, u)
          BY <2>1, <3>2, MatchesIs, IdTransitive
        <4> QED BY <1>0, <1>4, <2>3, <4>1, NotNever, MatchesIs
      <3> QED BY <3>1, <3>2
    <2> QED BY <2>2, <2>3
  <1>5. CASE AnyPeer(p) /\ HasPeer(c) /\ (Beyond(p, 2) = Beyond(c, 2) \/ IdMatches(Beyond(p, 2), Beyond(c, 2)))
    <2>1. HasPeer(u) /\ IdMatches(Beyond(c, 2), Beyond(u, 2))
      BY <1>5, MatchesBeyond
    <2>2. Beyond(p, 2) \in Paths /\ Beyond(c, 2) \in Paths /\ Beyond(u, 2) \in Paths
      BY <1>5, <2>1, BeyondPeer DEF HasPeer, AnyPeer
    <2>3. IdMatches(Beyond(p, 2), Beyond(u, 2))
      BY <1>5, <2>1, <2>2, IdTransitive
    <2> QED BY <1>0, <1>5, <2>1, <2>3, NotNever, MatchesIs
  <1> QED BY <1>1, <1>2, <1>3, <1>4, <1>5 DEF PatternCovers

(* What matches a pattern matches all that the pattern does. *)
LEMMA MatchesTransitive ==
    ASSUME CapabilityAssumption, NEW c \in Paths, NEW p \in Paths, NEW u \in Paths, Matches(c, p), Matches(p, u)
    PROVE  Matches(c, u)
  <1>0. c # Never /\ p # Never /\ u # Never
    BY MatchesIs
  <1>1. CASE AnyPeer(c)
    <2>1. HasPeer(p) /\ IdMatches(Beyond(c, 2), Beyond(p, 2))
      BY <1>1, MatchesIs
    <2>2. HasPeer(u) /\ IdMatches(Beyond(p, 2), Beyond(u, 2))
      BY <2>1, MatchesBeyond
    <2>3. Beyond(c, 2) \in Paths /\ Beyond(p, 2) \in Paths /\ Beyond(u, 2) \in Paths
      BY <1>1, <2>1, <2>2, BeyondPeer DEF HasPeer, AnyPeer
    <2> QED BY <1>0, <1>1, <2>1, <2>2, <2>3, IdTransitive, MatchesIs
  <1>2. CASE ~AnyPeer(c)
    <2>1. IdMatches(c, p)
      BY <1>2, MatchesIs
    <2>2. IdMatches(c, u)
      <3>1. CASE AnyPeer(p)
        BY <1>2, <2>1, <3>1, MatchesIs, PastWide
      <3>2. CASE ~AnyPeer(p)
        BY <2>1, <3>2, MatchesIs, IdTransitive
      <3> QED BY <3>1, <3>2
    <2> QED BY <1>0, <1>2, <2>2, MatchesIs
  <1> QED BY <1>1, <1>2

(* A canonical path or pattern is absolute, and canonical in every frame. *)
LEMMA CanonicalIs ==
    ASSUME CapabilityAssumption, NEW q \in Paths, NEW f \in Hosts
    PROVE  LET p == Canonicalize(q, f)
           IN  p \in Paths /\ p[1] = "/" /\ \A g : Canonicalize(p, g) = p
  <1> DEFINE p == Canonicalize(q, f)
  <1>1. Never \in Paths /\ Never[1] = "/"
    BY DEF Never, CapabilityAssumption
  <1>2. <<"/", f>> \o q \in Paths /\ (<<"/", f>> \o q)[1] = "/"
    <2>1. <<"/", f>> \in Paths /\ <<"/", f>>[1] = "/" /\ Len(<<"/", f>>) >= 1
      BY DEF CapabilityAssumption
    <2> QED BY <2>1, ConcatProperties
  <1>3. p \in {q, Never, <<"/", f>> \o q} /\ (p = q => p[1] = "/" \/ q \in {Never, <<"/", f>> \o q})
    <2>1. CASE Len(q) >= 2 /\ q[1] \in {".", "..", "*"}
      BY <2>1 DEF Canonicalize
    <2>2. CASE q[1] = "/"
      BY <2>2 DEF Canonicalize
    <2>3. CASE ~(Len(q) >= 2 /\ q[1] \in {".", "..", "*"}) /\ q[1] # "/"
      BY <2>3 DEF Canonicalize
    <2> QED BY <2>1, <2>2, <2>3
  <1>4. p \in Paths /\ p[1] = "/"
    BY <1>1, <1>2, <1>3
  <1> HIDE DEF p
  <1>5. ASSUME NEW g PROVE Canonicalize(p, g) = p
    BY <1>4 DEF Canonicalize
  <1> QED BY <1>4, <1>5 DEF p

(* A scope read in a frame is one of canonical patterns. *)
LEMMA FramedIs ==
    ASSUME CapabilityAssumption, NEW scope \in Scopes, NEW f \in Hosts
    PROVE  /\ Framed(scope, f) \in Scopes
           /\ \A p \in Framed(scope, f).exclude : p[1] = "/" /\ (Unmatchable(p) <=> p = Never)
  BY CanonicalIs DEF Framed, Scopes, Unmatchable

(* What a scope of identifiers within another one holds is in the other.   *)
LEMMA IdScopeWithin ==
    ASSUME NEW child \in Scopes, NEW parent \in Scopes, NEW v \in Paths,
           IdIncludesSubset(child, parent), IdExcludesInherited(child, parent), InIdScope(child, v)
    PROVE  InIdScope(parent, v)
  <1>1. PICK c \in child.include : IdMatches(c, v)
    BY DEF InIdScope
  <1>2. PICK p \in parent.include : IdMatches(p, c)
    BY DEF IdIncludesSubset
  <1>3. IdMatches(p, v)
    BY <1>1, <1>2, IdTransitive DEF Scopes
  <1>4. ASSUME NEW q \in parent.exclude, IdMatches(q, v) PROVE FALSE
    <2>1. PICK e \in child.exclude : IdMatches(e, q)
      BY DEF IdExcludesInherited
    <2>2. IdMatches(e, v)
      BY <1>4, <2>1, IdTransitive DEF Scopes
    <2> QED BY <2>2 DEF InIdScope
  <1> QED BY <1>3, <1>4 DEF InIdScope

(* The same of paths, each side in the frame of its granter. *)
LEMMA PathsWithin ==
    ASSUME CapabilityAssumption, NEW child \in Scopes, NEW parent \in Scopes,
           NEW f \in Hosts, NEW g \in Hosts, NEW u \in Paths, HasPeer(u),
           IncludesSubset(Framed(child, f), Framed(parent, g)),
           ExcludesInherited(Framed(child, f), Framed(parent, g)),
           InScope(Framed(child, f), u)
    PROVE  InScope(Framed(parent, g), u)
  <1> DEFINE C == Framed(child, f)  P == Framed(parent, g)
  <1>0. C \in Scopes /\ P \in Scopes /\ \A p \in P.exclude : Unmatchable(p) <=> p = Never
    BY FramedIs
  <1> HIDE DEF C, P
  <1>1. PICK c \in C.include : Matches(c, u)
    BY DEF InScope, C
  <1>2. PICK p \in P.include : PatternCovers(p, c)
    BY DEF IncludesSubset, C, P
  <1>3. Matches(p, u)
    BY <1>0, <1>1, <1>2, CoversMatches DEF Scopes
  <1>4. ASSUME NEW q \in P.exclude PROVE ~Unmatchable(q) /\ ~Matches(q, u)
    <2>1. PICK e \in C.exclude : Matches(e, q)
      BY DEF ExcludesInherited, C, P
    <2>2. e \in Paths /\ q \in Paths
      BY <1>0 DEF Scopes
    <2>3. q # Never
      BY <2>1, <2>2, MatchesIs
    <2>4. ~Matches(e, u)
      BY DEF InScope, C
    <2> QED BY <1>0, <2>1, <2>2, <2>3, <2>4, MatchesTransitive
  <1> QED BY <1>3, <1>4 DEF InScope, P

(* An absolute pattern of no peer wildcard matches absolute paths only.    *)
LEMMA Absolute ==
    ASSUME NEW e \in Paths, NEW q \in Paths, e[1] = "/", IdMatches(e, q)
    PROVE  q[1] = "/"
  <1>1. Star[1] = "*"
    BY DEF Star
  <1>2. e # Star
    BY <1>1
  <1>3. CASE EndsStar(e)
    <2>1. Under(Front(e), q)
      BY <1>2, <1>3 DEF IdMatches
    <2>2. Len(e) >= 2 /\ \A i \in 1 .. Len(e) - 1 : q[i] = e[i]
      BY <1>3, <2>1, UnderFront DEF EndsStar
    <2>3. Len(e) \in Nat
      BY DEF Paths
    <2> QED BY <2>2, <2>3
  <1>4. CASE ~EndsStar(e)
    BY <1>2, <1>4 DEF IdMatches
  <1> QED BY <1>3, <1>4

(* The same of handlers, which are relative.  An exclude is read in a      *)
(* frame only on the child's side: no relative one of a parent is inherited. *)
LEMMA HandlersWithin ==
    ASSUME CapabilityAssumption, NEW child \in Scopes, NEW parent \in Scopes, NEW u \in Paths,
           Anything \notin parent.include, Relative(u),
           IncludesSubset(child, parent), ExcludesInherited(Framed(child, LocalPeer), parent),
           InScope(child, u)
    PROVE  InScope(parent, u)
  <1>1. PICK c \in child.include : Matches(c, u)
    BY DEF InScope
  <1>2. PICK p \in parent.include : PatternCovers(p, c)
    BY DEF IncludesSubset
  <1>3. Matches(p, u)
    BY <1>1, <1>2, CoversMatches DEF Scopes
  <1>4. ASSUME NEW q \in parent.exclude PROVE ~Unmatchable(q) /\ ~Matches(q, u)
    <2>1. Framed(child, LocalPeer) \in Scopes /\ \A e \in Framed(child, LocalPeer).exclude : e[1] = "/"
      BY FramedIs DEF CapabilityAssumption
    <2>2. PICK e \in Framed(child, LocalPeer).exclude : Matches(e, q)
      BY DEF ExcludesInherited
    <2>3. e \in Paths /\ q \in Paths /\ e[1] = "/" /\ Len(q) >= 1
      BY <2>1 DEF Scopes
    <2>4. q[1] = "/" /\ q # Never
      <3>1. CASE AnyPeer(e)
        BY <2>2, <2>3, <3>1, MatchesIs DEF HasPeer
      <3>2. CASE ~AnyPeer(e)
        BY <2>2, <2>3, <3>2, MatchesIs, Absolute
      <3> QED BY <3>1, <3>2
    <2>5. ~Unmatchable(q)
      BY <2>4 DEF Unmatchable, Canonicalize
    <2>6. ~Matches(q, u)
      <3>1. u[1] # "/"
        BY DEF Relative
      <3> QED BY <2>3, <2>4, <3>1, MatchesIs, Absolute DEF HasPeer
    <2> QED BY <2>5, <2>6
  <1> QED BY <1>3, <1>4 DEF InScope

(* A grant within another one allows no more than it (grant_subset()). *)
LEMMA GrantWithin ==
    ASSUME CapabilityAssumption, NEW c \in GrantEntries, NEW p \in GrantEntries,
           Anything \notin p.handlers.include,
           NEW f \in Hosts, NEW g \in Hosts, NEW r \in Requests,
           GrantSubset(c, p, f, g), GrantAllows(c, f, r)
    PROVE  GrantAllows(p, g, r)
  <1>1. /\ c.handlers \in Scopes /\ c.operations \in Scopes /\ c.resources \in Scopes /\ c.peers \subseteq Scopes
        /\ p.handlers \in Scopes /\ p.operations \in Scopes /\ p.resources \in Scopes /\ p.peers \subseteq Scopes
    BY DEF GrantEntries
  <1>2. PeersOf(c) \in Scopes /\ PeersOf(p) \in Scopes
    <2>1. [include |-> {<<LocalPeer>>}, exclude |-> {}] \in Scopes
      <3>1. <<LocalPeer>> \in Paths
        BY DEF CapabilityAssumption
      <3> QED BY <3>1 DEF Scopes
    <2>2. \A s : s # {} => (CHOOSE x \in s : TRUE) \in s
      OBVIOUS
    <2> QED BY <1>1, <2>1, <2>2 DEF PeersOf
  <1>3. r.handler \in Paths /\ r.operation \in Paths /\ r.peer \in Paths /\ r.resource \in Paths
        /\ HasPeer(r.resource) /\ Relative(r.handler)
    BY DEF CapabilityAssumption, HasPeer, Relative
  <1>4. InScope(p.handlers, r.handler)
    BY <1>1, <1>3, HandlersWithin DEF GrantSubset, GrantAllows
  <1>5. InIdScope(p.operations, r.operation)
    BY <1>1, <1>3, IdScopeWithin DEF GrantSubset, GrantAllows
  <1>6. InIdScope(PeersOf(p), r.peer)
    BY <1>2, <1>3, IdScopeWithin DEF GrantSubset, GrantAllows
  <1>7. InScope(Framed(p.resources, g), r.resource)
    BY <1>1, <1>3, PathsWithin DEF GrantSubset, GrantAllows
  <1> QED BY <1>4, <1>5, <1>6, <1>7 DEF GrantAllows

-----------------------------------------------------------------------------
(* Grants that say any handler with a star. *)
Sane == {g \in GrantEntries : Anything \notin g.handlers.include}

Tokens ==
    [signers : SUBSET Hosts, signed : SUBSET Hosts, threshold : Nat, grantee : Hosts,
     grants : SUBSET Sane, parent : Nat, expires : Times, created : Nat,
     caveats : {NoCaveat} \cup {o.caveats : o \in Offers}, caller : Nat,
     ceiling : {NoPolicy} \cup Policies]

(* What a token is when it is minted, of the tokens before it: a request   *)
(* has its result within the caller's grants and the policy's.             *)
Grounded(ts, t) ==
    /\ ts[t].signers # {} /\ ts[t].parent < t /\ ts[t].caller < t
    /\ ts[t].caller # NoToken =>
           /\ ts[t].signers = {LocalPeer}
           /\ Covered(ts[t].grants, ts[ts[t].caller].grants, LocalPeer, LocalPeer)
           /\ ~Later(ts[t].expires, ts[ts[t].caller].expires)
           /\ ts[t].ceiling # NoPolicy => Covered(ts[t].grants, ts[t].ceiling.grants, LocalPeer, LocalPeer)

(* The invariant does not mention chains: they are read off the parents,   *)
(* each minted before its child.                                           *)
CapabilityInv ==
    /\ capTokens \in Seq(Tokens) /\ Len(capTokens) <= MaxTokens /\ now \in Nat
    /\ policy \in [Hosts -> {NoPolicy} \cup Policies]
    /\ \A t \in DOMAIN capTokens : Grounded(capTokens, t)

LEMMA LeastIs ==
    ASSUME NEW T \in SUBSET Nat, T # {}
    PROVE  Min(T) \in T /\ \A m \in T : Min(T) <= m
  <1>1. \E n \in T : \A m \in T : n <= m
    BY Least
  <1> QED BY <1>1 DEF Min

(* A token has the earliest of the expiries that limit it. *)
LEMMA DatedIs ==
    ASSUME CapabilityAssumption, now \in Nat, NEW o \in Offers, NEW limits \in SUBSET Times
    PROVE  LET d == Dated(o, limits)
           IN  /\ d.grants = o.grants /\ d.caveats = o.caveats /\ d.expires \in Times
               /\ \A f \in limits : ~Later(d.expires, f)
  <1> DEFINE all == ({Bounded(o.ttl)} \cup limits) \ {Forever}
             d == Dated(o, limits)
  <1>1. o.ttl \in Times /\ Forever \notin Nat /\ TimeMax \in Nat
    BY DEF CapabilityAssumption
  <1>2. Bounded(o.ttl) \in Times
    BY <1>1 DEF Bounded, Times
  <1>3. all \in SUBSET Nat
    BY <1>2 DEF Times
  <1>4. d = [grants |-> o.grants, expires |-> IF all = {} THEN Forever ELSE Min(all), caveats |-> o.caveats]
    BY DEF Dated
  <1> HIDE DEF d
  <1>5. CASE all = {}
    <2>1. d.expires = Forever
      BY <1>4, <1>5
    <2>2. \A f \in limits : f = Forever
      BY <1>5
    <2> QED BY <1>4, <2>1, <2>2 DEF d, Later, Times
  <1>6. CASE all # {}
    <2>1. Min(all) \in all /\ \A m \in all : Min(all) <= m
      BY <1>3, <1>6, LeastIs
    <2>2. d.expires = Min(all)
      BY <1>4, <1>6
    <2>3. ASSUME NEW f \in limits PROVE ~Later(d.expires, f)
      <3>1. CASE f = Forever
        BY <3>1 DEF Later
      <3>2. CASE f # Forever
        <4>1. f \in all /\ f \in Nat
          BY <1>3, <3>2
        <4>2. Min(all) \in Nat /\ Min(all) <= f /\ Min(all) # Forever
          BY <1>1, <1>3, <2>1, <4>1
        <4> QED BY <2>2, <3>2, <4>1, <4>2 DEF Later
      <3> QED BY <3>1, <3>2
    <2>4. d.expires \in Times
      BY <1>3, <2>1, <2>2 DEF Times
    <2>5. d.grants = o.grants /\ d.caveats = o.caveats
      BY <1>4
    <2> QED BY <2>3, <2>4, <2>5 DEF d
  <1> QED BY <1>5, <1>6

(* A later expiry than an ancestor's is later than some parent's. *)
LEMMA LaterTransitive ==
    ASSUME CapabilityAssumption, NEW e \in Times, NEW f \in Times, NEW g \in Times, ~Later(e, f), ~Later(f, g)
    PROVE  ~Later(e, g)
  BY DEF Later, Times, CapabilityAssumption

(* What a grant allows, one of those that cover it does. *)
LEMMA CoveredAllows ==
    ASSUME CapabilityAssumption, NEW child \in SUBSET Sane, NEW parent \in SUBSET Sane,
           NEW f \in Hosts, NEW g \in Hosts, NEW r \in Requests,
           Covered(child, parent, f, g), \E x \in child : GrantAllows(x, f, r)
    PROVE  \E x \in parent : GrantAllows(x, g, r)
  <1>1. PICK c \in child : GrantAllows(c, f, r)
    OBVIOUS
  <1>2. PICK p \in parent : GrantSubset(c, p, f, g)
    BY DEF Covered
  <1>3. GrantAllows(p, g, r)
    BY <1>1, <1>2, GrantWithin DEF Sane
  <1> QED BY <1>3

LEMMA TokenIs ==
    ASSUME CapabilityInv, NEW t \in DOMAIN capTokens
    PROVE  /\ capTokens[t].signers \in SUBSET Hosts /\ capTokens[t].grants \in SUBSET Sane
           /\ capTokens[t].parent \in Nat /\ capTokens[t].expires \in Times
           /\ capTokens[t].caller \in Nat /\ capTokens[t].ceiling \in {NoPolicy} \cup Policies
           /\ t \in 1 .. Len(capTokens) /\ Len(capTokens) \in Nat
  <1>1. capTokens \in Seq(Tokens)
    BY DEF CapabilityInv
  <1>2. t \in 1 .. Len(capTokens) /\ Len(capTokens) \in Nat /\ capTokens[t] \in Tokens
    BY <1>1
  <1> QED BY <1>2 DEF Tokens

(* The peer in whose frame a token is read. *)
LEMMA FrameIs ==
    ASSUME CapabilityAssumption, CapabilityInv, NEW t \in DOMAIN capTokens
    PROVE  /\ Frame(t) \in Hosts
           /\ capTokens[t].signers = {LocalPeer} => Frame(t) = LocalPeer
  <1>1. capTokens[t].signers \in SUBSET Hosts /\ capTokens[t].signers # {} /\ LocalPeer \in Hosts
    BY TokenIs DEF CapabilityInv, Grounded, CapabilityAssumption
  <1>2. Frame(t) \in Hosts
    BY <1>1 DEF Frame
  <1>3. capTokens[t].signers = {LocalPeer} => Frame(t) = LocalPeer
    BY <1>1, FS_Singleton DEF Frame, Multi
  <1> QED BY <1>2, <1>3

-----------------------------------------------------------------------------
IsChain(f, D, par, k) ==
    f = [t \in 0 .. k |-> IF t \notin D THEN <<>> ELSE <<t>> \o f[par[t]]]

(* A recursion towards earlier tokens defines a function. *)
LEMMA ChainExists ==
    ASSUME NEW D, NEW par, NEW N \in Nat, \A t \in D : par[t] \in 0 .. t - 1, D \subseteq Nat
    PROVE  \E f : IsChain(f, D, par, N)
  <1> DEFINE One(t, s) == IF t \notin D THEN <<>> ELSE <<t>> \o s
             Reaches(k) == \E f : f = [t \in 0 .. k |-> One(t, f[par[t]])]
             T == {k \in 0 .. N : ~Reaches(k)}
  <1>0. \A t, s : t \notin D => One(t, s) = <<>>
    OBVIOUS
  <1>01. 0 \notin D
    OBVIOUS
  <1> HIDE DEF One
  <1>1. Reaches(0)
    <2> DEFINE f == [t \in 0 .. 0 |-> <<>>]
    <2>1. f = [t \in 0 .. 0 |-> One(t, f[par[t]])]
      BY <1>0, <1>01
    <2> HIDE DEF f
    <2> QED BY <2>1
  <1>2. ASSUME NEW k \in 1 .. N, Reaches(k - 1) PROVE Reaches(k)
    <2>1. PICK h : h = [t \in 0 .. (k - 1) |-> One(t, h[par[t]])]
      BY <1>2
    <2> DEFINE f == [t \in 0 .. k |-> IF t = k THEN One(k, h[par[k]]) ELSE h[t]]
    <2>2. \A t \in 0 .. (k - 1) : h[t] = One(t, h[par[t]])
      BY <2>1
    <2>3. \A t \in 0 .. (k - 1) : f[t] = h[t]
      OBVIOUS
    <2>4. f[k] = One(k, h[par[k]]) /\ DOMAIN f = 0 .. k
      OBVIOUS
    <2>5. f = [t \in 0 .. k |-> f[t]]
      OBVIOUS
    <2> HIDE DEF f
    <2>6. ASSUME NEW t \in 0 .. k PROVE f[t] = One(t, f[par[t]])
      <3>1. f[t] = One(t, h[par[t]])
        <4>1. CASE t = k
          BY <2>4, <4>1
        <4>2. CASE t # k
          BY <2>2, <2>3, <4>2
        <4> QED BY <4>1, <4>2
      <3>2. CASE t \notin D
        BY <1>0, <3>1, <3>2
      <3>3. CASE t \in D
        <4>1. par[t] \in 0 .. (k - 1)
          BY <3>3
        <4> QED BY <2>3, <3>1, <4>1
      <3> QED BY <3>2, <3>3
    <2>7. f = [t \in 0 .. k |-> One(t, f[par[t]])]
      BY <2>5, <2>6
    <2> QED BY <2>7
  <1> HIDE DEF Reaches
  <1>3. T = {}
    <2> SUFFICES ASSUME T # {} PROVE FALSE
      OBVIOUS
    <2>1. T \in SUBSET Nat
      OBVIOUS
    <2>2. PICK k \in T : \A m \in T : k <= m
      BY <2>1, Least
    <2>3. k # 0 /\ k \in 0 .. N /\ ~Reaches(k)
      BY <1>1, <2>2
    <2>4. k \in 1 .. N /\ k - 1 \in 0 .. N /\ ~(k <= k - 1)
      BY <2>3
    <2>5. Reaches(k - 1)
      BY <2>2, <2>4
    <2> QED BY <1>2, <2>3, <2>4, <2>5
  <1>4. Reaches(N)
    BY <1>3
  <1> QED BY <1>4 DEF Reaches, One, IsChain

(* The chain is the function its recursive definition describes. *)
LEMMA ChainIs ==
    ASSUME CapabilityAssumption, CapabilityInv
    PROVE  \A t \in 0 .. MaxTokens :
              Chain[t] = IF t \notin DOMAIN capTokens THEN <<>> ELSE <<t>> \o Chain[ParentOf(t)]
  <1> DEFINE D == DOMAIN capTokens
             par == [t \in D |-> ParentOf(t)]
             Is(f) == IsChain(f, D, par, MaxTokens)
             Was(f) == f = [t \in 0 .. MaxTokens |-> IF t \notin D THEN <<>> ELSE <<t>> \o f[ParentOf(t)]]
  <1>1. D = 1 .. Len(capTokens) /\ Len(capTokens) \in Nat /\ MaxTokens \in Nat
    BY DEF CapabilityInv, CapabilityAssumption
  <1>2. \A t \in D : par[t] \in 0 .. t - 1
    <2>1. ASSUME NEW t \in D PROVE capTokens[t].parent \in 0 .. t - 1
      BY <1>1, TokenIs DEF CapabilityInv, Grounded
    <2> QED BY <2>1 DEF ParentOf
  <1>3. \E f : Is(f)
    <2>1. D \subseteq Nat
      BY <1>1
    <2> HIDE DEF D, par
    <2> QED BY <1>1, <1>2, <2>1, ChainExists
  <1>4. \A f : Is(f) <=> Was(f)
    BY DEF IsChain
  <1>5. Chain = CHOOSE f : Was(f)
    BY DEF Chain
  <1>6. Was(Chain)
    <2> HIDE DEF Is, Was
    <2> QED BY <1>3, <1>4, <1>5, Zenon
  <1> HIDE DEF D
  <1>7. \A t \in 0 .. MaxTokens : Chain[t] = IF t \notin D THEN <<>> ELSE <<t>> \o Chain[ParentOf(t)]
    BY <1>6
  <1> QED BY <1>7 DEF D

(* A chain is of tokens that were minted and begins with its own. *)
LEMMA ChainHolds ==
    ASSUME CapabilityAssumption, CapabilityInv, NEW t \in DOMAIN capTokens
    PROVE  Chain[t] \in Seq(DOMAIN capTokens) /\ Len(Chain[t]) >= 1 /\ Chain[t][1] = t
  <1> DEFINE D == DOMAIN capTokens
             Goes(k) == Chain[k] \in Seq(D)
             T == {k \in 0 .. MaxTokens : ~Goes(k)}
  <1>1. D = 1 .. Len(capTokens) /\ Len(capTokens) \in Nat /\ MaxTokens \in Nat /\ Len(capTokens) <= MaxTokens
    BY DEF CapabilityInv, CapabilityAssumption
  <1>2. \A k \in D : ParentOf(k) \in 0 .. k - 1
    BY <1>1, TokenIs DEF CapabilityInv, Grounded, ParentOf
  <1>3. T = {}
    <2> SUFFICES ASSUME T # {} PROVE FALSE
      OBVIOUS
    <2>1. T \in SUBSET Nat
      OBVIOUS
    <2>2. PICK k \in T : \A m \in T : k <= m
      BY <2>1, Least
    <2>3. CASE k \notin D
      <3>1. Chain[k] = <<>>
        BY <2>2, <2>3, ChainIs
      <3>2. <<>> \in Seq(D)
        OBVIOUS
      <3> QED BY <2>2, <3>1, <3>2
    <2>4. CASE k \in D
      <3>1. Chain[k] = <<k>> \o Chain[ParentOf(k)]
        BY <2>2, <2>4, ChainIs
      <3>2. ParentOf(k) \in 0 .. MaxTokens /\ ~(k <= ParentOf(k))
        BY <1>1, <1>2, <2>2, <2>4
      <3>3. Goes(ParentOf(k))
        BY <2>2, <3>2
      <3>4. Goes(k)
        BY <2>4, <3>1, <3>3
      <3> QED BY <2>2, <3>4
    <2> QED BY <2>3, <2>4
  <1>4. t \in 0 .. MaxTokens /\ ParentOf(t) \in 0 .. MaxTokens
    BY <1>1, <1>2
  <1>5. Chain[t] = <<t>> \o Chain[ParentOf(t)]
    BY <1>4, ChainIs
  <1>6. Chain[ParentOf(t)] \in Seq(D)
    BY <1>3, <1>4
  <1> QED BY <1>5, <1>6

(* Along a chain that verifies nothing is added. *)
LEMMA AlongChain ==
    ASSUME CapabilityAssumption, CapabilityInv, NEW t \in DOMAIN capTokens, Verified(t)
    PROVE  \A i \in 1 .. Len(Chain[t]) :
              /\ ~Later(capTokens[t].expires, capTokens[Chain[t][i]].expires)
              /\ \A r \in Requests : Allows(t, r) => Allows(Chain[t][i], r)
  <1> DEFINE ch == Chain[t]
             Holds(i) == /\ ~Later(capTokens[t].expires, capTokens[ch[i]].expires)
                         /\ \A r \in Requests : Allows(t, r) => Allows(ch[i], r)
             T == {i \in 1 .. Len(ch) : ~Holds(i)}
  <1>1. ch \in Seq(DOMAIN capTokens) /\ Len(ch) >= 1 /\ ch[1] = t /\ Len(ch) \in Nat
    BY ChainHolds
  <1>2. \A i \in 1 .. Len(ch) - 1 : LinkHolds(ch[i], ch[i + 1], i - 1)
    BY DEF Verified
  <1> HIDE DEF ch
  <1>3. \A i \in 1 .. Len(ch) : ch[i] \in DOMAIN capTokens
    BY <1>1
  <1>4. \A k \in DOMAIN capTokens : capTokens[k].expires \in Times /\ capTokens[k].grants \in SUBSET Sane
    BY TokenIs
  <1>5. Holds(1)
    BY <1>1, <1>4 DEF Later, Times
  <1>6. ASSUME NEW i \in 1 .. Len(ch) - 1, Holds(i) PROVE Holds(i + 1)
    <2>1. i \in 1 .. Len(ch) /\ i + 1 \in 1 .. Len(ch)
      BY <1>1
    <2>2. ch[i] \in DOMAIN capTokens /\ ch[i + 1] \in DOMAIN capTokens
      BY <1>3, <2>1
    <2> DEFINE c == ch[i]  p == ch[i + 1]
    <2>3. Covered(capTokens[c].grants, capTokens[p].grants, Frame(c), Frame(p))
          /\ ~Later(capTokens[c].expires, capTokens[p].expires)
      BY <1>2 DEF LinkHolds
    <2>4. ~Later(capTokens[t].expires, capTokens[p].expires)
      BY <1>4, <1>6, <2>2, <2>3, LaterTransitive
    <2>5. ASSUME NEW r \in Requests, Allows(c, r) PROVE Allows(p, r)
      <3>1. Frame(c) \in Hosts /\ Frame(p) \in Hosts
        BY <2>2, FrameIs
      <3> QED BY <1>4, <2>2, <2>3, <2>5, <3>1, CoveredAllows DEF Allows
    <2> QED BY <1>6, <2>4, <2>5
  <1> HIDE DEF Holds
  <1>7. T = {}
    <2> SUFFICES ASSUME T # {} PROVE FALSE
      OBVIOUS
    <2>1. T \in SUBSET Nat
      OBVIOUS
    <2>2. PICK k \in T : \A m \in T : k <= m
      BY <2>1, Least
    <2>3. k # 1 /\ k \in 1 .. Len(ch) /\ ~Holds(k)
      BY <1>5, <2>2
    <2>4. k - 1 \in 1 .. Len(ch) - 1 /\ k - 1 \in 1 .. Len(ch) /\ ~(k <= k - 1) /\ (k - 1) + 1 = k
      BY <1>1, <2>3
    <2>5. Holds(k - 1)
      BY <2>2, <2>4
    <2> QED BY <1>6, <2>3, <2>4, <2>5
  <1> QED BY <1>7 DEF Holds, ch

(* A request's token is within its caller's by what was checked when it    *)
(* was minted, a child within its ancestors by what Verified checks now.   *)
LEMMA NeverMoreHolds ==
    ASSUME CapabilityAssumption, CapabilityInv
    PROVE  NeverMore
  <1> SUFFICES ASSUME NEW t \in DOMAIN capTokens
               PROVE  /\ Verified(t) => \A a \in Ancestors(t) :
                            /\ ~Later(capTokens[t].expires, capTokens[a].expires)
                            /\ \A r \in Requests : Allows(t, r) => Allows(a, r)
                      /\ capTokens[t].caller # NoToken =>
                            /\ ~Later(capTokens[t].expires, capTokens[capTokens[t].caller].expires)
                            /\ \A r \in Requests : Allows(t, r) =>
                                 /\ \E g \in capTokens[capTokens[t].caller].grants : GrantAllows(g, LocalPeer, r)
                                 /\ capTokens[t].ceiling # NoPolicy => \E g \in capTokens[t].ceiling.grants : GrantAllows(g, LocalPeer, r)
    BY DEF NeverMore
  <1>1. ASSUME Verified(t), NEW a \in Ancestors(t)
        PROVE  /\ ~Later(capTokens[t].expires, capTokens[a].expires)
               /\ \A r \in Requests : Allows(t, r) => Allows(a, r)
    <2>1. PICK i \in 2 .. Len(Chain[t]) : a = Chain[t][i]
      BY DEF Ancestors
    <2>2. i \in 1 .. Len(Chain[t])
      BY ChainHolds
    <2> QED BY <1>1, <2>1, <2>2, AlongChain
  <1>2. ASSUME capTokens[t].caller # NoToken
        PROVE  /\ ~Later(capTokens[t].expires, capTokens[capTokens[t].caller].expires)
               /\ \A r \in Requests : Allows(t, r) =>
                     /\ \E g \in capTokens[capTokens[t].caller].grants : GrantAllows(g, LocalPeer, r)
                     /\ capTokens[t].ceiling # NoPolicy => \E g \in capTokens[t].ceiling.grants : GrantAllows(g, LocalPeer, r)
    <2> DEFINE c == capTokens[t].caller  e == capTokens[t].ceiling
    <2>1. /\ c \in DOMAIN capTokens /\ capTokens[t].signers = {LocalPeer}
          /\ Covered(capTokens[t].grants, capTokens[c].grants, LocalPeer, LocalPeer)
          /\ ~Later(capTokens[t].expires, capTokens[c].expires)
          /\ e # NoPolicy => Covered(capTokens[t].grants, e.grants, LocalPeer, LocalPeer)
      BY <1>2, TokenIs DEF CapabilityInv, Grounded, NoToken
    <2>2. /\ capTokens[t].grants \in SUBSET Sane /\ capTokens[c].grants \in SUBSET Sane
          /\ LocalPeer \in Hosts /\ e \in {NoPolicy} \cup Policies
      BY <2>1, TokenIs DEF CapabilityAssumption
    <2>3. e # NoPolicy => e.grants \in SUBSET Sane
      BY <2>2 DEF Sane, CapabilityAssumption
    <2> HIDE DEF c, e
    <2>4. ASSUME NEW r \in Requests, Allows(t, r)
          PROVE  /\ \E g \in capTokens[c].grants : GrantAllows(g, LocalPeer, r)
                 /\ e # NoPolicy => \E g \in e.grants : GrantAllows(g, LocalPeer, r)
      <3>1. \E g \in capTokens[t].grants : GrantAllows(g, LocalPeer, r)
        BY <2>1, <2>4, FrameIs DEF Allows
      <3> QED BY <2>1, <2>2, <2>3, <3>1, CoveredAllows
    <2> QED BY <2>1, <2>4 DEF c, e
  <1> QED BY <1>1, <1>2

-----------------------------------------------------------------------------
LEMMA CapabilityInitInv ==
    ASSUME CapabilityAssumption, CapabilityInit
    PROVE  CapabilityInv
  <1>1. Len(<<>>) = 0 /\ <<>> \in Seq(Tokens) /\ DOMAIN <<>> = {}
    OBVIOUS
  <1> QED BY <1>1 DEF CapabilityInit, CapabilityInv, CapabilityAssumption

(* A token of one granter or several, signed by some of them. *)
LEMMA MintedIs ==
    ASSUME CapabilityAssumption, now \in Nat, NEW s \in SUBSET Hosts, NEW signed \in SUBSET Hosts,
           NEW to \in Hosts, NEW o \in Offers, NEW limits \in SUBSET Times, NEW parent \in Nat
    PROVE  LET x == Token(s, signed, to, Dated(o, limits), parent)
           IN  /\ x \in Tokens /\ x.signers = s /\ x.parent = parent /\ x.caller = NoToken
               /\ x.grants = o.grants /\ \A f \in limits : ~Later(x.expires, f)
  <1> DEFINE d == Dated(o, limits)
             n == Min({2, Cardinality(s)})
             x == Token(s, signed, to, d, parent)
  <1>1. /\ d.grants = o.grants /\ d.caveats = o.caveats /\ d.expires \in Times
        /\ \A f \in limits : ~Later(d.expires, f)
    BY DatedIs
  <1>2. n \in Nat
    <2>1. Cardinality(s) \in Nat
      BY FS_Subset, FS_CardinalityType DEF CapabilityAssumption
    <2> QED BY <2>1, LeastIs
  <1>3. o.grants \in SUBSET Sane /\ d.caveats \in {NoCaveat} \cup {q.caveats : q \in Offers}
    BY <1>1 DEF Sane, CapabilityAssumption
  <1>4. x = [signers |-> s, signed |-> signed, threshold |-> n,
             grantee |-> to, grants |-> d.grants, parent |-> parent, expires |-> d.expires,
             created |-> now, caveats |-> d.caveats, caller |-> NoToken, ceiling |-> NoPolicy]
    BY DEF Token
  <1> HIDE DEF d, n, x
  <1>5. x \in Tokens
    BY <1>1, <1>2, <1>3, <1>4 DEF Tokens, NoToken
  <1>6. x.signers = s /\ x.parent = parent /\ x.caller = NoToken /\ x.grants = o.grants /\ x.expires = d.expires
    BY <1>1, <1>4
  <1> QED BY <1>1, <1>5, <1>6 DEF d, x

(* A token is minted within what the one it is asked with allows. *)
LEMMA MintInv ==
    ASSUME CapabilityAssumption, CapabilityInv, Len(capTokens) < MaxTokens,
           NEW x \in Tokens, MintToken(x), UNCHANGED <<policy, now>>,
           x.signers # {}, x.parent \in 0 .. Len(capTokens), x.caller \in 0 .. Len(capTokens),
           x.caller # NoToken =>
               /\ x.signers = {LocalPeer}
               /\ Covered(x.grants, capTokens[x.caller].grants, LocalPeer, LocalPeer)
               /\ ~Later(x.expires, capTokens[x.caller].expires)
               /\ x.ceiling # NoPolicy => Covered(x.grants, x.ceiling.grants, LocalPeer, LocalPeer)
    PROVE  CapabilityInv'
  <1> DEFINE ts == Append(capTokens, x)  n == Len(capTokens) + 1
  <1>1. /\ capTokens \in Seq(Tokens) /\ Len(capTokens) \in Nat /\ MaxTokens \in Nat
        /\ \A t \in 1 .. Len(capTokens) : Grounded(capTokens, t)
    BY DEF CapabilityInv, CapabilityAssumption
  <1>2. /\ ts \in Seq(Tokens) /\ Len(ts) = n /\ DOMAIN ts = 1 .. n /\ ts[n] = x
        /\ \A t \in 1 .. Len(capTokens) : ts[t] = capTokens[t]
    BY <1>1
  <1> HIDE DEF ts
  <1>3. \A t \in 1 .. Len(capTokens) : capTokens[t].caller \in Nat
    BY TokenIs, <1>1
  <1>4. ASSUME NEW t \in 1 .. n PROVE Grounded(ts, t)
    <2>1. CASE t = n
      <3>1. x.caller # NoToken => ts[x.caller] = capTokens[x.caller]
        BY <1>1, <1>2 DEF NoToken
      <3> QED BY <1>1, <1>2, <2>1, <3>1 DEF Grounded
    <2>2. CASE t # n
      <3>1. t \in 1 .. Len(capTokens) /\ ts[t] = capTokens[t] /\ Grounded(capTokens, t)
        BY <1>1, <1>2, <2>2
      <3>2. ts[t].caller # NoToken => ts[ts[t].caller] = capTokens[ts[t].caller]
        BY <1>1, <1>2, <1>3, <3>1 DEF Grounded, NoToken
      <3> QED BY <3>1, <3>2 DEF Grounded
    <2> QED BY <2>1, <2>2
  <1>5. capTokens' = ts
    BY DEF MintToken, ts
  <1>6. Len(ts) <= MaxTokens
    BY <1>1, <1>2
  <1> QED BY <1>2, <1>4, <1>5, <1>6 DEF CapabilityInv

(* Every step keeps what holds of the tokens. *)
LEMMA CapabilityStep ==
    ASSUME CapabilityAssumption, CapabilityInv, [CapabilityNext]_capabilityVars
    PROVE  CapabilityInv'
  <1>0. /\ LocalPeer \in Hosts /\ now \in Nat /\ Len(capTokens) \in Nat /\ DOMAIN capTokens = 1 .. Len(capTokens)
        /\ policy \in [Hosts -> {NoPolicy} \cup Policies] /\ capTokens \in Seq(Tokens)
    BY DEF CapabilityInv, CapabilityAssumption
  <1>1. ASSUME NEW s \in SUBSET Hosts, NEW signed \in SUBSET Hosts, NEW to \in Hosts, NEW o \in Offered,
               LocalPeer \in s, Issue(s, signed, to, o)
        PROVE  CapabilityInv'
    <2>1. o \in Offers /\ Len(capTokens) < MaxTokens
      BY DEF Offered
    <2> DEFINE x == Token(s, signed, to, Dated(o, {}), NoToken)
    <2>2. x \in Tokens /\ x.signers = s /\ x.parent = NoToken /\ x.caller = NoToken
      BY <1>0, <2>1, MintedIs DEF NoToken
    <2> HIDE DEF x
    <2>3. MintToken(x) /\ UNCHANGED <<policy, now>>
      BY <1>1 DEF Issue, x
    <2> QED BY <1>0, <1>1, <2>1, <2>2, <2>3, MintInv DEF NoToken
  <1>2. ASSUME NEW p \in DOMAIN capTokens, NEW by \in Hosts, NEW to \in Hosts, NEW o \in Offered, Derive(p, by, to, o)
        PROVE  CapabilityInv'
    <2>1. o \in Offers /\ Len(capTokens) < MaxTokens
      BY DEF Offered
    <2> DEFINE x == Token({by}, {by}, to, Dated(o, {}), p)
    <2>2. x \in Tokens /\ x.signers = {by} /\ x.parent = p /\ x.caller = NoToken
      BY <1>0, <2>1, MintedIs
    <2> HIDE DEF x
    <2>3. MintToken(x) /\ UNCHANGED <<policy, now>>
      BY <1>2 DEF Derive, x
    <2>4. x.signers # {} /\ x.parent \in 0 .. Len(capTokens) /\ x.caller \in 0 .. Len(capTokens)
      BY <1>0, <2>2 DEF NoToken
    <2> QED BY <2>1, <2>2, <2>3, <2>4, MintInv
  <1>3. ASSUME NEW c \in DOMAIN capTokens, NEW o \in Offered, Request(c, o)
        PROVE  CapabilityInv'
    <2> DEFINE to == capTokens[c].grantee
               entry == policy[to]
               limits == {capTokens[c].expires} \cup IF entry = NoPolicy THEN {} ELSE {Bounded(entry.ttl)}
               y == Token({LocalPeer}, {LocalPeer}, to, Dated(o, limits), NoToken)
               x == [y EXCEPT !.caveats = NoCaveat, !.caller = c, !.ceiling = entry]
    <2>1. o \in Offers /\ Len(capTokens) < MaxTokens
      BY DEF Offered
    <2>2. capTokens[c] \in Tokens /\ c \in 1 .. Len(capTokens)
      BY <1>0
    <2>3. to \in Hosts /\ capTokens[c].expires \in Times
      BY <2>2, TokenIs DEF Tokens
    <2>4. entry \in {NoPolicy} \cup Policies
      BY <1>0, <2>3
    <2>5. limits \in SUBSET Times
      <3>1. ASSUME entry # NoPolicy PROVE Bounded(entry.ttl) \in Times
        <4>1. entry.ttl \in Times
          BY <2>4, <3>1 DEF CapabilityAssumption
        <4> HIDE DEF entry
        <4> QED BY <1>0, <4>1 DEF Bounded, Times, CapabilityAssumption
      <3> QED BY <2>3, <3>1
    <2>6. /\ Covered(o.grants, capTokens[c].grants, LocalPeer, LocalPeer)
          /\ entry # NoPolicy => Covered(o.grants, entry.grants, LocalPeer, LocalPeer)
          /\ MintToken(x) /\ UNCHANGED <<policy, now>>
      BY <1>3 DEF Request
    <2>7. capTokens[c].expires \in limits
      OBVIOUS
    <2> HIDE DEF to, entry, limits
    <2>8. /\ y \in Tokens /\ y.signers = {LocalPeer} /\ y.parent = NoToken /\ y.grants = o.grants
          /\ \A f \in limits : ~Later(y.expires, f)
      <3>1. NoToken \in Nat /\ {LocalPeer} \in SUBSET Hosts
        BY <1>0 DEF NoToken
      <3> HIDE DEF x
      <3> QED BY <1>0, <2>1, <2>3, <2>5, <3>1, MintedIs
    <2> HIDE DEF y
    <2>9. /\ x \in Tokens /\ x.signers = {LocalPeer} /\ x.parent = NoToken /\ x.grants = o.grants
          /\ x.caller = c /\ x.ceiling = entry /\ x.expires = y.expires
      <3>1. c \in Nat
        BY <1>0, <2>2
      <3>2. x \in Tokens
        BY <2>4, <2>8, <3>1 DEF Tokens
      <3>3. /\ x.signers = y.signers /\ x.parent = y.parent /\ x.grants = y.grants
            /\ x.caller = c /\ x.ceiling = entry /\ x.expires = y.expires
        BY <2>8 DEF Tokens
      <3> QED BY <2>8, <3>2, <3>3
    <2> HIDE DEF x
    <2>10. x.signers # {} /\ x.parent \in 0 .. Len(capTokens) /\ x.caller \in 0 .. Len(capTokens)
      BY <1>0, <2>2, <2>9 DEF NoToken
    <2> QED BY <2>1, <2>6, <2>7, <2>8, <2>9, <2>10, MintInv
  <1>4. ASSUME NEW p \in DOMAIN capTokens, NEW o \in Offered, DelegateToken(p, o)
        PROVE  CapabilityInv'
    <2> DEFINE y == Token({LocalPeer}, {LocalPeer}, LocalPeer, Dated(o, {capTokens[p].expires}), p)
               x == [y EXCEPT !.caveats = NoCaveat]
    <2>1. o \in Offers /\ Len(capTokens) < MaxTokens
      BY DEF Offered
    <2>2. capTokens[p].expires \in Times /\ p \in Nat
      BY <1>0, TokenIs
    <2>3. y \in Tokens /\ y.signers = {LocalPeer} /\ y.parent = p /\ y.caller = NoToken
      BY <1>0, <2>1, <2>2, MintedIs
    <2>4. MintToken(x) /\ UNCHANGED <<policy, now>>
      BY <1>4 DEF DelegateToken
    <2> HIDE DEF y
    <2>5. x \in Tokens /\ x.signers = {LocalPeer} /\ x.parent = p /\ x.caller = NoToken
      BY <2>3 DEF Tokens
    <2> HIDE DEF x
    <2>6. x.signers # {} /\ x.parent \in 0 .. Len(capTokens) /\ x.caller \in 0 .. Len(capTokens)
      BY <1>0, <2>5 DEF NoToken
    <2> QED BY <2>1, <2>4, <2>5, <2>6, MintInv
  <1>5. ASSUME NEW t \in DOMAIN capTokens, Revoke(t)
        PROVE  CapabilityInv'
    BY <1>5 DEF Revoke, CapabilityInv
  <1>6. ASSUME NEW p \in Hosts, NEW entry \in Policies, Configure(p, entry)
        PROVE  CapabilityInv'
    <2>1. policy' \in [Hosts -> {NoPolicy} \cup Policies]
      BY <1>0, <1>6 DEF Configure
    <2> QED BY <1>6, <2>1 DEF Configure, CapabilityInv
  <1>7. CASE Tick
    BY <1>0, <1>7 DEF Tick, CapabilityInv
  <1>8. CASE UNCHANGED capabilityVars
    BY <1>8 DEF capabilityVars, CapabilityInv
  <1> QED BY <1>1, <1>2, <1>3, <1>4, <1>5, <1>6, <1>7, <1>8 DEF CapabilityNext

(* Every token has a signer and an earlier parent or none, and one minted  *)
(* by request is covered by its caller's grants and by the policy's, with  *)
(* no later expiry (_handle_request(), create_capability_token()).         *)
THEOREM CapabilityInvCorrect == ASSUME CapabilityAssumption PROVE CapabilitySpec => []CapabilityInv
  <1>1. CapabilityInit => CapabilityInv
    BY CapabilityInitInv
  <1>2. CapabilityInv /\ [CapabilityNext]_capabilityVars => CapabilityInv'
    BY CapabilityStep
  <1> QED BY <1>1, <1>2, PTL DEF CapabilitySpec

(* A token that verifies allows nothing that a token above it does not and *)
(* outlives none, however long the chain and whatever the grants; one by   *)
(* request stays within its caller's token and the policy.                 *)
THEOREM NeverMoreCorrect == ASSUME CapabilityAssumption PROVE CapabilitySpec => []NeverMore
  <1>1. CapabilityInv => NeverMore
    BY NeverMoreHolds
  <1> QED BY <1>1, CapabilityInvCorrect, PTL
=============================================================================
