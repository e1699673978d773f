-------------------------- MODULE JoinFilterProofs --------------------------
(***************************************************************************)
(* Proofs about JoinFilter, for any tree of tenants, applications and      *)
(* devices, any page size and any number of changes and failures: a pass   *)
(* over ChirpStack's listings misses no device that could join all through *)
(* it, unless something was deleted or the device could not be got.        *)
(***************************************************************************)
EXTENDS JoinFilter, FiniteSetTheorems, TLAPS

In(x, s) == \E i \in 1 .. Len(s) : s[i] = x

-----------------------------------------------------------------------------
(* The inductive invariant                                                 *)

\* What exists is below what exists.
Closed == \A x \in exist : Parent[x] \in exist \cup {0}

\* x comes in a page of the current key of pass p that was not listed yet.
Ahead(p, x) ==
    /\ p.st = "list" \/ (p.st = "get" /\ p.more)
    /\ p.key = Parent[x]
    /\ p.offset <= Rank(Listing(p.key), x)

\* x is a key that the pass has found and has yet to list.
Queued(p, x) == In(x, p.found) \/ In(x, p.todo)

\* The pass has the device or failed to get it, or it has yet to list the
\* application or the tenant of the device.
Settled(p, d) ==
    \/ d \in p.devs \cup p.missed
    \/ \E x \in {Up(d), Up(Up(d))} : Queued(p, x)

\* Or the device is in the page at hand, or one of them in a later page.
Covered(p, d) ==
    \/ Settled(p, d)
    \/ In(d, p.page)
    \/ \E x \in {d, Up(d), Up(Up(d))} : Ahead(p, x)

\* A page that waits for its devices has one, and has nothing else; nothing is
\* left at the end of a pass.
PagesOK(p) ==
    /\ p.st = "get" => p.page # <<>> /\ p.page \in Seq(Device)
    /\ p.st # "get" => p.page = <<>>
    /\ p.st = "swap" => p.found = <<>> /\ p.todo = <<>>

\* The devices that could join all through the pass, and those that could at
\* some time of it.
Watched ==
    pass.st # "idle" =>
        /\ pass.steady \subseteq MayJoin /\ MayJoin \subseteq pass.seen
        /\ pass.devs \subseteq pass.seen

Complete ==
    pass.st # "idle" /\ ~pass.deleted => \A d \in pass.steady : Covered(pass, d)

IInv == TypeOK /\ Closed /\ PagesOK(pass) /\ Watched /\ Complete

-----------------------------------------------------------------------------
(* Ranks and pages                                                         *)

\* What is listed before an entry is a finite part of the listing.
LEMMA BeforeFinite ==
    ASSUME NEW S \in SUBSET Nat, IsFiniteSet(S), NEW x
    PROVE  /\ IsFiniteSet({y \in S : y < x})
           /\ Rank(S, x) \in Nat
<1>1. {y \in S : y < x} \in SUBSET S
  OBVIOUS
<1>2. IsFiniteSet({y \in S : y < x})
  BY <1>1, FS_Subset
<1>3. QED
  BY <1>2, FS_CardinalityType DEF Rank

\* A listing is ordered, and the ranks of its entries count from 0.
LEMMA RankBounds ==
    ASSUME NEW S \in SUBSET Nat, IsFiniteSet(S)
    PROVE  /\ Cardinality(S) \in Nat
           /\ \A x \in S : Rank(S, x) \in 0 .. Cardinality(S) - 1
           /\ \A x, y \in S : x < y => Rank(S, x) < Rank(S, y)
<1>1. Cardinality(S) \in Nat
  BY FS_CardinalityType
<1>2. ASSUME NEW x \in S, NEW T \in SUBSET S, {y \in S : y < x} \cup {x} \subseteq T
      PROVE  Rank(S, x) + 1 <= Cardinality(T)
  <2> DEFINE B == {y \in S : y < x}
  <2>1. IsFiniteSet(B) /\ Rank(S, x) = Cardinality(B)
    BY BeforeFinite DEF Rank
  <2>2. x \notin B
    OBVIOUS
  <2>3. IsFiniteSet(T)
    BY FS_Subset
  <2> HIDE DEF B
  <2>4. Cardinality(B \cup {x}) = Cardinality(B) + 1
    BY <2>1, <2>2, FS_AddElement
  <2>5. B \cup {x} \in SUBSET T
    BY <1>2 DEF B
  <2>6. Cardinality(B \cup {x}) <= Cardinality(T)
    BY <2>3, <2>5, FS_Subset
  <2>7. QED
    BY <2>1, <2>4, <2>6
<1>3. ASSUME NEW x \in S PROVE Rank(S, x) \in 0 .. Cardinality(S) - 1
  <2>1. Rank(S, x) + 1 <= Cardinality(S)
    BY <1>2
  <2>2. Rank(S, x) \in Nat
    BY BeforeFinite
  <2>3. QED
    BY <1>1, <2>1, <2>2
<1>4. ASSUME NEW x \in S, NEW y \in S, x < y PROVE Rank(S, x) < Rank(S, y)
  <2> DEFINE T == {z \in S : z < y}
  <2>0. x \in Nat /\ y \in Nat /\ \A z \in S : z \in Nat
    OBVIOUS
  <2>1. {z \in S : z < x} \cup {x} \subseteq T
    <3>1. ASSUME NEW z \in S, z < x PROVE z < y
      BY <1>4, <2>0, <3>1
    <3>2. QED
      BY <1>4, <3>1
  <2>2. Rank(S, x) + 1 <= Cardinality(T)
    BY <1>2, <2>1
  <2>3. Rank(S, x) \in Nat /\ Rank(S, y) \in Nat
    BY BeforeFinite
  <2>4. QED
    BY <2>2, <2>3 DEF Rank
<1>5. QED
  BY <1>1, <1>3, <1>4

\* Every rank below the size of the listing is that of an entry.
LEMMA RankOnto ==
    ASSUME NEW S \in SUBSET Nat, IsFiniteSet(S), NEW k \in 0 .. Cardinality(S) - 1
    PROVE  \E x \in S : Rank(S, x) = k
<1> DEFINE f == [x \in S |-> Rank(S, x)]
           T == 0 .. Cardinality(S) - 1
<1>1. Cardinality(S) \in Nat
  BY RankBounds
<1>2. IsFiniteSet(T) /\ Cardinality(T) = Cardinality(S)
  <2>1. Cardinality(S) - 1 \in Int
    BY <1>1
  <2>2. /\ IsFiniteSet(T)
        /\ Cardinality(T) = IF 0 > Cardinality(S) - 1 THEN 0 ELSE Cardinality(S) - 1 - 0 + 1
    BY <2>1, FS_Interval
  <2>3. QED
    BY <1>1, <2>2
<1>3. f \in Injection(S, T)
  <2>1. f \in [S -> T]
    BY RankBounds
  <2>2. ASSUME NEW x \in S, NEW y \in S, f[x] = f[y] PROVE x = y
    <3>1. Rank(S, x) = Rank(S, y) /\ x \in Nat /\ y \in Nat
      BY <2>2
    <3>2. Rank(S, x) \in Nat /\ Rank(S, y) \in Nat
      BY BeforeFinite
    <3>3. ~(x < y) /\ ~(y < x)
      BY <3>1, <3>2, RankBounds
    <3>4. QED
      BY <3>1, <3>3
  <2>3. QED
    BY <2>1, <2>2 DEF Injection, IsInjective
<1>4. f \in Surjection(S, T)
  BY <1>2, <1>3, FS_Injection
<1>5. \A t \in T : \E x \in S : f[x] = t
  BY <1>4 DEF Surjection
<1>6. PICK x \in S : f[x] = k
  BY <1>5
<1>7. QED
  BY <1>6

\* Creating entries moves the others to a later place only.
LEMMA RankGrows ==
    ASSUME NEW T \in SUBSET Nat, IsFiniteSet(T), NEW S \in SUBSET T, NEW x
    PROVE  /\ Rank(S, x) \in Nat /\ Rank(T, x) \in Nat
           /\ Rank(S, x) <= Rank(T, x)
<1>1. IsFiniteSet(S) /\ S \in SUBSET Nat
  BY FS_Subset
<1>2. {y \in S : y < x} \in SUBSET {y \in T : y < x}
  OBVIOUS
<1>3. IsFiniteSet({y \in T : y < x}) /\ Rank(T, x) \in Nat /\ Rank(S, x) \in Nat
  BY <1>1, BeforeFinite
<1>4. QED
  BY <1>2, <1>3, FS_Subset DEF Rank

\* A page holds entries of the listing.  An entry at or after the offset is in
\* it, or there is another page and the entry is at or after the next offset.
LEMMA PageFacts ==
    ASSUME exist \in SUBSET Node, NEW key \in Node \cup {0}, NEW offset \in Nat
    PROVE  /\ Page(key, offset) \in Seq(Listing(key))
           /\ \A x \in Listing(key) : offset <= Rank(Listing(key), x) =>
                \/ In(x, Page(key, offset))
                \/ /\ HasMore(Page(key, offset))
                   /\ offset + Len(Page(key, offset)) <= Rank(Listing(key), x)
<1> DEFINE S == Listing(key)
           c == Cardinality(S)
           n == IF offset + PageSize < c THEN PageSize ELSE c - offset
           page == [i \in 1 .. n |-> CHOOSE x \in S : Rank(S, x) = offset + i - 1]
<1>1. S \in SUBSET Nat /\ IsFiniteSet(S)
  <2>1. S \in SUBSET Node /\ Node \in SUBSET Nat
    BY JoinFilterAssumption DEF Listing
  <2>2. QED
    BY <2>1, FS_Subset, JoinFilterAssumption
<1>2. Page(key, offset) = page
  BY DEF Page
<1> HIDE DEF S
<1>3. c \in Nat /\ PageSize \in Nat \ {0} /\ n \in Int
  BY <1>1, RankBounds, JoinFilterAssumption
<1>0. \A x, y \in S : x < y => Rank(S, x) < Rank(S, y)
  BY <1>1, RankBounds
<1>4. ASSUME NEW i \in 1 .. n PROVE page[i] \in S /\ Rank(S, page[i]) = offset + i - 1
  <2>1. offset + i - 1 \in 0 .. c - 1
    BY <1>3
  <2>2. \E x \in S : Rank(S, x) = offset + i - 1
    BY <1>1, <2>1, RankOnto
  <2>3. page[i] = CHOOSE x \in S : Rank(S, x) = offset + i - 1
    OBVIOUS
  <2>4. QED
    BY <2>2, <2>3
<1>5. page \in Seq(S) /\ Len(page) = IF n > 0 THEN n ELSE 0
  <2> DEFINE m == IF n > 0 THEN n ELSE 0
  <2>1. m \in Nat /\ 1 .. m = 1 .. n
    BY <1>3
  <2>2. page \in [1 .. n -> S] /\ DOMAIN page = 1 .. n
    BY <1>4
  <2> HIDE DEF page, n, m
  <2>3. page \in [1 .. m -> S]
    BY <2>1, <2>2
  <2>4. page \in Seq(S) /\ Len(page) = m
    BY <2>1, <2>3
  <2>5. QED
    BY <2>4 DEF m
<1>6. ASSUME NEW x \in S, offset <= Rank(S, x)
      PROVE  \/ In(x, page)
             \/ HasMore(page) /\ offset + Len(page) <= Rank(S, x)
  <2>1. Rank(S, x) \in 0 .. c - 1
    BY <1>1, RankBounds
  <2>2. CASE Rank(S, x) < offset + n
    <3> DEFINE i == Rank(S, x) - offset + 1
    <3>1. i \in 1 .. n /\ offset + i - 1 = Rank(S, x)
      BY <1>3, <1>6, <2>1, <2>2
    <3>2. page[i] \in S /\ Rank(S, page[i]) = Rank(S, x)
      BY <1>4, <3>1
    <3>3. page[i] = x
      <4>1. PICK e \in S : e = page[i]
        BY <3>2
      <4>2. e \in Nat /\ x \in Nat /\ Rank(S, x) \in Nat /\ Rank(S, e) = Rank(S, x)
        <5>1. e \in Nat /\ x \in Nat
          BY <1>1
        <5>2. Rank(S, x) \in Nat
          BY <1>1, BeforeFinite
        <5>3. Rank(S, e) = Rank(S, x)
          BY <3>2, <4>1
        <5>4. QED
          BY <5>1, <5>2, <5>3
      <4>3. ~(e < x) /\ ~(x < e)
        BY <1>0, <4>2
      <4>4. QED
        BY <4>1, <4>2, <4>3
    <3>4. i \in 1 .. Len(page)
      BY <1>3, <1>5, <3>1
    <3>5. QED
      BY <3>3, <3>4 DEF In
  <2>3. CASE offset + n <= Rank(S, x)
    <3>1. n = PageSize
      BY <1>3, <2>1, <2>3
    <3>2. Len(page) = n
      BY <1>3, <1>5, <3>1
    <3>3. QED
      BY <1>3, <2>3, <3>1, <3>2 DEF HasMore
  <2> HIDE DEF page, n, c
  <2>4. Rank(S, x) \in Int /\ offset + n \in Int
    BY <1>3, <2>1 DEF c
  <2>5. QED
    BY <2>2, <2>3, <2>4
<1>7. QED
  BY <1>2, <1>5, <1>6 DEF S

-----------------------------------------------------------------------------
(* Sequences and the tree                                                  *)

\* An entry of either sequence is one of both together.
LEMMA InConcat ==
    ASSUME NEW X, NEW s \in Seq(X), NEW t \in Seq(X), NEW x, In(x, s) \/ In(x, t)
    PROVE  In(x, s \o t)
<1>1. Len(s \o t) = Len(s) + Len(t) /\ Len(s) \in Nat /\ Len(t) \in Nat
  OBVIOUS
<1>2. CASE In(x, s)
  <2>1. PICK i \in 1 .. Len(s) : s[i] = x
    BY <1>2 DEF In
  <2>2. i \in 1 .. Len(s \o t) /\ (s \o t)[i] = x
    BY <1>1, <2>1
  <2>3. QED
    BY <2>2 DEF In
<1>3. CASE In(x, t)
  <2>1. PICK i \in 1 .. Len(t) : t[i] = x
    BY <1>3 DEF In
  <2>2. Len(s) + i \in 1 .. Len(s \o t) /\ (s \o t)[Len(s) + i] = x
    BY <1>1, <2>1
  <2>3. QED
    BY <2>2 DEF In
<1>4. QED
  BY <1>2, <1>3

\* An entry is the first one or is in the rest.
LEMMA InTail ==
    ASSUME NEW X, NEW s \in Seq(X), s # <<>>, NEW x, In(x, s)
    PROVE  x = Head(s) \/ In(x, Tail(s))
<1>1. PICK i \in 1 .. Len(s) : s[i] = x
  BY DEF In
<1>2. Len(s) \in Nat /\ Len(Tail(s)) = Len(s) - 1
  OBVIOUS
<1>3. CASE i = 1
  BY <1>1, <1>3
<1>4. CASE i # 1
  <2>1. i - 1 \in 1 .. Len(Tail(s)) /\ Tail(s)[i - 1] = x
    BY <1>1, <1>2, <1>4
  <2>2. QED
    BY <2>1 DEF In
<1>5. QED
  BY <1>3, <1>4

\* Two sequences that are empty together are empty.
LEMMA ConcatEmpty ==
    ASSUME NEW X, NEW s \in Seq(X), NEW t \in Seq(X), s \o t = <<>>
    PROVE  s = <<>> /\ t = <<>>
<1>1. Len(s \o t) = Len(s) + Len(t) /\ Len(s) \in Nat /\ Len(t) \in Nat
  OBVIOUS
<1>2. Len(s) = 0 /\ Len(t) = 0
  BY <1>1
<1>3. QED
  BY <1>2

\* The types of the first entry and of the rest.
LEMMA HeadTail ==
    ASSUME NEW X, NEW s \in Seq(X), s # <<>>
    PROVE  Head(s) \in X /\ Tail(s) \in Seq(X)
  OBVIOUS

\* An entry of a sequence is of the type of its entries.
LEMMA InSeq ==
    ASSUME NEW X, NEW s \in Seq(X), NEW x, In(x, s)
    PROVE  x \in X /\ s # <<>>
<1>1. PICK i \in 1 .. Len(s) : s[i] = x
  BY DEF In
<1>2. QED
  BY <1>1

\* A device is below an application and that below a tenant; the children of a
\* key are all devices or none is.
LEMMA Tree ==
    /\ \A x, y \in Node : Parent[x] = Parent[y] => (x \in Device <=> y \in Device)
    /\ \A x \in Node : x # 0 /\ Up(x) = Parent[x] /\ Parent[x] \in Node \cup {0}
    /\ \A d \in Device :
         /\ d \in Node /\ Up(d) \in Node \ Device /\ Up(Up(d)) \in Node \ Device
         /\ Up(Up(Up(d))) = 0
<1>1. \A x \in Node : x # 0 /\ Up(x) = Parent[x] /\ Parent[x] \in (Node \ Device) \cup {0}
  BY JoinFilterAssumption DEF Up
<1>2. \A x \in Node : x \in Device <=> Up(Parent[x]) # 0
  BY <1>1, JoinFilterAssumption
<1>3. ASSUME NEW d \in Device
      PROVE  /\ d \in Node /\ Up(d) \in Node \ Device /\ Up(Up(d)) \in Node \ Device
             /\ Up(Up(Up(d))) = 0
  <2>1. d \in Node /\ Up(d) \in (Node \ Device) \cup {0} /\ Up(Up(d)) # 0
    BY <1>1, <1>2, JoinFilterAssumption
  <2>2. Up(d) # 0
    BY <2>1 DEF Up
  <2>3. Up(d) \in Node \ Device
    BY <2>1, <2>2
  <2>4. Up(Up(d)) \in Node \ Device
    BY <1>1, <2>1, <2>3
  <2>5. Up(Up(Up(d))) = 0
    BY <1>1, <1>2, <2>3
  <2>6. QED
    BY <2>1, <2>3, <2>4, <2>5
<1>4. QED
  BY <1>1, <1>2, <1>3

\* The listings of what exists.
LEMMA Listings ==
    ASSUME exist \in SUBSET Node, NEW key
    PROVE  /\ Listing(key) \in SUBSET Nat /\ IsFiniteSet(Listing(key))
           /\ Listing(key) \in SUBSET Node
           /\ \A x : Rank(Listing(key), x) \in Nat
<1>1. Listing(key) \in SUBSET Node /\ Node \in SUBSET Nat
  BY JoinFilterAssumption DEF Listing
<1>2. IsFiniteSet(Listing(key))
  BY <1>1, FS_Subset, JoinFilterAssumption
<1>3. QED
  BY <1>1, <1>2, BeforeFinite

-----------------------------------------------------------------------------
(* The next key, and the next device of a page                             *)

\* What NextKey does to the fields of a pass.
LEMMA NextKeyFields ==
    ASSUME NEW p \in Pass
    PROVE  /\ NextKey(p) \in Pass
           /\ NextKey(p).st \in {"swap", "list"}
           /\ NextKey(p).page = <<>>
           /\ NextKey(p).st = "swap" => NextKey(p).found = <<>> /\ NextKey(p).todo = <<>>
           /\ NextKey(p).devs = p.devs /\ NextKey(p).missed = p.missed
           /\ NextKey(p).steady = p.steady /\ NextKey(p).seen = p.seen
           /\ NextKey(p).deleted = p.deleted
<1> DEFINE todo == p.found \o p.todo
<1>1. todo \in Seq(Node) /\ <<>> \in Seq(Node)
  BY DEF Pass
<1>2. CASE todo = <<>>
  <2>1. NextKey(p) = [p EXCEPT !.st = "swap", !.page = <<>>]
    BY <1>2 DEF NextKey
  <2>2. p.found = <<>> /\ p.todo = <<>>
    <3>1. p.found \in Seq(Node) /\ p.todo \in Seq(Node)
      BY DEF Pass
    <3>2. QED
      BY <1>2, <3>1, ConcatEmpty
  <2> HIDE DEF todo
  <2>3. QED
    BY <1>1, <2>1, <2>2 DEF Pass
<1>3. CASE todo # <<>>
  <2> DEFINE h == Head(todo)
             t == Tail(todo)
             e == <<>>
  <2>1. NextKey(p) = [p EXCEPT !.st = "list", !.key = h, !.todo = t, !.offset = 0,
                               !.found = e, !.page = e, !.more = FALSE]
    BY <1>3 DEF NextKey
  <2> HIDE DEF todo
  <2>2. h \in Node \cup {0} /\ t \in Seq(Node) /\ 0 \in Nat /\ e \in Seq(Node)
    BY <1>1, <1>3, HeadTail
  <2> HIDE DEF h, t, e
  <2>3. NextKey(p) \in Pass
    <3>1. NextKey(p) = [st |-> "list", key |-> h, offset |-> 0, found |-> e, page |-> e,
                        more |-> FALSE, todo |-> t, devs |-> p.devs, steady |-> p.steady,
                        seen |-> p.seen, missed |-> p.missed, deleted |-> p.deleted]
      BY <2>1 DEF Pass
    <3>2. /\ p.devs \in SUBSET Device /\ p.steady \in SUBSET Device /\ p.seen \in SUBSET Device
          /\ p.missed \in SUBSET Device /\ p.deleted \in BOOLEAN
      BY DEF Pass
    <3>3. QED
      BY <2>2, <3>1, <3>2 DEF Pass
  <2>4. NextKey(p).page = e /\ e = <<>>
    BY <2>1 DEF Pass, e
  <2>5. QED
    BY <2>1, <2>3, <2>4 DEF Pass
<1>4. QED
  BY <1>2, <1>3

\* The next key is listed from its first entry on.
LEMMA NextKeyCovers ==
    ASSUME exist \in SUBSET Node, NEW p \in Pass, NEW d \in Device, Settled(p, d)
    PROVE  Covered(NextKey(p), d)
<1> DEFINE todo == p.found \o p.todo
<1>1. p.found \in Seq(Node) /\ p.todo \in Seq(Node) /\ todo \in Seq(Node)
  BY DEF Pass
<1>2. CASE d \in p.devs \cup p.missed
  BY <1>2, NextKeyFields DEF Covered, Settled
<1>3. ASSUME NEW x \in {Up(d), Up(Up(d))}, Queued(p, x) PROVE Covered(NextKey(p), d)
  <2>1. In(x, todo) /\ todo # <<>>
    <3>1. In(x, todo)
      BY <1>1, <1>3, InConcat DEF Queued
    <3>2. QED
      BY <1>1, <3>1, InSeq
  <2>2. /\ NextKey(p).st = "list" /\ NextKey(p).key = Head(todo)
        /\ NextKey(p).todo = Tail(todo) /\ NextKey(p).offset = 0
    BY <2>1 DEF NextKey, Pass
  <2> HIDE DEF todo
  <2>3. CASE In(x, Tail(todo))
    BY <2>2, <2>3 DEF Covered, Settled, Queued
  <2>4. CASE x = Head(todo)
    <3>1. PICK y \in {d, Up(d)} : x = Up(y)
      OBVIOUS
    <3>2. y \in Node /\ Parent[y] = x
      BY <3>1, Tree
    <3>3. 0 <= Rank(Listing(x), y)
      BY Listings
    <3>4. Ahead(NextKey(p), y)
      BY <2>2, <2>4, <3>2, <3>3 DEF Ahead
    <3>5. QED
      BY <3>1, <3>4 DEF Covered
  <2>5. QED
    BY <1>1, <2>1, <2>3, <2>4, InTail
<1>4. QED
  BY <1>2, <1>3 DEF Settled

\* The fields of a pass that the program does not have, and the result so far.
SameResult(p, q) ==
    /\ p.devs = q.devs /\ p.missed = q.missed
    /\ p.steady = q.steady /\ p.seen = q.seen /\ p.deleted = q.deleted

\* The next page: what was ahead is in the page, among the keys that were found,
\* or still ahead.
LEMMA ListCovers ==
    ASSUME TypeOK, Closed, PagesOK(pass), ListPage
    PROVE  /\ pass' \in Pass /\ PagesOK(pass') /\ SameResult(pass', pass)
           /\ pass'.st # "idle"
           /\ \A d \in Device : d \in exist /\ Covered(pass, d) => Covered(pass', d)
<1> DEFINE page == Page(pass.key, pass.offset)
           r == [pass EXCEPT !.offset = @ + Len(page), !.more = HasMore(page)]
           q == [r EXCEPT !.found = @ \o page]
           g == [r EXCEPT !.st = "get", !.page = page]
           HasDevice == \E i \in DOMAIN page : page[i] \in Device
<1>1. /\ pass \in Pass /\ pass.st = "list" /\ pass.page = <<>> /\ exist \in SUBSET Node
      /\ pass.key \in Node \cup {0} /\ pass.offset \in Nat
      /\ pass.found \in Seq(Node) /\ pass.todo \in Seq(Node)
  BY DEF TypeOK, ListPage, PagesOK, Pass
<1>2. pass' = IF HasDevice THEN g ELSE IF q.more THEN q ELSE NextKey(q)
  BY DEF ListPage
<1>3. page \in Seq(Listing(pass.key)) /\ Listing(pass.key) \in SUBSET Node
  BY <1>1, PageFacts, Listings
<1>4. \A x \in Listing(pass.key) : pass.offset <= Rank(Listing(pass.key), x) =>
         \/ In(x, page)
         \/ HasMore(page) /\ pass.offset + Len(page) <= Rank(Listing(pass.key), x)
  BY <1>1, PageFacts
<1> HIDE DEF page
<1>5. page \in Seq(Node) /\ Len(page) \in Nat /\ HasMore(page) \in BOOLEAN
  BY <1>3 DEF HasMore
<1>6. /\ r \in Pass /\ r.st = "list" /\ r.page = <<>> /\ r.key = pass.key
      /\ r.offset = pass.offset + Len(page) /\ r.more = HasMore(page)
      /\ r.found = pass.found /\ r.todo = pass.todo /\ SameResult(r, pass)
  <2> DEFINE n == pass.offset + Len(page)
             m == HasMore(page)
  <2>1. r = [pass EXCEPT !.offset = n, !.more = m] /\ n \in Nat /\ m \in BOOLEAN
    BY <1>1, <1>5
  <2> HIDE DEF n, m, r
  <2>2. r \in Pass
    BY <1>1, <2>1 DEF Pass
  <2>3. QED
    BY <1>1, <2>1, <2>2 DEF Pass, SameResult, n, m
<1>7. /\ q \in Pass /\ q.st = "list" /\ q.page = <<>> /\ q.key = pass.key
      /\ q.offset = pass.offset + Len(page) /\ q.more = HasMore(page)
      /\ q.found = pass.found \o page /\ q.todo = pass.todo /\ SameResult(q, pass)
  <2>1. pass.found \o page \in Seq(Node)
    BY <1>1, <1>5
  <2> DEFINE f == pass.found \o page
  <2>2. q = [r EXCEPT !.found = f]
    BY <1>6
  <2> HIDE DEF f, r, q
  <2>3. QED
    BY <1>6, <2>1, <2>2 DEF Pass, SameResult, f
<1>8. /\ g \in Pass /\ g.st = "get" /\ g.page = page /\ g.key = pass.key
      /\ g.offset = pass.offset + Len(page) /\ g.more = HasMore(page)
      /\ g.found = pass.found /\ g.todo = pass.todo /\ SameResult(g, pass)
  <2> HIDE DEF r
  <2>1. QED
    BY <1>5, <1>6 DEF Pass, SameResult
<1> HIDE DEF r, q, g
<1>9. \A x \in Listing(pass.key) : pass.offset <= Rank(Listing(pass.key), x) =>
         \/ In(x, page)
         \/ HasMore(page) /\ Ahead(q, x) /\ Ahead(g, x)
  <2>1. ASSUME NEW x \in Listing(pass.key), HasMore(page),
               pass.offset + Len(page) <= Rank(Listing(pass.key), x)
        PROVE  Ahead(q, x) /\ Ahead(g, x)
    <3>1. Parent[x] = pass.key
      BY DEF Listing
    <3>2. QED
      BY <1>7, <1>8, <2>1, <3>1 DEF Ahead
  <2>2. QED
    BY <1>4, <2>1
<1>10. ASSUME NEW d \in Device, Settled(pass, d)
       PROVE  Settled(g, d) /\ Settled(q, d)
  <2>1. CASE d \in pass.devs \cup pass.missed
    BY <1>7, <1>8, <2>1 DEF Settled, SameResult
  <2>2. ASSUME NEW x \in {Up(d), Up(Up(d))}, Queued(pass, x)
        PROVE  Queued(g, x) /\ Queued(q, x)
    <3>1. Queued(g, x)
      BY <1>8, <2>2 DEF Queued
    <3>2. In(x, pass.found) => In(x, pass.found \o page)
      BY <1>1, <1>5, InConcat
    <3>3. QED
      BY <1>7, <2>2, <3>1, <3>2 DEF Queued
  <2>3. QED
    BY <1>10, <2>1, <2>2 DEF Settled
<1>11. ASSUME NEW d \in Device, d \in exist, NEW x \in {d, Up(d), Up(Up(d))}, Ahead(pass, x)
       PROVE  x \in Listing(pass.key) /\ pass.offset <= Rank(Listing(pass.key), x)
  <2>1. d \in Node /\ Up(d) \in Node /\ Up(Up(d)) \in Node
    BY Tree
  <2>2. Up(d) \in exist
    BY <1>11, <2>1, Tree DEF Closed
  <2>3. Up(Up(d)) \in exist
    BY <2>1, <2>2, Tree DEF Closed
  <2>4. QED
    BY <1>11, <2>2, <2>3 DEF Ahead, Listing
<1>12. CASE HasDevice
  <2>1. pass' = g
    BY <1>2, <1>12
  <2>2. PICK j \in DOMAIN page : page[j] \in Device
    BY <1>12
  <2>3. \A i \in DOMAIN page : page[i] \in Node /\ Parent[page[i]] = pass.key
    BY <1>3 DEF Listing
  <2>4. \A i \in DOMAIN page : page[i] \in Device
    BY <2>2, <2>3, Tree
  <2>5. page \in Seq(Device) /\ page # <<>>
    BY <1>5, <2>2, <2>4
  <2>6. ASSUME NEW d \in Device, d \in exist, Covered(pass, d) PROVE Covered(g, d)
    <3>1. CASE Settled(pass, d)
      BY <1>10, <3>1 DEF Covered
    <3>2. CASE In(d, pass.page)
      BY <1>1, <3>2 DEF In
    <3>3. ASSUME NEW x \in {d, Up(d), Up(Up(d))}, Ahead(pass, x) PROVE Covered(g, d)
      <4>1. x \in Listing(pass.key) /\ pass.offset <= Rank(Listing(pass.key), x)
        BY <1>11, <2>6, <3>3
      <4>2. CASE Ahead(g, x)
        BY <4>2 DEF Covered
      <4>3. CASE In(x, page)
        <5>1. x \in Device
          BY <2>5, <4>3, InSeq
        <5>2. x = d
          BY <5>1, Tree
        <5>3. QED
          BY <1>8, <4>3, <5>2 DEF Covered
      <4>4. QED
        BY <1>9, <4>1, <4>2, <4>3
    <3>4. QED
      BY <2>6, <3>1, <3>2, <3>3 DEF Covered
  <2>7. QED
    BY <1>8, <2>1, <2>5, <2>6 DEF PagesOK
<1>13. CASE ~HasDevice
  <2>1. pass' = IF q.more THEN q ELSE NextKey(q)
    BY <1>2, <1>13
  <2>2. ASSUME NEW d \in Device, d \in exist, Covered(pass, d)
        PROVE  Settled(q, d) \/ (q.more /\ Covered(q, d))
    <3>1. CASE Settled(pass, d)
      BY <1>10, <3>1
    <3>2. CASE In(d, pass.page)
      BY <1>1, <3>2 DEF In
    <3>3. ASSUME NEW x \in {d, Up(d), Up(Up(d))}, Ahead(pass, x)
          PROVE  Settled(q, d) \/ (q.more /\ Covered(q, d))
      <4>1. x \in Listing(pass.key) /\ pass.offset <= Rank(Listing(pass.key), x)
        BY <1>11, <2>2, <3>3
      <4>2. CASE HasMore(page) /\ Ahead(q, x)
        BY <1>7, <4>2 DEF Covered
      <4>3. CASE In(x, page)
        <5>1. x # d
          BY <1>5, <1>13, <4>3 DEF In
        <5>2. Queued(q, x)
          BY <1>1, <1>5, <1>7, <4>3, InConcat DEF Queued
        <5>3. QED
          BY <5>1, <5>2 DEF Settled
      <4>4. QED
        BY <1>9, <4>1, <4>2, <4>3
    <3>4. QED
      BY <2>2, <3>1, <3>2, <3>3 DEF Covered
  <2>3. CASE q.more
    <3>1. pass' = q
      BY <2>1, <2>3
    <3>2. ASSUME NEW d \in Device, d \in exist, Covered(pass, d) PROVE Covered(q, d)
      BY <2>2, <3>2 DEF Covered
    <3>3. QED
      BY <1>7, <3>1, <3>2 DEF PagesOK
  <2>4. CASE ~q.more
    <3>1. pass' = NextKey(q)
      BY <2>1, <2>4
    <3>2. ASSUME NEW d \in Device, d \in exist, Covered(pass, d) PROVE Covered(NextKey(q), d)
      <4>1. Settled(q, d)
        BY <2>2, <2>4, <3>2
      <4>2. QED
        BY <1>1, <1>7, <4>1, NextKeyCovers
    <3>3. /\ NextKey(q) \in Pass /\ NextKey(q).st \in {"swap", "list"} /\ NextKey(q).page = <<>>
          /\ NextKey(q).st = "swap" => NextKey(q).found = <<>> /\ NextKey(q).todo = <<>>
          /\ SameResult(NextKey(q), q)
      BY <1>7, NextKeyFields DEF SameResult
    <3>4. QED
      BY <1>7, <3>1, <3>2, <3>3 DEF PagesOK, SameResult
  <2>5. QED
    BY <2>3, <2>4
<1>14. QED
  BY <1>12, <1>13

\* The next device of the page: only the one that was asked for leaves the page.
LEMMA GotCovers ==
    ASSUME exist \in SUBSET Node, NEW p \in Pass, p.st = "get", PagesOK(p)
    PROVE  /\ Got(p) \in Pass /\ PagesOK(Got(p)) /\ SameResult(Got(p), p)
           /\ Got(p).st # "idle"
           /\ \A d \in Device :
                Covered(p, d) /\ (d = Head(p.page) => d \in p.devs \cup p.missed) =>
                  Covered(Got(p), d)
<1>1. p.page \in Seq(Device) /\ p.page # <<>> /\ Len(p.page) \in Nat
  BY DEF PagesOK
<1>2. /\ Head(p.page) \in Device /\ Tail(p.page) \in Seq(Device) /\ Tail(p.page) \in Seq(Node)
      /\ Len(Tail(p.page)) = Len(p.page) - 1
  <2>1. Head(p.page) \in Device /\ Tail(p.page) \in Seq(Device)
    BY <1>1, HeadTail
  <2>2. p.page \in Seq(Node)
    BY DEF Pass
  <2>3. Tail(p.page) \in Seq(Node)
    BY <1>1, <2>2, HeadTail
  <2>4. QED
    BY <1>1, <2>1, <2>3
<1>3. ASSUME NEW d \in Device, Covered(p, d), d = Head(p.page) => d \in p.devs \cup p.missed
      PROVE  \/ Settled(p, d)
             \/ In(d, Tail(p.page))
             \/ p.more /\ \E x \in {d, Up(d), Up(Up(d))} : Ahead(p, x)
  <2>1. CASE In(d, p.page)
    <3>1. d = Head(p.page) \/ In(d, Tail(p.page))
      BY <1>1, <2>1, InTail
    <3>2. QED
      BY <1>3, <3>1 DEF Settled
  <2>2. CASE ~In(d, p.page)
    BY <1>3, <2>2 DEF Covered, Ahead
  <2>3. QED
    BY <2>1, <2>2
<1>4. CASE Len(p.page) > 1
  <2> DEFINE t == Tail(p.page)
             q == [p EXCEPT !.page = t]
  <2>1. Got(p) = q
    BY <1>4 DEF Got
  <2>2. t \in Seq(Device) /\ t \in Seq(Node) /\ t # <<>>
    <3>1. Len(t) > 0
      BY <1>1, <1>2, <1>4
    <3> HIDE DEF t
    <3>2. t # <<>>
      BY <3>1
    <3>3. QED
      BY <1>2, <3>2 DEF t
  <2> HIDE DEF t
  <2>3. /\ q \in Pass /\ q.st = "get" /\ q.page = t /\ q.key = p.key /\ q.offset = p.offset
        /\ q.more = p.more /\ q.found = p.found /\ q.todo = p.todo /\ SameResult(q, p)
    BY <2>2 DEF Pass, SameResult
  <2> HIDE DEF q
  <2>4. ASSUME NEW d \in Device, Covered(p, d),
               d = Head(p.page) => d \in p.devs \cup p.missed
        PROVE  Covered(q, d)
    <3>1. Settled(p, d) => Settled(q, d)
      BY <2>3 DEF Settled, Queued, SameResult
    <3>2. \A x : Ahead(p, x) => Ahead(q, x)
      BY <2>3 DEF Ahead
    <3>3. QED
      BY <1>3, <2>3, <2>4, <3>1, <3>2 DEF Covered, t
  <2>5. QED
    BY <2>1, <2>2, <2>3, <2>4 DEF PagesOK
<1>5. CASE ~(Len(p.page) > 1)
  <2>1. \A d : ~In(d, Tail(p.page))
    BY <1>1, <1>2, <1>5 DEF In
  <2>2. CASE p.more
    <3> DEFINE e == <<>>
               q == [p EXCEPT !.st = "list", !.page = e]
    <3>1. Got(p) = q
      BY <1>5, <2>2 DEF Got
    <3>2. e \in Seq(Node)
      OBVIOUS
    <3> HIDE DEF e
    <3>3. /\ q \in Pass /\ q.st = "list" /\ q.page = e /\ q.key = p.key /\ q.offset = p.offset
          /\ q.found = p.found /\ q.todo = p.todo /\ SameResult(q, p)
      BY <3>2 DEF Pass, SameResult
    <3> HIDE DEF q
    <3>4. ASSUME NEW d \in Device, Covered(p, d),
                 d = Head(p.page) => d \in p.devs \cup p.missed
          PROVE  Covered(q, d)
      <4>1. Settled(p, d) => Settled(q, d)
        BY <3>3 DEF Settled, Queued, SameResult
      <4>2. \A x : Ahead(p, x) => Ahead(q, x)
        BY <3>3 DEF Ahead
      <4>3. QED
        BY <1>3, <2>1, <3>4, <4>1, <4>2 DEF Covered
    <3>5. QED
      BY <3>1, <3>3, <3>4 DEF PagesOK, e
  <2>3. CASE ~p.more
    <3>1. Got(p) = NextKey(p)
      BY <1>5, <2>3 DEF Got
    <3>2. /\ NextKey(p) \in Pass /\ NextKey(p).st \in {"swap", "list"} /\ NextKey(p).page = <<>>
          /\ NextKey(p).st = "swap" => NextKey(p).found = <<>> /\ NextKey(p).todo = <<>>
          /\ SameResult(NextKey(p), p)
      BY NextKeyFields DEF SameResult
    <3>3. ASSUME NEW d \in Device, Covered(p, d),
                 d = Head(p.page) => d \in p.devs \cup p.missed
          PROVE  Covered(NextKey(p), d)
      <4>1. Settled(p, d)
        BY <1>3, <2>1, <2>3, <3>3
      <4>2. QED
        BY <4>1, NextKeyCovers
    <3>4. QED
      BY <3>1, <3>2, <3>3 DEF PagesOK
  <2>4. QED
    BY <2>2, <2>3
<1>6. QED
  BY <1>4, <1>5

\* As long as nothing is created or deleted, what is ahead does not change.
LEMMA SameListings ==
    ASSUME exist' = exist
    PROVE  \A d : Covered(pass, d)' <=> Covered(pass', d)
<1>1. \A x : Ahead(pass, x)' <=> Ahead(pass', x)
  BY DEF Ahead, Listing, Rank
<1>2. \A d : Settled(pass, d)' <=> Settled(pass', d)
  BY DEF Settled, Queued, In
<1>3. QED
  BY <1>1, <1>2 DEF Covered, In

-----------------------------------------------------------------------------
(* Changes in ChirpStack                                                   *)

\* A change keeps where the pass is, and keeps watch.
LEMMA WatchKept ==
    ASSUME IInv, Fault, exist' \in SUBSET Node, disabled' \in SUBSET Device, Closed',
           NEW deletes \in BOOLEAN, Watch(MayJoin', deletes), UNCHANGED <<filter, client>>,
           \A d \in Device : d \in exist /\ Covered(pass, d) /\ ~deletes => Covered(pass, d)'
    PROVE  IInv'
<1>1. pass \in Pass /\ MayJoin' \in SUBSET Device
  BY DEF IInv, TypeOK, MayJoin
<1>2. /\ pass' \in Pass /\ pass'.st = pass.st /\ pass'.page = pass.page
      /\ pass'.found = pass.found /\ pass'.todo = pass.todo /\ pass'.devs = pass.devs
      /\ pass'.steady = pass.steady \cap MayJoin' /\ pass'.seen = pass.seen \cup MayJoin'
      /\ pass'.deleted = (pass.deleted \/ deletes)
  BY <1>1 DEF Watch, Pass
<1>3. TypeOK'
  <2>1. faults' \in 0 .. MaxFaults
    BY JoinFilterAssumption DEF IInv, TypeOK, Fault
  <2>2. QED
    BY <1>2, <2>1 DEF IInv, TypeOK, client
<1>4. PagesOK(pass)'
  BY <1>2 DEF IInv, PagesOK
<1>5. Watched'
  BY <1>2 DEF IInv, Watched
<1>6. Complete'
  <2> SUFFICES ASSUME pass'.st # "idle", ~pass'.deleted, NEW d \in pass'.steady
               PROVE  Covered(pass, d)'
    BY DEF Complete
  <2>1. d \in pass.steady /\ ~pass.deleted /\ ~deletes /\ pass.st # "idle"
    BY <1>2
  <2>2. d \in Device /\ d \in exist /\ Covered(pass, d)
    BY <2>1 DEF IInv, Complete, Watched, MayJoin
  <2>3. QED
    BY <2>1, <2>2
<1>7. QED
  BY <1>3, <1>4, <1>5, <1>6 DEF IInv

\* What is created moves the others to later places, where the pass finds them.
LEMMA CreateKept ==
    ASSUME IInv, NEW x \in Node, Create(x)
    PROVE  IInv'
<1>1. /\ Fault /\ exist \in SUBSET Node /\ exist' = exist \cup {x}
      /\ Parent[x] \in exist \cup {0} /\ UNCHANGED <<disabled, filter, client>>
      /\ Watch(MayJoin', FALSE)
  BY DEF Create, IInv, TypeOK, MayJoin
<1>2. exist' \in SUBSET Node /\ disabled' \in SUBSET Device /\ Closed'
  BY <1>1 DEF IInv, TypeOK, Closed
<1>3. /\ pass'.st = pass.st /\ pass'.more = pass.more /\ pass'.key = pass.key
      /\ pass'.offset = pass.offset /\ pass'.page = pass.page /\ pass'.found = pass.found
      /\ pass'.todo = pass.todo /\ pass'.devs = pass.devs /\ pass'.missed = pass.missed
      /\ pass.offset \in Nat
  BY <1>1 DEF Watch, IInv, TypeOK, Pass
<1>4. ASSUME NEW y, Ahead(pass, y) PROVE Ahead(pass, y)'
  <2> DEFINE S == Listing(pass.key)
             T == {z \in exist' : Parent[z] = pass.key}
  <2>1. T \in SUBSET Nat /\ IsFiniteSet(T) /\ S \in SUBSET T
    <3>1. T \in SUBSET Node /\ Node \in SUBSET Nat /\ S \in SUBSET T
      BY <1>1, JoinFilterAssumption DEF Listing
    <3>2. QED
      BY <3>1, FS_Subset, JoinFilterAssumption
  <2>2. Rank(S, y) <= Rank(T, y) /\ Rank(S, y) \in Nat /\ Rank(T, y) \in Nat
    BY <2>1, RankGrows
  <2>3. Listing(pass.key)' = T
    BY <1>3 DEF Listing
  <2>4. pass.offset <= Rank(S, y)
    BY <1>4 DEF Ahead
  <2>5. pass.offset <= Rank(T, y)
    BY <1>3, <2>2, <2>4
  <2>6. Rank(Listing(pass.key), y)' = Rank(T, y)
    BY <2>3 DEF Rank
  <2>7. QED
    BY <1>3, <1>4, <2>5, <2>6 DEF Ahead
<1>5. ASSUME NEW d, Covered(pass, d) PROVE Covered(pass, d)'
  <2>1. Settled(pass, d) => Settled(pass, d)'
    BY <1>3 DEF Settled, Queued, In
  <2>2. In(d, pass.page) => In(d, pass.page)'
    BY <1>3 DEF In
  <2>3. QED
    BY <1>4, <1>5, <2>1, <2>2 DEF Covered
<1>6. QED
  BY <1>1, <1>2, <1>5, WatchKept

\* What is deleted goes with everything below it.
LEMMA DeleteKept ==
    ASSUME IInv, NEW x \in Node, Delete(x)
    PROVE  IInv'
<1>1. /\ Fault /\ exist \in SUBSET Node /\ exist' = {y \in exist : ~Below(y, x)}
      /\ UNCHANGED <<disabled, filter, client>> /\ Watch(MayJoin', TRUE)
  BY DEF Delete, IInv, TypeOK, MayJoin
<1>2. Closed'
  <2> SUFFICES ASSUME NEW y \in exist, ~Below(y, x), Parent[y] # 0
               PROVE  Parent[y] \in exist /\ ~Below(Parent[y], x)
    BY <1>1 DEF Closed
  <2>1. y \in Node /\ Up(y) = Parent[y] /\ Parent[y] \in exist /\ Up(y) \in Node
    BY <1>1, Tree DEF IInv, Closed
  <2>2. Up(Up(Up(y))) = 0
    <3>1. CASE y \in Device
      BY <3>1, Tree
    <3>2. CASE y \notin Device
      <4>1. Up(Up(y)) = 0
        BY <2>1, <3>2, JoinFilterAssumption
      <4>2. QED
        BY <4>1 DEF Up
    <3>3. QED
      BY <3>1, <3>2
  <2>3. x # 0
    BY Tree
  <2>4. ~Below(Up(y), x)
    BY <2>2, <2>3 DEF Below
  <2>5. QED
    BY <2>1, <2>4
<1>3. exist' \in SUBSET Node /\ disabled' \in SUBSET Device
  BY <1>1 DEF IInv, TypeOK
<1>4. QED
  BY <1>1, <1>2, <1>3, WatchKept

\* Disabling and enabling does not change the listings.
LEMMA ToggleKept ==
    ASSUME IInv, NEW d \in Device, Toggle(d)
    PROVE  IInv'
<1>1. /\ Fault /\ exist' = exist /\ disabled' \in SUBSET Device
      /\ UNCHANGED <<filter, client>> /\ Watch(MayJoin', FALSE)
  BY DEF Toggle, IInv, TypeOK, MayJoin
<1>2. exist' \in SUBSET Node /\ Closed'
  BY <1>1 DEF IInv, TypeOK, Closed
<1>3. /\ pass'.st = pass.st /\ pass'.more = pass.more /\ pass'.key = pass.key
      /\ pass'.offset = pass.offset /\ pass'.page = pass.page /\ pass'.found = pass.found
      /\ pass'.todo = pass.todo /\ pass'.devs = pass.devs /\ pass'.missed = pass.missed
  BY <1>1 DEF Watch, IInv, TypeOK, Pass
<1>4. ASSUME NEW e, Covered(pass, e) PROVE Covered(pass, e)'
  <2>1. Covered(pass', e)
    BY <1>3, <1>4 DEF Covered, Settled, Queued, Ahead
  <2>2. QED
    BY <1>1, <2>1, SameListings
<1>5. QED
  BY <1>1, <1>2, <1>4, WatchKept

-----------------------------------------------------------------------------
(* The router                                                              *)

\* A step of the pass, with what it has to show.
LEMMA PassKept ==
    ASSUME IInv, UNCHANGED <<chirpstack, client, filter>>, faults' \in 0 .. MaxFaults,
           pass' \in Pass, PagesOK(pass'),
           pass'.st # "idle" =>
             /\ pass'.steady \subseteq MayJoin /\ MayJoin \subseteq pass'.seen
             /\ pass'.devs \subseteq pass'.seen
             /\ ~pass'.deleted => \A d \in pass'.steady : Covered(pass', d)
    PROVE  IInv'
<1>1. TypeOK' /\ Closed' /\ exist' = exist /\ MayJoin' = MayJoin
  BY DEF IInv, TypeOK, Closed, MayJoin, chirpstack, client
<1>2. PagesOK(pass)'
  BY DEF PagesOK
<1>3. Watched'
  BY <1>1 DEF Watched
<1>4. Complete'
  BY <1>1, SameListings DEF Complete
<1>5. QED
  BY <1>1, <1>2, <1>3, <1>4 DEF IInv

\* A pass without devices, which is Idle up to its state and what it watches.
LEMMA IdleFacts ==
    /\ Idle \in Pass /\ Idle.st = "idle" /\ PagesOK(Idle)
    /\ \A m \in SUBSET Device : LET p == [Idle EXCEPT !.st = "list", !.steady = m, !.seen = m]
         IN /\ p \in Pass /\ p.st = "list" /\ p.page = <<>> /\ p.key = 0 /\ p.offset = 0
            /\ p.devs = {} /\ p.steady = m /\ p.seen = m
<1>1. <<>> \in Seq(Node) /\ 0 \in Nat
  OBVIOUS
<1>2. QED
  BY <1>1 DEF Idle, Pass, PagesOK

\* Every device is ahead at the start: the pass lists all tenants.
LEMMA StartKept ==
    ASSUME IInv, StartPass
    PROVE  IInv'
<1>1. MayJoin \in SUBSET Device /\ exist \in SUBSET Node /\ faults \in 0 .. MaxFaults
  BY DEF MayJoin, IInv, TypeOK
<1>2. pass' = [Idle EXCEPT !.st = "list", !.steady = MayJoin, !.seen = MayJoin]
  BY DEF StartPass
<1>3. /\ pass' \in Pass /\ pass'.st = "list" /\ pass'.page = <<>> /\ pass'.key = 0
      /\ pass'.offset = 0 /\ pass'.devs = {} /\ pass'.steady = MayJoin /\ pass'.seen = MayJoin
  BY <1>1, <1>2, IdleFacts
<1>4. ASSUME NEW d \in Device PROVE Covered(pass', d)
  <2>1. Parent[Up(Up(d))] = 0
    BY Tree
  <2>2. 0 <= Rank(Listing(0), Up(Up(d)))
    BY <1>1, Listings
  <2>3. Ahead(pass', Up(Up(d)))
    BY <1>3, <2>1, <2>2 DEF Ahead
  <2>4. QED
    BY <2>3 DEF Covered
<1>5. PagesOK(pass')
  BY <1>3 DEF PagesOK
<1>6. QED
  BY <1>1, <1>3, <1>4, <1>5, PassKept DEF StartPass

\* The next page.
LEMMA ListKept ==
    ASSUME IInv, ListPage
    PROVE  IInv'
<1>1. /\ pass' \in Pass /\ PagesOK(pass') /\ SameResult(pass', pass)
      /\ \A d \in Device : d \in exist /\ Covered(pass, d) => Covered(pass', d)
  BY ListCovers DEF IInv
<1>2. pass.st # "idle"
  BY DEF ListPage
<1>3. /\ pass'.steady \subseteq MayJoin /\ MayJoin \subseteq pass'.seen
      /\ pass'.devs \subseteq pass'.seen
  BY <1>1, <1>2 DEF SameResult, IInv, Watched
<1>4. ASSUME ~pass'.deleted, NEW d \in pass'.steady PROVE Covered(pass', d)
  <2>1. d \in pass.steady /\ ~pass.deleted /\ d \in Device /\ d \in exist
    BY <1>1, <1>3, <1>4 DEF SameResult, MayJoin
  <2>2. QED
    BY <1>1, <1>2, <2>1 DEF IInv, Complete
<1>5. UNCHANGED <<chirpstack, client, filter>> /\ faults' \in 0 .. MaxFaults
  BY DEF ListPage, IInv, TypeOK
<1>6. QED
  BY <1>1, <1>3, <1>4, <1>5, PassKept

\* A device is added to the result if it may join, or is missed.
LEMMA GetKept ==
    ASSUME IInv, GetDevice \/ GetFails
    PROVE  IInv'
<1> DEFINE d == Head(pass.page)
           devs == IF GetDevice /\ d \in MayJoin THEN pass.devs \cup {d} ELSE pass.devs
           missed == IF GetDevice THEN pass.missed ELSE pass.missed \cup {d}
           p == [pass EXCEPT !.devs = devs, !.missed = missed]
<1>1. /\ pass \in Pass /\ pass.st = "get" /\ PagesOK(pass) /\ exist \in SUBSET Node
      /\ d \in Device /\ faults \in 0 .. MaxFaults
  <2>1. pass \in Pass /\ pass.st = "get" /\ PagesOK(pass) /\ exist \in SUBSET Node
        /\ faults \in 0 .. MaxFaults
    BY DEF IInv, TypeOK, GetDevice, GetFails
  <2>2. pass.page \in Seq(Device) /\ pass.page # <<>>
    BY <2>1 DEF PagesOK
  <2>3. QED
    BY <2>1, <2>2, HeadTail
<1>2. pass' = Got(p)
  <2>1. CASE GetDevice
    <3>1. pass' = Got([pass EXCEPT !.devs = devs])
      BY <2>1 DEF GetDevice
    <3>2. [pass EXCEPT !.devs = devs] = p
      BY <1>1, <2>1 DEF Pass
    <3>3. QED
      BY <3>1, <3>2
  <2>2. CASE ~GetDevice
    <3>1. pass' = Got([pass EXCEPT !.missed = missed])
      BY <2>2 DEF GetFails
    <3>2. [pass EXCEPT !.missed = missed] = p
      BY <1>1, <2>2 DEF Pass
    <3>3. QED
      BY <3>1, <3>2
  <2>3. QED
    BY <2>1, <2>2
<1>3. /\ devs \in SUBSET Device /\ missed \in SUBSET Device
      /\ pass.devs \subseteq devs /\ pass.missed \subseteq missed
      /\ devs \subseteq pass.seen
      /\ d \in MayJoin => d \in devs \cup missed
  <2>1. MayJoin \subseteq pass.seen /\ pass.devs \subseteq pass.seen
    BY <1>1 DEF IInv, Watched
  <2>2. pass.devs \in SUBSET Device /\ pass.missed \in SUBSET Device
    BY <1>1 DEF Pass
  <2> HIDE DEF d
  <2>3. QED
    BY <1>1, <2>1, <2>2
<1> HIDE DEF devs, missed, d
<1>4. /\ p \in Pass /\ p.st = "get" /\ p.page = pass.page /\ p.more = pass.more
      /\ p.key = pass.key /\ p.offset = pass.offset /\ p.found = pass.found
      /\ p.todo = pass.todo /\ p.devs = devs /\ p.missed = missed
      /\ p.steady = pass.steady /\ p.seen = pass.seen /\ p.deleted = pass.deleted
  BY <1>1, <1>3 DEF Pass
<1> HIDE DEF p
<1>5. PagesOK(p)
  BY <1>1, <1>4 DEF PagesOK
<1>6. /\ pass' \in Pass /\ PagesOK(pass') /\ SameResult(pass', p)
      /\ \A e \in Device :
           Covered(p, e) /\ (e = d => e \in devs \cup missed) => Covered(pass', e)
  BY <1>1, <1>2, <1>4, <1>5, GotCovers DEF d
<1>7. ASSUME NEW e, Covered(pass, e) PROVE Covered(p, e)
  <2>1. Settled(pass, e) => Settled(p, e)
    BY <1>3, <1>4 DEF Settled, Queued
  <2>2. \A x : Ahead(pass, x) => Ahead(p, x)
    BY <1>1, <1>4 DEF Ahead
  <2>3. QED
    BY <1>4, <1>7, <2>1, <2>2 DEF Covered
<1>8. /\ pass'.steady \subseteq MayJoin /\ MayJoin \subseteq pass'.seen
      /\ pass'.devs \subseteq pass'.seen
  BY <1>1, <1>3, <1>4, <1>6 DEF SameResult, IInv, Watched
<1>9. ASSUME ~pass'.deleted, NEW e \in pass'.steady PROVE Covered(pass', e)
  <2>1. e \in pass.steady /\ ~pass.deleted /\ e \in Device /\ e \in MayJoin
    BY <1>4, <1>6, <1>8, <1>9 DEF SameResult, MayJoin
  <2>2. Covered(pass, e)
    BY <1>1, <2>1 DEF IInv, Complete
  <2>3. QED
    BY <1>3, <1>6, <1>7, <2>1, <2>2
<1>10. UNCHANGED <<chirpstack, client, filter>> /\ faults' \in 0 .. MaxFaults
  BY <1>1, JoinFilterAssumption DEF GetDevice, GetFails, Fault
<1>11. QED
  BY <1>6, <1>8, <1>9, <1>10, PassKept

\* A request that was not answered fails with its connection.
LEMMA RequestsDropped ==
    ASSUME TypeOK, rpc' = [i \in Slot |-> IF rpc[i].st = "asked" THEN NoRpc ELSE rpc[i]]
    PROVE  rpc' \in [Slot -> Rpc] /\ \A i \in Slot : rpc'[i].st # "asked"
<1>1. NoRpc \in Rpc /\ NoRpc.st # "asked"
  BY DEF NoRpc, Rpc
<1>2. QED
  BY <1>1 DEF TypeOK

\* A pass that ends leaves nothing behind.
LEMMA EndKept ==
    ASSUME IInv, UNCHANGED chirpstack, pass' = Idle, TypeOK'
    PROVE  IInv'
<1>1. Closed'
  BY DEF IInv, Closed, chirpstack
<1>2. pass'.st = "idle" /\ PagesOK(pass')
  BY IdleFacts
<1>3. PagesOK(pass)' /\ Watched' /\ Complete'
  BY <1>2 DEF PagesOK, Watched, Complete
<1>4. QED
  BY <1>1, <1>3 DEF IInv

\* A listing fails, the filter is replaced, or the router is started again.
LEMMA EndsKept ==
    ASSUME IInv, PassFails \/ UpdateFilter \/ Restart
    PROVE  IInv'
<1>1. UNCHANGED chirpstack /\ pass' = Idle
  BY DEF PassFails, UpdateFilter, Restart
<1>2. pass' \in Pass /\ pass.devs \in SUBSET Device /\ faults' \in 0 .. MaxFaults
  <2>1. pass' \in Pass
    BY <1>1, IdleFacts
  <2>2. pass.devs \in SUBSET Device
    BY DEF IInv, TypeOK, Pass
  <2>3. faults' \in 0 .. MaxFaults
    BY JoinFilterAssumption DEF IInv, TypeOK, PassFails, UpdateFilter, Restart, Fault
  <2>4. QED
    BY <2>1, <2>2, <2>3
<1>3. CASE PassFails \/ UpdateFilter
  <2>1. filter' \in SUBSET Device /\ UNCHANGED client
    BY <1>2, <1>3 DEF PassFails, UpdateFilter, IInv, TypeOK
  <2>2. TypeOK'
    BY <1>1, <1>2, <2>1 DEF IInv, TypeOK, chirpstack, client
  <2>3. QED
    BY <1>1, <2>2, EndKept
<1>4. CASE Restart
  <2>1. /\ rpc' \in [Slot -> Rpc]
        /\ \A i \in Slot : rpc'[i].st # "asked"
    BY <1>4, RequestsDropped DEF Restart, IInv
  <2>2. filter' \in SUBSET Device /\ connected' \in BOOLEAN /\ accepted' \in SUBSET Device
    BY <1>4 DEF Restart, IInv, TypeOK
  <2>3. TypeOK'
    BY <1>1, <1>2, <2>1, <2>2 DEF IInv, TypeOK, chirpstack
  <2>4. QED
    BY <1>1, <2>3, EndKept
<1>5. QED
  BY <1>3, <1>4

-----------------------------------------------------------------------------
(* The forwarder's client                                                  *)

\* What the client does is no business of a pass.
LEMMA ClientKept ==
    ASSUME IInv, UNCHANGED <<chirpstack, pass, filter>>, faults' \in 0 .. MaxFaults,
           connected' \in BOOLEAN, accepted' \in SUBSET Device, rpc' \in [Slot -> Rpc],
           \A i, j \in Slot : rpc'[i].st = "asked" =>
             connected' /\ (rpc'[j].st = "asked" => i = j)
    PROVE  IInv'
<1>1. TypeOK' /\ Closed' /\ MayJoin' = MayJoin /\ exist' = exist /\ pass' = pass
  BY DEF IInv, TypeOK, Closed, MayJoin, chirpstack
<1>2. PagesOK(pass)' /\ Watched'
  BY <1>1 DEF IInv, PagesOK, Watched
<1>3. Complete'
  BY <1>1, SameListings DEF IInv, Complete
<1>4. QED
  BY <1>1, <1>2, <1>3 DEF IInv

\* The client asks for a filter when it has connected or when the ticker fires:
\* then no other request is under way.
LEMMA AskKept ==
    ASSUME IInv, NEW i \in Slot, Connect(i) \/ Renew(i)
    PROVE  IInv'
<1>1. /\ rpc \in [Slot -> Rpc] /\ connected' = TRUE /\ Ask(i)
      /\ UNCHANGED <<chirpstack, pass, filter>> /\ faults' = faults /\ accepted' = accepted
      /\ \A j \in Slot : rpc[j].st # "asked"
  BY DEF Connect, Renew, IInv, TypeOK
<1>2. [NoRpc EXCEPT !.st = "asked"] \in Rpc
  BY DEF NoRpc, Rpc
<1>3. rpc' \in [Slot -> Rpc] /\ \A j \in Slot : j # i => rpc'[j] = rpc[j]
  BY <1>1, <1>2 DEF Ask
<1>4. \A j \in Slot : rpc'[j].st = "asked" => j = i
  BY <1>1, <1>3
<1>5. faults' \in 0 .. MaxFaults /\ accepted' \in SUBSET Device
  BY <1>1 DEF IInv, TypeOK
<1>6. QED
  BY <1>1, <1>3, <1>4, <1>5, ClientKept

\* A connection that is closed takes its request with it.
LEMMA DisconnectKept ==
    ASSUME IInv, Disconnect
    PROVE  IInv'
<1>1. rpc' \in [Slot -> Rpc] /\ \A i \in Slot : rpc'[i].st # "asked"
  BY RequestsDropped DEF Disconnect, IInv
<1>2. connected' \in BOOLEAN
  BY DEF Disconnect
<1>3. faults' \in 0 .. MaxFaults
  BY JoinFilterAssumption DEF Disconnect, Fault, IInv, TypeOK
<1>4. UNCHANGED <<chirpstack, pass, filter>> /\ accepted' \in SUBSET Device
  BY DEF Disconnect, IInv, TypeOK
<1>5. QED
  BY <1>1, <1>2, <1>3, <1>4, ClientKept

\* The router answers, the request fails, or the answer is applied.
LEMMA RpcKept ==
    ASSUME IInv, NEW i \in Slot, Answer(i) \/ RpcFails(i) \/ SetJoinFilter(i)
    PROVE  IInv'
<1>1. /\ rpc \in [Slot -> Rpc] /\ connected \in BOOLEAN /\ filter \in SUBSET Device
      /\ accepted \in SUBSET Device /\ faults \in 0 .. MaxFaults
      /\ \A k, j \in Slot : rpc[k].st = "asked" =>
           connected /\ (rpc[j].st = "asked" => k = j)
  BY DEF IInv, TypeOK
<1>2. /\ UNCHANGED <<chirpstack, pass, filter>> /\ connected' = connected
      /\ faults' \in 0 .. MaxFaults
  BY <1>1, JoinFilterAssumption DEF Answer, RpcFails, SetJoinFilter, Fault
<1>3. accepted' \in SUBSET Device
  BY <1>1 DEF Answer, RpcFails, SetJoinFilter, Rpc
<1>4. PICK r \in Rpc : r.st # "asked" /\ rpc' = [rpc EXCEPT ![i] = r]
  <2>1. NoRpc \in Rpc /\ NoRpc.st # "asked"
    BY DEF NoRpc, Rpc
  <2>2. [st |-> "answered", filter |-> filter] \in Rpc
    BY <1>1 DEF Rpc
  <2>3. QED
    BY <2>1, <2>2 DEF Answer, RpcFails, SetJoinFilter
<1>5. /\ rpc' \in [Slot -> Rpc] /\ rpc'[i].st # "asked"
      /\ \A j \in Slot : j # i => rpc'[j] = rpc[j]
  BY <1>1, <1>4
<1>6. \A k, j \in Slot : rpc'[k].st = "asked" =>
        connected' /\ (rpc'[j].st = "asked" => k = j)
  BY <1>1, <1>2, <1>5
<1>7. QED
  BY <1>1, <1>2, <1>3, <1>5, <1>6, ClientKept

-----------------------------------------------------------------------------
(* The theorems                                                            *)

\* A pass over an empty router, and a client without a filter.
LEMMA InitInv ==
    Init => IInv
<1> SUFFICES ASSUME Init PROVE IInv
  OBVIOUS
<1>1. pass \in Pass /\ pass.st = "idle" /\ PagesOK(pass)
  BY IdleFacts DEF Init
<1>2. rpc \in [Slot -> Rpc] /\ \A i \in Slot : rpc[i].st = "idle"
  BY DEF Init, NoRpc, Rpc
<1>3. TypeOK
  <2>1. connected \in BOOLEAN
    BY DEF Init
  <2>2. exist \in SUBSET Node /\ disabled \in SUBSET Device /\ faults \in 0 .. MaxFaults
    BY JoinFilterAssumption DEF Init
  <2>3. filter \in SUBSET Device /\ accepted \in SUBSET Device
    BY DEF Init
  <2>4. QED
    BY <1>1, <1>2, <2>1, <2>2, <2>3 DEF TypeOK
<1>4. Closed
  BY JoinFilterAssumption DEF Init, Closed
<1>5. Watched /\ Complete
  BY <1>1 DEF Watched, Complete
<1>6. QED
  BY <1>1, <1>3, <1>4, <1>5 DEF IInv

\* Every step of ChirpStack, the router or the client keeps the invariant.
LEMMA NextInv ==
    ASSUME IInv, [Next]_vars
    PROVE  IInv'
<1>1. CASE \E x \in Node : Create(x) \/ Delete(x)
  BY <1>1, CreateKept, DeleteKept
<1>2. CASE \E d \in Device : Toggle(d)
  BY <1>2, ToggleKept
<1>3. CASE PassStep \/ GetFails \/ PassFails \/ Restart
  BY <1>3, StartKept, ListKept, GetKept, EndsKept DEF PassStep
<1>4. CASE Disconnect
  BY <1>4, DisconnectKept
<1>5. CASE \E i \in Slot : \/ Connect(i) \/ Renew(i) \/ Answer(i) \/ RpcFails(i)
                           \/ SetJoinFilter(i)
  BY <1>5, AskKept, RpcKept
<1>6. CASE UNCHANGED vars
  <2>1. /\ UNCHANGED <<chirpstack, pass, filter>> /\ faults' = faults
        /\ connected' = connected /\ rpc' = rpc /\ accepted' = accepted
    BY <1>6 DEF vars, chirpstack
  <2>2. QED
    BY <2>1, ClientKept DEF IInv, TypeOK
<1>7. QED
  BY <1>1, <1>2, <1>3, <1>4, <1>5, <1>6 DEF Next

\* The invariant holds in every reachable state, for every tree, page size and
\* number of changes and failures.
THEOREM JoinFilterInvariant == Spec => []IInv
<1>1. IInv /\ [Next]_vars => IInv'
  BY NextInv
<1>2. QED
  BY InitInv, <1>1, PTL DEF Spec

\* The types of router/joinfilter.go's pass and of the client's requests; at most
\* one request is under way, and only on a connection.
THEOREM JoinFilterTypeOK == Spec => []TypeOK
<1>1. IInv => TypeOK
  BY DEF IInv
<1>2. QED
  BY <1>1, JoinFilterInvariant, PTL

\* The filter that UpdateFilter sets has every device that could join all through
\* the pass, and none that could at no time of it.
LEMMA SwapIsFaithful ==
    ASSUME IInv, [Next]_vars, pass.st = "swap", pass'.st = "idle", faults' = faults
    PROVE  /\ filter' \subseteq pass.seen
           /\ ~pass.deleted => pass.steady \ pass.missed \subseteq filter'
<1>1. UpdateFilter
  <2>1. faults \in Int
    BY DEF IInv, TypeOK
  <2>2. pass' # pass /\ ~Fault
    BY <2>1 DEF Fault
  <2>3. PassStep
    BY <2>2 DEF Next, vars, Create, Delete, Toggle, GetFails, PassFails, Restart,
                Disconnect, Connect, Renew, Answer, RpcFails, SetJoinFilter
  <2>4. QED
    BY <2>3 DEF PassStep, StartPass, ListPage, GetDevice
<1>2. filter' = pass.devs
  BY <1>1 DEF UpdateFilter
<1>3. filter' \subseteq pass.seen
  BY <1>2 DEF IInv, Watched
<1>4. ASSUME ~pass.deleted, NEW d \in pass.steady, d \notin pass.missed
      PROVE  d \in pass.devs
  <2>1. Covered(pass, d)
    BY <1>4 DEF IInv, Complete
  <2>2. pass.page = <<>> /\ pass.found = <<>> /\ pass.todo = <<>>
    BY DEF IInv, PagesOK
  <2>3. \A x : ~In(x, <<>>)
    BY DEF In
  <2>4. \A x : ~Ahead(pass, x)
    BY DEF Ahead
  <2>5. Settled(pass, d)
    BY <2>1, <2>2, <2>3, <2>4 DEF Covered
  <2>6. QED
    BY <1>4, <2>2, <2>3, <2>5 DEF Settled, Queued
<1>5. QED
  BY <1>2, <1>3, <1>4

\* chirpstackGenerator.UpdateFilter, over listings that change under it: what it
\* reads page by page is complete and sound (see FilterFaithful).
THEOREM FilterIsFaithful == Spec => FilterFaithful
<1> DEFINE Faithful ==
      pass.st = "swap" /\ pass'.st = "idle" /\ faults' = faults =>
         /\ filter' \subseteq pass.seen
         /\ ~pass.deleted => pass.steady \ pass.missed \subseteq filter'
<1>1. IInv /\ [Next]_vars => [Faithful]_vars
  BY SwapIsFaithful
<1>2. QED
  BY <1>1, JoinFilterInvariant, PTL DEF Spec, FilterFaithful

=============================================================================
