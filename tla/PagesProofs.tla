----------------------------- MODULE PagesProofs -----------------------------
(***************************************************************************)
(* Proofs about the listings of the administration channel, for any page,  *)
(* frame, lengths of entries and changes: what a page holds, and what a    *)
(* listing has shown when it ends.                                         *)
(***************************************************************************)
EXTENDS Pages, WellFoundedInduction, TLAPS

Less == {ss \in Nat \X Nat : ss[1] < ss[2]}

LEMMA LessIsWellFounded == IsWellFoundedOn(Less, Nat)
BY NatLessThanWellFounded DEF OpToRel, Less

LEMMA LeastOf ==
    ASSUME NEW S \in SUBSET Nat, S # {}
    PROVE  \E n \in S : \A k \in S : n <= k
<1>1. \E n \in S : \A k \in S : <<k, n>> \notin Less
  BY WFMin, LessIsWellFounded
<1>2. PICK n \in S : \A k \in S : ~(k < n)
  BY <1>1 DEF Less
<1>3. \A k \in S : n <= k
  BY <1>2
<1> QED BY <1>3

LEMMA GreatestOf ==
    ASSUME NEW S \in SUBSET Nat, S # {}, NEW c \in Nat, \A n \in S : n <= c
    PROVE  \E n \in S : \A k \in S : k <= n
<1> DEFINE T == {c - n : n \in S}
<1>1. T \in SUBSET Nat /\ T # {}
  <2>1. \A n \in S : c - n \in Nat
    OBVIOUS
  <2> QED BY <2>1
<1> HIDE DEF T
<1>2. PICK t \in T : \A k \in T : t <= k
  BY <1>1, LeastOf
<1>3. PICK n \in S : t = c - n
  BY DEF T
<1>4. \A k \in S : c - n <= c - k
  BY <1>2, <1>3 DEF T
<1> QED BY <1>4

LEMMA SliceIs ==
    ASSUME NEW S, NEW s \in Seq(S), NEW o \in Nat, NEW n \in Nat, n = 0 \/ o + n <= Len(s)
    PROVE  /\ SubSeq(s, o + 1, o + n) \in Seq(S) /\ Len(SubSeq(s, o + 1, o + n)) = n
           /\ \A i \in 1 .. n : o + i \in DOMAIN s /\ SubSeq(s, o + 1, o + n)[i] = s[o + i]
<1>1. CASE n = 0
  BY <1>1
<1>2. CASE n # 0
  <2>1. SubSeq(s, o + 1, o + n) \in Seq(S) /\ Len(SubSeq(s, o + 1, o + n)) = n
    BY <1>2
  <2>2. \A i \in 1 .. n : o + i \in DOMAIN s
    BY <1>2
  <2>3. \A i \in 1 .. n : SubSeq(s, o + 1, o + n)[i] = s[o + i]
    BY <1>2
  <2> QED BY <2>1, <2>2, <2>3
<1> QED BY <1>1, <1>2

LEMMA EmptyIs ==
    ASSUME NEW S
    PROVE  <<>> \in Seq(S) /\ Len(<<>>) = 0 /\ Ids(<<>>) = <<>>
<1>1. Ids(<<>>) = <<>>
  BY DEF Ids
<1> QED BY <1>1

LEMMA JoinIs ==
    ASSUME NEW S, NEW s \in Seq(S), NEW t \in Seq(S)
    PROVE  /\ s \o t \in Seq(S) /\ Len(s \o t) = Len(s) + Len(t) /\ Len(s) \in Nat /\ Len(t) \in Nat
           /\ \A i \in DOMAIN s : i \in DOMAIN (s \o t) /\ (s \o t)[i] = s[i]
           /\ \A i \in 1 .. Len(t) : Len(s) + i \in DOMAIN (s \o t) /\ (s \o t)[Len(s) + i] = t[i]
           /\ \A i \in DOMAIN (s \o t) : i \in DOMAIN s \/ \E j \in 1 .. Len(t) : i = Len(s) + j
<1>1. s \o t \in Seq(S) /\ Len(s \o t) = Len(s) + Len(t) /\ Len(s) \in Nat /\ Len(t) \in Nat
  OBVIOUS
<1>2. \A i \in DOMAIN s : i \in DOMAIN (s \o t) /\ (s \o t)[i] = s[i]
  BY <1>1
<1>3. \A i \in 1 .. Len(t) : Len(s) + i \in DOMAIN (s \o t) /\ (s \o t)[Len(s) + i] = t[i]
  BY <1>1
<1>4. ASSUME NEW i \in DOMAIN (s \o t) PROVE i \in DOMAIN s \/ \E j \in 1 .. Len(t) : i = Len(s) + j
  <2>1. i \in 1 .. Len(s) + Len(t)
    BY <1>1
  <2>2. CASE i <= Len(s)
    BY <2>1, <2>2
  <2>3. CASE ~(i <= Len(s))
    <3>1. i - Len(s) \in 1 .. Len(t) /\ i = Len(s) + (i - Len(s))
      BY <1>1, <2>1, <2>3
    <3> QED BY <3>1
  <2> QED BY <2>2, <2>3
<1> QED BY <1>1, <1>2, <1>3, <1>4

-----------------------------------------------------------------------------
(* A page.                                                                 *)

Entries == [id: Nat, size: Nat]

LEMMA RestIs ==
    ASSUME NEW o \in Nat, items \in Seq(Entries)
    PROVE  /\ Rest(o) \in Seq(Entries) /\ Len(Rest(o)) \in 0 .. PAGE
           /\ o + Len(Rest(o)) <= Len(items) \/ Len(Rest(o)) = 0
           /\ Rest(o) = <<>> <=> Len(items) <= o
           /\ \A n \in 0 .. Len(Rest(o)) : SubSeq(Rest(o), 1, n) = SubSeq(items, o + 1, o + n)
           /\ \A n \in 0 .. Len(Rest(o)) : Len(SubSeq(Rest(o), 1, n)) = n
<1>1. PAGE \in Nat \ {0}
  BY PagesAssumption
<1> DEFINE m == IF o + PAGE < Len(items) THEN o + PAGE ELSE Len(items)
           r == SubSeq(items, o + 1, m)
<1>2. Rest(o) = r /\ m \in Nat /\ m <= Len(items) /\ m <= o + PAGE
  BY <1>1 DEF Rest
<1>3. CASE Len(items) <= o
  <2>1. m <= o
    BY <1>1, <1>2, <1>3
  <2>2. r = <<>>
    BY <1>2, <2>1
  <2> QED BY <1>1, <1>2, <1>3, <2>2
<1>4. CASE o < Len(items)
  <2>1. o + 1 <= m
    BY <1>1, <1>4
  <2> HIDE DEF m
  <2>2. r \in Seq(Entries) /\ Len(r) = m - o /\ \A i \in 1 .. m - o : r[i] = items[o + i]
    BY <1>2, <1>4, <2>1
  <2> HIDE DEF r
  <2>3. Len(r) \in 1 .. PAGE /\ r # <<>>
    BY <1>1, <1>2, <2>1, <2>2
  <2>4. ASSUME NEW n \in 0 .. Len(r)
        PROVE  SubSeq(r, 1, n) = SubSeq(items, o + 1, o + n) /\ Len(SubSeq(r, 1, n)) = n
    <3>1. CASE n = 0
      BY <2>2, <3>1
    <3>2. CASE n # 0
      <4>1. /\ SubSeq(r, 1, n) \in Seq(Entries) /\ Len(SubSeq(r, 1, n)) = n
            /\ \A i \in 1 .. n : SubSeq(r, 1, n)[i] = r[i]
        BY <2>2, <2>4, <3>2
      <4>2. /\ SubSeq(items, o + 1, o + n) \in Seq(Entries) /\ Len(SubSeq(items, o + 1, o + n)) = n
            /\ \A i \in 1 .. n : SubSeq(items, o + 1, o + n)[i] = items[o + i]
        BY <1>2, <2>1, <2>2, <2>4, <3>2
      <4>3. \A i \in 1 .. n : r[i] = items[o + i]
        BY <1>2, <2>1, <2>2, <2>4
      <4> QED BY <4>1, <4>2, <4>3
    <3> QED BY <3>1, <3>2
  <2> QED BY <1>2, <1>4, <2>2, <2>3, <2>4
<1> QED BY <1>3, <1>4

LEMMA LengthOfOne ==
    ASSUME NEW e \in Entries
    PROVE  Length(<<e>>) = e.size
<1> DEFINE s == <<e>>
           Is(f) == f = [n \in 0 .. Len(s) |-> IF n = 0 THEN 0 ELSE f[n - 1] + s[n].size]
           g == [n \in 0 .. 1 |-> IF n = 0 THEN 0 ELSE e.size]
           h == CHOOSE f : Is(f)
<1>1. Len(s) = 1 /\ s[1] = e /\ e.size \in Nat
  BY DEF Entries
<1>2. Is(g)
  <2>1. \A n \in 0 .. 1 : g[n] = (IF n = 0 THEN 0 ELSE g[n - 1] + s[n].size)
    BY <1>1
  <2> QED BY <1>1, <2>1
<1>3. Is(h)
  <2> HIDE DEF g, Is
  <2> QED BY <1>2
<1>4. h[0] = 0 /\ h[1] = e.size
  <2> HIDE DEF h
  <2>1. h = [n \in 0 .. 1 |-> IF n = 0 THEN 0 ELSE h[n - 1] + s[n].size]
    BY <1>1, <1>3
  <2>2. h[0] = 0 /\ h[1] = h[1 - 1] + s[1].size
    BY <2>1
  <2> QED BY <1>1, <2>2
<1>5. Length(s) = h[Len(s)]
  BY DEF Length
<1> QED BY <1>1, <1>4, <1>5

Fitting(o, c) == {n \in 1 .. c : Fits(SubSeq(Rest(o), 1, n))}

\* The loop answers with the longest page that fits.
LEMMA ShrinkIs ==
    ASSUME NEW o \in Nat, NEW c \in 0 .. PAGE, c = Len(Rest(o))
    PROVE  \/ Fitting(o, c) = {} /\ Shrink(o) = Refused
           \/ \E n \in Fitting(o, c) : (\A k \in Fitting(o, c) : k <= n) /\ Shrink(o) = Cut(o, n)
<1> DEFINE Good(n) == Fits(SubSeq(Rest(o), 1, n))
           Is(f) == f = [n \in 0 .. PAGE |-> IF n = 0 THEN Refused
                                             ELSE IF Good(n) THEN Cut(o, n) ELSE f[n - 1]]
           Best(n) == CHOOSE m \in Fitting(o, n) : \A k \in Fitting(o, n) : k <= m
           g == [n \in 0 .. PAGE |-> IF Fitting(o, n) = {} THEN Refused ELSE Cut(o, Best(n))]
           h == CHOOSE f : Is(f)
<1>1. PAGE \in Nat
  BY PagesAssumption
<1>2. \A n, m \in Nat : m \in Fitting(o, n) <=> 1 <= m /\ m <= n /\ Good(m)
  BY DEF Fitting
<1>3. \A n \in Nat : Fitting(o, n) \in SUBSET Nat
  BY DEF Fitting
<1>4. Shrink(o) = h[c]
  BY DEF Shrink
<1> HIDE DEF Good
<1>5. ASSUME NEW n \in Nat, Fitting(o, n) # {}
      PROVE  Best(n) \in Fitting(o, n) /\ \A k \in Fitting(o, n) : k <= Best(n)
  <2>1. \E m \in Fitting(o, n) : \A k \in Fitting(o, n) : k <= m
    <3>1. \A m \in Fitting(o, n) : m <= n
      BY DEF Fitting
    <3> QED BY <1>3, <1>5, <3>1, GreatestOf
  <2> QED BY <2>1
<1> HIDE DEF Best
<1>6. ASSUME NEW n \in 0 .. PAGE
      PROVE  g[n] = IF n = 0 THEN Refused ELSE IF Good(n) THEN Cut(o, n) ELSE g[n - 1]
  <2>1. n \in Nat
    BY <1>1
  <2>2. CASE n = 0
    <3>1. Fitting(o, n) = {}
      BY <1>2, <1>3, <2>2
    <3> QED BY <2>2, <3>1
  <2>3. CASE n # 0 /\ Good(n)
    <3>1. n \in Fitting(o, n)
      BY <1>2, <2>1, <2>3
    <3>2. Best(n) = n
      <4>1. n <= Best(n) /\ Best(n) \in Fitting(o, n)
        BY <1>5, <2>1, <3>1
      <4>2. Best(n) \in Nat /\ Best(n) <= n
        BY <1>2, <1>3, <2>1, <4>1
      <4> QED BY <2>1, <4>1, <4>2
    <3> QED BY <2>3, <3>1, <3>2
  <2>4. CASE n # 0 /\ ~Good(n)
    <3>1. n - 1 \in Nat /\ n - 1 \in 0 .. PAGE
      BY <1>1, <2>4
    <3>2. \A m \in Nat : m \in Fitting(o, n) <=> m \in Fitting(o, n - 1)
      <4>1. \A m \in Nat : m <= n /\ m # n <=> m <= n - 1
        BY <2>1
      <4> QED BY <1>2, <2>1, <2>4, <3>1, <4>1
    <3>3. Fitting(o, n) = Fitting(o, n - 1)
      BY <1>3, <2>1, <3>1, <3>2
    <3>4. g[n] = g[n - 1]
      BY <2>1, <3>1, <3>3 DEF Best
    <3> QED BY <2>4, <3>4
  <2> QED BY <2>2, <2>3, <2>4
<1>7. Is(g)
  BY <1>6
<1>8. Is(h)
  <2> HIDE DEF g, Is
  <2> QED BY <1>7
<1>9. \A n \in 0 .. PAGE : h[n] = g[n]
  <2> DEFINE D == {n \in Nat : n \in 0 .. PAGE /\ h[n] # g[n]}
  <2> HIDE DEF h, g
  <2> SUFFICES ASSUME D # {} PROVE FALSE
    BY <1>1
  <2>1. PICK n \in D : \A k \in D : n <= k
    <3>1. D \in SUBSET Nat
      OBVIOUS
    <3> HIDE DEF D
    <3> QED BY <3>1, LeastOf
  <2>2. n \in 0 .. PAGE /\ n \in Nat /\ h[n] # g[n]
    OBVIOUS
  <2>3. h[n] = IF n = 0 THEN Refused ELSE IF Good(n) THEN Cut(o, n) ELSE h[n - 1]
    BY <1>8, <2>2
  <2>4. n # 0 /\ h[n - 1] # g[n - 1]
    BY <1>6, <2>2, <2>3
  <2>5. n - 1 \in D
    BY <1>1, <2>2, <2>4
  <2>6. ~(n <= n - 1)
    BY <2>2
  <2> QED BY <2>1, <2>5, <2>6
<1>10. Shrink(o) = g[c]
  BY <1>4, <1>9
<1>11. c \in Nat
  BY <1>1
<1>12. CASE Fitting(o, c) = {}
  BY <1>10, <1>12
<1>13. CASE Fitting(o, c) # {}
  BY <1>5, <1>10, <1>11, <1>13
<1> QED BY <1>12, <1>13

LEMMA PageIs ==
    ASSUME NEW o \in Nat, items \in Seq(Entries)
    PROVE  LET answer == bounded_page(o) IN
           /\ answer.ok \in BOOLEAN /\ answer.has_more \in BOOLEAN
           /\ answer.ok => /\ answer.entries = SubSeq(items, o + 1, o + Len(answer.entries))
                           /\ Len(answer.entries) \in 0 .. Len(Rest(o))
                           /\ \A n \in Fitting(o, Len(Rest(o))) : n <= Len(answer.entries)
                           /\ answer.has_more <=> o + Len(answer.entries) < Len(items)
           /\ ~answer.ok => /\ o < Len(items) /\ ~Sendable(items[o + 1])
                            /\ answer.entries = <<>>
<1> DEFINE c == Len(Rest(o))
<1>1. /\ Rest(o) \in Seq(Entries) /\ c \in 0 .. PAGE
      /\ o + c <= Len(items) \/ c = 0
      /\ Rest(o) = <<>> <=> Len(items) <= o
      /\ \A n \in 0 .. c : SubSeq(Rest(o), 1, n) = SubSeq(items, o + 1, o + n)
      /\ \A n \in 0 .. c : Len(SubSeq(Rest(o), 1, n)) = n
  BY RestIs
<1>2. PAGE \in Nat /\ c \in Nat
  BY <1>1, PagesAssumption
<1>3. CASE Rest(o) = <<>>
  <2>1. bounded_page(o) = Answer(<<>>, FALSE) /\ c = 0
    BY <1>3 DEF bounded_page
  <2>2. Fitting(o, c) = {}
    BY <2>1 DEF Fitting
  <2>3. SubSeq(items, o + 1, o + 0) = <<>>
    OBVIOUS
  <2> QED BY <1>1, <1>3, <2>1, <2>2, <2>3 DEF Answer
<1>4. CASE Rest(o) # <<>>
  <2>1. bounded_page(o) = Shrink(o) /\ c >= 1 /\ o < Len(items)
    BY <1>1, <1>4 DEF bounded_page
  <2>2. CASE Fitting(o, c) = {} /\ Shrink(o) = Refused
    <3>1. ~Fits(SubSeq(Rest(o), 1, 1))
      BY <1>2, <2>1, <2>2 DEF Fitting
    <3>2. SubSeq(Rest(o), 1, 1) = SubSeq(items, o + 1, o + 1)
      BY <1>1, <1>2, <2>1
    <3>3. SubSeq(items, o + 1, o + 1) = <<items[o + 1]>> /\ items[o + 1] \in Entries
      <4> DEFINE t == SubSeq(items, o + 1, o + 1)
      <4>1. t \in Seq(Entries) /\ Len(t) = 1 /\ \A i \in 1 .. 1 : o + i \in DOMAIN items /\ t[i] = items[o + i]
        <5>1. o + 1 <= Len(items)
          BY <2>1
        <5> QED BY <5>1, SliceIs
      <4> HIDE DEF t
      <4>2. t = <<items[o + 1]>>
        BY <4>1
      <4> QED BY <2>1, <4>2 DEF t
    <3>4. ~(items[o + 1].size <= Frame)
      BY <3>1, <3>2, <3>3, LengthOfOne DEF Fits
    <3> QED BY <2>1, <2>2, <3>4 DEF Refused, Sendable
  <2>3. ASSUME NEW n \in Fitting(o, c), \A k \in Fitting(o, c) : k <= n, Shrink(o) = Cut(o, n)
        PROVE  /\ bounded_page(o).ok /\ bounded_page(o).has_more \in BOOLEAN
               /\ bounded_page(o).entries = SubSeq(items, o + 1, o + Len(bounded_page(o).entries))
               /\ Len(bounded_page(o).entries) \in 0 .. c
               /\ \A k \in Fitting(o, c) : k <= Len(bounded_page(o).entries)
               /\ bounded_page(o).has_more <=> o + Len(bounded_page(o).entries) < Len(items)
    <3>1. n \in 0 .. c
      BY <1>2 DEF Fitting
    <3>2. bounded_page(o) = [ok |-> TRUE, entries |-> SubSeq(Rest(o), 1, n), has_more |-> o + n < Len(items)]
      BY <2>1, <2>3 DEF Cut, Answer
    <3>3. SubSeq(Rest(o), 1, n) = SubSeq(items, o + 1, o + n) /\ Len(SubSeq(Rest(o), 1, n)) = n
      BY <1>1, <3>1
    <3> DEFINE b == bounded_page(o)
    <3> HIDE DEF b
    <3> DEFINE more == o + n < Len(items)
    <3>4. more \in BOOLEAN /\ (more <=> o + n < Len(items))
      OBVIOUS
    <3>5. b = [ok |-> TRUE, entries |-> SubSeq(Rest(o), 1, n), has_more |-> more]
      BY <3>2 DEF b
    <3> HIDE DEF more
    <3>6. b.ok /\ b.entries = SubSeq(items, o + 1, o + n) /\ Len(b.entries) = n /\ b.has_more = more
      BY <3>3, <3>5
    <3> QED BY <2>3, <3>1, <3>4, <3>6 DEF b
  <2>4. \/ Fitting(o, c) = {} /\ Shrink(o) = Refused
        \/ \E n \in Fitting(o, c) : (\A k \in Fitting(o, c) : k <= n) /\ Shrink(o) = Cut(o, n)
    BY <1>1, ShrinkIs
  <2> QED BY <2>2, <2>3, <2>4
<1> QED BY <1>3, <1>4

-----------------------------------------------------------------------------
(* A listing.                                                              *)

PagesType ==
    /\ items \in Seq(Entries) /\ offset \in Nat /\ done \in BOOLEAN /\ seen \in Seq(Nat)
    /\ changes \in Nat /\ added \in BOOLEAN /\ removed \in BOOLEAN /\ steady \subseteq Nat

\* New identifiers are new.
SteadyIsOld == \A id \in steady : id < Fresh

\* What lies before the offset was shown, if it was there from the beginning.
ShownSoFar ==
    ~removed => \A i \in DOMAIN items :
        i <= offset /\ items[i].id \in steady /\ Sendable(items[i]) => \E j \in DOMAIN seen : seen[j] = items[i].id

ReadToTheEnd == done => Len(items) <= offset

\* As long as nothing is added, entries are read in the order of their
\* identifiers, and what is still to be read comes after what was.
InOrder ==
    ~added =>
        /\ \A i, j \in DOMAIN items : i < j => items[i].id < items[j].id
        /\ \A i, j \in DOMAIN seen : i < j => seen[i] < seen[j]
        /\ \A i \in DOMAIN seen, j \in DOMAIN items : j > offset => seen[i] < items[j].id

PagesInv == PagesType /\ SteadyIsOld /\ ShownSoFar /\ ReadToTheEnd /\ InOrder

LEMMA InitPages == Init => PagesInv
<1> SUFFICES ASSUME Init PROVE PagesInv
  OBVIOUS
<1>1. PICK sizes \in SeqOf(Sizes, Capacity) : items = [i \in DOMAIN sizes |-> [id |-> i, size |-> sizes[i]]]
  BY DEF Init, Collections
<1>2. PICK m \in 0 .. Capacity : sizes \in [1 .. m -> Sizes]
  BY <1>1 DEF SeqOf
<1>3. Capacity \in Nat /\ Sizes \subseteq Nat
  BY PagesAssumption
<1>4. /\ items = [i \in 1 .. m |-> [id |-> i, size |-> sizes[i]]]
      /\ \A i \in 1 .. m : [id |-> i, size |-> sizes[i]] \in Entries
  <2>1. DOMAIN sizes = 1 .. m /\ \A i \in 1 .. m : sizes[i] \in Sizes
    BY <1>2
  <2>2. \A i \in 1 .. m : i \in Nat
    BY <1>2, <1>3
  <2> QED BY <1>1, <1>3, <2>1, <2>2 DEF Entries
<1>5. items \in Seq(Entries) /\ Len(items) = m /\ DOMAIN items = 1 .. m
  BY <1>2, <1>3, <1>4
<1>6. \A i \in DOMAIN items : items[i].id = i
  BY <1>4, <1>5
<1>7. steady = 1 .. m
  <2>1. steady = {Ids(items)[i] : i \in DOMAIN Ids(items)}
    BY DEF Init, ToSet
  <2>2. DOMAIN Ids(items) = 1 .. m /\ \A i \in 1 .. m : Ids(items)[i] = i
    BY <1>5, <1>6 DEF Ids
  <2> QED BY <2>1, <2>2
<1>8. SteadyIsOld
  BY <1>2, <1>3, <1>7 DEF SteadyIsOld, Fresh, Init
<1>9. PagesType
  <2>1. steady \subseteq Nat
    BY <1>7
  <2>2. offset = 0 /\ done = FALSE /\ seen = <<>> /\ changes = 0 /\ added = FALSE /\ removed = FALSE
    BY DEF Init
  <2> QED BY <1>5, <2>1, <2>2, EmptyIs DEF PagesType
<1>10. ShownSoFar
  BY <1>5 DEF ShownSoFar, Init
<1>11. InOrder
  BY <1>5, <1>6 DEF InOrder, Init
<1> QED BY <1>8, <1>9, <1>10, <1>11 DEF PagesInv, ReadToTheEnd, Init

LEMMA RequestShows ==
    ASSUME PagesInv, Request
    PROVE  PagesInv'
<1> DEFINE answer == bounded_page(offset)
           n == Len(answer.entries)
<1>1. /\ answer.ok \in BOOLEAN /\ answer.has_more \in BOOLEAN
      /\ answer.ok => /\ answer.entries = SubSeq(items, offset + 1, offset + n)
                      /\ n \in 0 .. Len(Rest(offset))
                      /\ answer.has_more <=> offset + n < Len(items)
      /\ ~answer.ok => /\ offset < Len(items) /\ ~Sendable(items[offset + 1])
                       /\ answer.entries = <<>>
  BY PageIs DEF PagesInv, PagesType
<1>2. /\ Len(Rest(offset)) \in Nat
      /\ offset + Len(Rest(offset)) <= Len(items) \/ Len(Rest(offset)) = 0
  <2>1. /\ Len(Rest(offset)) \in 0 .. PAGE
        /\ offset + Len(Rest(offset)) <= Len(items) \/ Len(Rest(offset)) = 0
    BY RestIs DEF PagesInv, PagesType
  <2>2. PAGE \in Nat
    BY PagesAssumption
  <2> QED BY <2>1, <2>2
<1>3. /\ offset' = IF answer.ok THEN offset + n ELSE offset + 1
      /\ done' = (answer.ok /\ ~answer.has_more)
      /\ seen' = seen \o Ids(answer.entries)
      /\ items' = items /\ changes' = changes /\ steady' = steady /\ added' = added /\ removed' = removed
  BY DEF Request
<1> USE DEF PagesInv, PagesType
<1>4. /\ Ids(answer.entries) \in Seq(Nat) /\ Len(Ids(answer.entries)) = n /\ n \in Nat
      /\ \A i \in 1 .. n : offset + i \in DOMAIN items /\ Ids(answer.entries)[i] = items[offset + i].id
      /\ offset + n <= Len(items) \/ n = 0
  <2>1. CASE answer.ok
    <3>1. n \in Nat /\ (n = 0 \/ offset + n <= Len(items))
      BY <1>1, <1>2, <2>1
    <3>2. /\ Len(answer.entries) = n /\ answer.entries \in Seq(Entries)
          /\ \A i \in 1 .. n : offset + i \in DOMAIN items /\ answer.entries[i] = items[offset + i]
      <4> HIDE DEF answer
      <4>1. answer.entries = SubSeq(items, offset + 1, offset + n)
        BY <1>1, <2>1
      <4> HIDE DEF n
      <4> QED BY <3>1, <4>1, SliceIs
    <3> HIDE DEF answer
    <3>3. DOMAIN answer.entries = 1 .. n /\ \A i \in 1 .. n : answer.entries[i] \in Entries
      BY <3>2
    <3> HIDE DEF n
    <3>4. Ids(answer.entries) = [i \in 1 .. n |-> answer.entries[i].id]
      BY <3>3 DEF Ids
    <3>5. \A i \in 1 .. n : answer.entries[i].id \in Nat
      BY <3>3 DEF Entries
    <3> QED BY <3>1, <3>2, <3>4, <3>5
  <2>2. CASE ~answer.ok
    <3>1. answer.entries = <<>> /\ n = 0
      BY <1>1, <2>2
    <3>2. Ids(<<>>) = <<>> /\ <<>> \in Seq(Nat) /\ Len(<<>>) = 0
      BY EmptyIs
    <3> HIDE DEF answer, n
    <3>3. \A i \in 1 .. n : FALSE
      BY <3>1
    <3> QED BY <3>1, <3>2, <3>3
  <2> QED BY <1>1, <2>1, <2>2
<1> HIDE DEF answer
<1> DEFINE ids == Ids(answer.entries)
<1> HIDE DEF n, ids
<1>5. /\ seen' \in Seq(Nat) /\ Len(seen') = Len(seen) + n
      /\ \A i \in DOMAIN seen : i \in DOMAIN seen' /\ seen'[i] = seen[i]
      /\ \A i \in 1 .. n : Len(seen) + i \in DOMAIN seen' /\ seen'[Len(seen) + i] = items[offset + i].id
      /\ \A i \in DOMAIN seen' : i \in DOMAIN seen \/ \E j \in 1 .. n : i = Len(seen) + j
  <2>1. ids \in Seq(Nat) /\ Len(ids) = n /\ \A i \in 1 .. n : ids[i] = items[offset + i].id
    BY <1>4 DEF ids
  <2>2. seen' = seen \o ids /\ seen \in Seq(Nat)
    BY <1>3 DEF ids
  <2> HIDE DEF PagesInv, PagesType
  <2>3. /\ seen \o ids \in Seq(Nat) /\ Len(seen \o ids) = Len(seen) + Len(ids)
        /\ \A i \in DOMAIN seen : i \in DOMAIN (seen \o ids) /\ (seen \o ids)[i] = seen[i]
        /\ \A i \in 1 .. Len(ids) : Len(seen) + i \in DOMAIN (seen \o ids) /\ (seen \o ids)[Len(seen) + i] = ids[i]
        /\ \A i \in DOMAIN (seen \o ids) : i \in DOMAIN seen \/ \E j \in 1 .. Len(ids) : i = Len(seen) + j
    <3>1. /\ seen \o ids \in Seq(Nat) /\ Len(seen \o ids) = Len(seen) + Len(ids)
          /\ \A i \in DOMAIN seen : i \in DOMAIN (seen \o ids) /\ (seen \o ids)[i] = seen[i]
      BY <2>1, <2>2, JoinIs
    <3>2. \A i \in 1 .. Len(ids) : Len(seen) + i \in DOMAIN (seen \o ids) /\ (seen \o ids)[Len(seen) + i] = ids[i]
      BY <2>1, <2>2, JoinIs
    <3>3. \A i \in DOMAIN (seen \o ids) : i \in DOMAIN seen \/ \E j \in 1 .. Len(ids) : i = Len(seen) + j
      BY <2>1, <2>2, JoinIs
    <3> QED BY <3>1, <3>2, <3>3
  <2> QED BY <2>1, <2>2, <2>3
<1>6. PagesType'
  BY <1>1, <1>3, <1>4, <1>5
<1>7. SteadyIsOld'
  BY <1>3 DEF SteadyIsOld, Fresh
<1>8. ShownSoFar'
  <2> SUFFICES ASSUME ~removed, NEW i \in DOMAIN items, i <= offset', items[i].id \in steady, Sendable(items[i])
               PROVE  \E j \in DOMAIN seen' : seen'[j] = items[i].id
    BY <1>3 DEF ShownSoFar, Sendable
  <2>1. i \in Nat
    OBVIOUS
  <2>2. CASE i <= offset
    BY <1>5, <2>2 DEF ShownSoFar
  <2>3. CASE i > offset /\ answer.ok
    <3>1. i - offset \in 1 .. n /\ offset + (i - offset) = i
      BY <1>3, <1>4, <2>1, <2>3
    <3> QED BY <1>5, <3>1
  <2>4. CASE i > offset /\ ~answer.ok
    <3>1. i = offset + 1
      BY <1>3, <2>1, <2>4
    <3> QED BY <1>1, <2>4, <3>1
  <2> QED BY <2>1, <2>2, <2>3, <2>4
<1>9. ReadToTheEnd'
  <2>1. done' => ~(offset + n < Len(items)) /\ offset' = offset + n
    BY <1>1, <1>3 DEF n
  <2> QED BY <1>3, <1>4, <2>1 DEF ReadToTheEnd
<1>10. InOrder'
  <2> SUFFICES ASSUME ~added
               PROVE  /\ \A i, j \in DOMAIN items : i < j => items[i].id < items[j].id
                      /\ \A i, j \in DOMAIN seen' : i < j => seen'[i] < seen'[j]
                      /\ \A i \in DOMAIN seen', j \in DOMAIN items : j > offset' => seen'[i] < items[j].id
    BY <1>3 DEF InOrder
  <2>1. /\ \A i, j \in DOMAIN items : i < j => items[i].id < items[j].id
        /\ \A i, j \in DOMAIN seen : i < j => seen[i] < seen[j]
        /\ \A i \in DOMAIN seen, j \in DOMAIN items : j > offset => seen[i] < items[j].id
    BY DEF InOrder
  <2>2. offset' \in Nat /\ offset <= offset' /\ (n # 0 => offset' = offset + n)
    <3>1. n # 0 => answer.ok
      BY <1>1 DEF n
    <3> QED BY <1>1, <1>3, <1>4, <3>1
  <2>3. \A k \in 1 .. n : offset + k \in DOMAIN items /\ offset + k > offset /\ offset + k <= offset'
    <3>1. \A k \in 1 .. n : k \in Nat /\ 1 <= k /\ k <= n /\ n # 0
      BY <1>4
    <3> QED BY <1>4, <2>2, <3>1
  <2>4. ASSUME NEW i \in DOMAIN seen', NEW j \in DOMAIN seen', i < j PROVE seen'[i] < seen'[j]
    <3>1. CASE j \in DOMAIN seen
      <4>1. i \in DOMAIN seen
        BY <1>5, <2>4, <3>1
      <4> QED BY <1>5, <2>1, <2>4, <3>1, <4>1
    <3>2. ASSUME NEW l \in 1 .. n, j = Len(seen) + l PROVE seen'[i] < seen'[j]
      <4>1. seen'[j] = items[offset + l].id
        BY <1>5, <3>2
      <4>2. CASE i \in DOMAIN seen
        BY <1>5, <2>1, <2>3, <4>1, <4>2
      <4>3. ASSUME NEW k \in 1 .. n, i = Len(seen) + k PROVE seen'[i] < seen'[j]
        <5>1. seen'[i] = items[offset + k].id
          BY <1>5, <4>3
        <5>2. offset + k < offset + l
          BY <1>4, <2>4, <3>2, <4>3
        <5> QED BY <2>1, <2>3, <4>1, <5>1, <5>2
      <4> QED BY <1>5, <4>2, <4>3
    <3> QED BY <1>5, <3>1, <3>2
  <2>5. ASSUME NEW i \in DOMAIN seen', NEW j \in DOMAIN items, j > offset' PROVE seen'[i] < items[j].id
    <3>1. CASE i \in DOMAIN seen
      <4>1. j > offset
        BY <2>2, <2>5
      <4> QED BY <1>5, <2>1, <3>1, <4>1
    <3>2. ASSUME NEW k \in 1 .. n, i = Len(seen) + k PROVE seen'[i] < items[j].id
      <4>1. seen'[i] = items[offset + k].id
        BY <1>5, <3>2
      <4>2. offset + k < j /\ offset + k \in DOMAIN items
        BY <2>2, <2>3, <2>5
      <4> QED BY <2>1, <4>1, <4>2
    <3> QED BY <1>5, <3>1, <3>2
  <2> QED BY <2>1, <2>4, <2>5
<1> QED BY <1>6, <1>7, <1>8, <1>9, <1>10

\* Where the entries of a collection come from after one was put in.
LEMMA InsertedIs ==
    ASSUME NEW S, NEW s \in Seq(S), NEW e \in S, NEW i \in 1 .. Len(s) + 1
    PROVE  /\ InsertAt(s, i, e) \in Seq(S)
           /\ \A j \in DOMAIN InsertAt(s, i, e) :
                \/ InsertAt(s, i, e)[j] = e
                \/ \E k \in DOMAIN s : k <= j /\ InsertAt(s, i, e)[j] = s[k]
<1> DEFINE p == SubSeq(s, 1, i - 1)
           q == SubSeq(s, i, Len(s))
           m == p \o <<e>>
           r == m \o q
<1>1. InsertAt(s, i, e) = r
  BY DEF InsertAt
<1>2. i - 1 \in Nat /\ Len(s) - (i - 1) \in Nat /\ Len(s) \in Nat
  OBVIOUS
<1>3. p \in Seq(S) /\ Len(p) = i - 1 /\ \A j \in 1 .. i - 1 : j \in DOMAIN s /\ p[j] = s[j]
  <2>1. i - 1 = 0 \/ 0 + (i - 1) <= Len(s)
    BY <1>2
  <2>2. /\ SubSeq(s, 0 + 1, 0 + (i - 1)) \in Seq(S) /\ Len(SubSeq(s, 0 + 1, 0 + (i - 1))) = i - 1
        /\ \A j \in 1 .. i - 1 : 0 + j \in DOMAIN s /\ SubSeq(s, 0 + 1, 0 + (i - 1))[j] = s[0 + j]
    BY <1>2, <2>1, SliceIs
  <2> QED BY <2>2
<1>4. /\ q \in Seq(S) /\ Len(q) = Len(s) - (i - 1)
      /\ \A j \in 1 .. Len(q) : (i - 1) + j \in DOMAIN s /\ q[j] = s[(i - 1) + j]
  <2> DEFINE o == i - 1
             n == Len(s) - o
  <2>1. o \in Nat /\ n \in Nat /\ (n = 0 \/ o + n <= Len(s)) /\ o + 1 = i /\ o + n = Len(s)
    BY <1>2
  <2> HIDE DEF o, n
  <2>2. /\ SubSeq(s, o + 1, o + n) \in Seq(S) /\ Len(SubSeq(s, o + 1, o + n)) = n
        /\ \A j \in 1 .. n : o + j \in DOMAIN s /\ SubSeq(s, o + 1, o + n)[j] = s[o + j]
    BY <2>1, SliceIs
  <2>3. q \in Seq(S) /\ Len(q) = n /\ \A j \in 1 .. n : o + j \in DOMAIN s /\ q[j] = s[o + j]
    BY <2>1, <2>2
  <2> QED BY <2>3 DEF o, n
<1> HIDE DEF p, q
<1>5. /\ <<e>> \in Seq(S) /\ Len(<<e>>) = 1 /\ <<e>>[1] = e
  OBVIOUS
<1>6. /\ m \in Seq(S) /\ Len(m) = i
      /\ \A j \in DOMAIN p : m[j] = p[j]
      /\ \A j \in DOMAIN m : j \in DOMAIN p \/ j = i
      /\ m[i] = e
  <2>1. /\ m \in Seq(S) /\ Len(m) = Len(p) + Len(<<e>>)
        /\ \A j \in DOMAIN p : j \in DOMAIN m /\ m[j] = p[j]
        /\ \A j \in 1 .. Len(<<e>>) : Len(p) + j \in DOMAIN m /\ m[Len(p) + j] = <<e>>[j]
        /\ \A j \in DOMAIN m : j \in DOMAIN p \/ \E k \in 1 .. Len(<<e>>) : j = Len(p) + k
    <3>1. p \in Seq(S) /\ <<e>> \in Seq(S)
      BY <1>3, <1>5
    <3> QED BY <3>1, JoinIs
  <2>2. Len(p) + 1 = i /\ \A k \in 1 .. Len(<<e>>) : k = 1
    BY <1>2, <1>3, <1>5
  <2>3. m[i] = e
    BY <1>5, <2>1, <2>2
  <2>4. \A j \in DOMAIN m : j \in DOMAIN p \/ j = i
    BY <2>1, <2>2
  <2> HIDE DEF m
  <2>5. Len(m) = i
    BY <1>2, <1>3, <1>5, <2>1
  <2> QED BY <2>1, <2>3, <2>4, <2>5
<1> HIDE DEF m
<1>7. /\ r \in Seq(S)
      /\ \A j \in DOMAIN m : r[j] = m[j]
      /\ \A j \in 1 .. Len(q) : r[i + j] = q[j]
      /\ \A j \in DOMAIN r : j \in DOMAIN m \/ \E k \in 1 .. Len(q) : j = i + k
  <2>1. m \in Seq(S) /\ q \in Seq(S)
    BY <1>4, <1>6
  <2>2. /\ m \o q \in Seq(S)
        /\ \A j \in DOMAIN m : (m \o q)[j] = m[j]
        /\ \A j \in 1 .. Len(q) : (m \o q)[Len(m) + j] = q[j]
        /\ \A j \in DOMAIN (m \o q) : j \in DOMAIN m \/ \E k \in 1 .. Len(q) : j = Len(m) + k
    BY <2>1, JoinIs
  <2>3. Len(m) = i
    BY <1>6
  <2> HIDE DEF r
  <2>4. r = m \o q
    BY DEF r
  <2> QED BY <2>2, <2>3, <2>4
<1> HIDE DEF r
<1>8. ASSUME NEW j \in DOMAIN r PROVE r[j] = e \/ \E k \in DOMAIN s : k <= j /\ r[j] = s[k]
  <2>1. CASE j \in DOMAIN m
    <3>1. CASE j = i
      BY <1>6, <1>7, <2>1, <3>1
    <3>2. CASE j \in DOMAIN p
      <4>1. j \in 1 .. i - 1
        BY <1>3, <3>2
      <4>2. j \in DOMAIN s /\ r[j] = s[j] /\ j <= j
        BY <1>3, <1>6, <1>7, <2>1, <3>2, <4>1
      <4> QED BY <4>2
    <3> QED BY <1>6, <2>1, <3>1, <3>2
  <2>2. ASSUME NEW k \in 1 .. Len(q), j = i + k PROVE \E l \in DOMAIN s : l <= j /\ r[j] = s[l]
    <3>1. (i - 1) + k \in DOMAIN s /\ r[j] = s[(i - 1) + k]
      BY <1>4, <1>7, <2>2
    <3>2. (i - 1) + k <= j
      BY <1>4, <2>2
    <3> QED BY <3>1, <3>2
  <2> QED BY <1>7, <2>1, <2>2
<1> QED BY <1>1, <1>7, <1>8

LEMMA AddedKeeps ==
    ASSUME PagesInv, EntryAdded
    PROVE  PagesInv'
<1> USE DEF PagesInv, PagesType
<1>1. PICK size \in Sizes, i \in 1 .. Len(items) + 1 : items' = InsertAt(items, i, [id |-> Fresh, size |-> size])
  BY DEF EntryAdded
<1> DEFINE e == [id |-> Fresh, size |-> size]
<1>2. Fresh \in Nat /\ size \in Nat /\ Fresh' = Fresh + 1
  BY PagesAssumption DEF Fresh, EntryAdded
<1>3. e \in Entries /\ e.id = Fresh
  BY <1>2 DEF Entries
<1> HIDE DEF e
<1>4. /\ items' \in Seq(Entries)
      /\ \A j \in DOMAIN items' : items'[j] = e \/ \E k \in DOMAIN items : k <= j /\ items'[j] = items[k]
  BY <1>1, <1>3, InsertedIs DEF e
<1>5. /\ offset' = offset /\ done' = done /\ ~done /\ seen' = seen /\ changes' = changes + 1
      /\ added' = TRUE /\ removed' = removed /\ steady' = steady
  BY DEF EntryAdded
<1>6. PagesType'
  BY <1>4, <1>5
<1>7. SteadyIsOld'
  BY <1>2, <1>5 DEF SteadyIsOld
<1>8. ShownSoFar'
  <2> SUFFICES ASSUME ~removed, NEW j \in DOMAIN items', j <= offset, items'[j].id \in steady,
                      Sendable(items'[j])
               PROVE  \E l \in DOMAIN seen : seen[l] = items'[j].id
    BY <1>5 DEF ShownSoFar, Sendable
  <2>1. items'[j] # e
    BY <1>2, <1>3 DEF SteadyIsOld
  <2>2. PICK k \in DOMAIN items : k <= j /\ items'[j] = items[k]
    BY <1>4, <2>1
  <2>3. k <= offset
    BY <1>4, <2>2
  <2> QED BY <2>2, <2>3 DEF ShownSoFar
<1>9. ReadToTheEnd' /\ InOrder'
  BY <1>5 DEF ReadToTheEnd, InOrder
<1> QED BY <1>6, <1>7, <1>8, <1>9

\* Where the entries of a collection come from after one was taken out.
LEMMA RemovedIs ==
    ASSUME NEW S, NEW s \in Seq(S), NEW i \in DOMAIN s
    PROVE  /\ RemoveAt(s, i) \in Seq(S)
           /\ \A j \in DOMAIN RemoveAt(s, i) :
                LET k == IF j < i THEN j ELSE j + 1
                IN  k \in DOMAIN s /\ RemoveAt(s, i)[j] = s[k]
<1> DEFINE p == SubSeq(s, 1, i - 1)
           q == SubSeq(s, i + 1, Len(s))
           r == p \o q
           n == Len(s) - i
<1>1. RemoveAt(s, i) = r
  BY DEF RemoveAt
<1>2. i \in Nat /\ i - 1 \in Nat /\ n \in Nat /\ Len(s) \in Nat /\ i + n = Len(s)
  <2>1. Len(s) \in Nat /\ DOMAIN s = 1 .. Len(s)
    OBVIOUS
  <2>2. i \in 1 .. Len(s)
    BY <2>1
  <2> QED BY <2>1, <2>2
<1>3. p \in Seq(S) /\ Len(p) = i - 1 /\ \A j \in 1 .. i - 1 : j \in DOMAIN s /\ p[j] = s[j]
  <2>1. i - 1 = 0 \/ 0 + (i - 1) <= Len(s)
    BY <1>2
  <2>2. /\ SubSeq(s, 0 + 1, 0 + (i - 1)) \in Seq(S) /\ Len(SubSeq(s, 0 + 1, 0 + (i - 1))) = i - 1
        /\ \A j \in 1 .. i - 1 : 0 + j \in DOMAIN s /\ SubSeq(s, 0 + 1, 0 + (i - 1))[j] = s[0 + j]
    BY <1>2, <2>1, SliceIs
  <2> QED BY <2>2
<1>4. q \in Seq(S) /\ Len(q) = n /\ \A j \in 1 .. n : i + j \in DOMAIN s /\ q[j] = s[i + j]
  <2>1. i \in Nat /\ n \in Nat /\ (n = 0 \/ i + n <= Len(s))
    BY <1>2
  <2> HIDE DEF p, n, r
  <2>2. /\ SubSeq(s, i + 1, i + n) \in Seq(S) /\ Len(SubSeq(s, i + 1, i + n)) = n
        /\ \A j \in 1 .. n : i + j \in DOMAIN s /\ SubSeq(s, i + 1, i + n)[j] = s[i + j]
    BY <2>1, SliceIs
  <2>3. q = SubSeq(s, i + 1, i + n)
    BY <1>2
  <2> HIDE DEF q
  <2> QED BY <2>2, <2>3
<1> HIDE DEF p, q, n
<1>5. /\ r \in Seq(S)
      /\ \A j \in DOMAIN p : r[j] = p[j]
      /\ \A j \in 1 .. Len(q) : r[Len(p) + j] = q[j]
      /\ \A j \in DOMAIN r : j \in DOMAIN p \/ \E k \in 1 .. Len(q) : j = Len(p) + k
  <2>1. p \in Seq(S) /\ q \in Seq(S)
    BY <1>3, <1>4
  <2> QED BY <2>1, JoinIs
<1> HIDE DEF r
<1>6. ASSUME NEW j \in DOMAIN r
      PROVE  LET k == IF j < i THEN j ELSE j + 1 IN k \in DOMAIN s /\ r[j] = s[k]
  <2>1. CASE j \in DOMAIN p
    <3>1. j \in 1 .. i - 1 /\ j < i
      BY <1>2, <1>3, <2>1
    <3> QED BY <1>3, <1>5, <2>1, <3>1
  <2>2. ASSUME NEW k \in 1 .. Len(q), j = Len(p) + k
        PROVE  ~(j < i) /\ j + 1 \in DOMAIN s /\ r[j] = s[j + 1]
    <3>1. k \in 1 .. n /\ j + 1 = i + k /\ ~(j < i)
      BY <1>2, <1>3, <1>4, <2>2
    <3>2. i + k \in DOMAIN s /\ q[k] = s[i + k]
      BY <1>4, <3>1
    <3> QED BY <1>5, <2>2, <3>1, <3>2
  <2> QED BY <1>5, <2>1, <2>2
<1> QED BY <1>1, <1>5, <1>6

LEMMA RemovedKeeps ==
    ASSUME PagesInv, EntryRemoved
    PROVE  PagesInv'
<1> USE DEF PagesInv, PagesType
<1>1. PICK i \in DOMAIN items : items' = RemoveAt(items, i)
  BY DEF EntryRemoved
<1> DEFINE From(j) == IF j < i THEN j ELSE j + 1
<1>2. items' \in Seq(Entries) /\ \A j \in DOMAIN items' : From(j) \in DOMAIN items /\ items'[j] = items[From(j)]
  BY <1>1, RemovedIs
<1>3. i \in Nat /\ DOMAIN items' \subseteq Nat
  BY <1>2
<1>4. \A j \in DOMAIN items' : From(j) >= j /\ \A k \in DOMAIN items' : j < k => From(j) < From(k)
  BY <1>3
<1>5. /\ offset' = offset /\ done' = done /\ ~done /\ seen' = seen /\ changes' = changes + 1
      /\ added' = added /\ removed' = TRUE /\ steady' \subseteq steady
  BY DEF EntryRemoved
<1>6. Fresh' = Fresh + 1 /\ Fresh \in Nat
  BY <1>5, PagesAssumption DEF Fresh
<1>7. InOrder'
  <2> SUFFICES ASSUME ~added
               PROVE  /\ \A j, k \in DOMAIN items' : j < k => items'[j].id < items'[k].id
                      /\ \A j, k \in DOMAIN seen : j < k => seen[j] < seen[k]
                      /\ \A j \in DOMAIN seen, k \in DOMAIN items' : k > offset => seen[j] < items'[k].id
    BY <1>5 DEF InOrder
  <2>1. /\ \A j, k \in DOMAIN items : j < k => items[j].id < items[k].id
        /\ \A j, k \in DOMAIN seen : j < k => seen[j] < seen[k]
        /\ \A j \in DOMAIN seen, k \in DOMAIN items : k > offset => seen[j] < items[k].id
    BY DEF InOrder
  <2> HIDE DEF From
  <2>2. ASSUME NEW j \in DOMAIN items', NEW k \in DOMAIN items', j < k PROVE items'[j].id < items'[k].id
    BY <1>2, <1>4, <2>1, <2>2
  <2>3. ASSUME NEW j \in DOMAIN seen, NEW k \in DOMAIN items', k > offset PROVE seen[j] < items'[k].id
    <3>1. From(k) > offset
      BY <1>2, <1>3, <1>4, <2>3
    <3> QED BY <1>2, <2>1, <3>1
  <2> QED BY <2>1, <2>2, <2>3
<1>8. PagesType' /\ SteadyIsOld' /\ ShownSoFar' /\ ReadToTheEnd'
  BY <1>2, <1>5, <1>6 DEF SteadyIsOld, ShownSoFar, ReadToTheEnd
<1> QED BY <1>7, <1>8

\* The order in which entries come and go never loses what a listing has
\* shown: the invariant behind ListingComplete.
THEOREM PagesInvariant == Spec => []PagesInv
<1>1. ASSUME PagesInv, [Next]_vars PROVE PagesInv'
  <2>1. CASE UNCHANGED vars
    BY <1>1, <2>1 DEF vars, PagesInv, PagesType, SteadyIsOld, Fresh, ShownSoFar, Sendable, ReadToTheEnd, InOrder
  <2> QED BY <1>1, <2>1, RequestShows, AddedKeeps, RemovedKeeps DEF Next
<1> QED BY <1>1, InitPages, PTL DEF Spec

\* bounded_page: a listing that ends has shown every entry that was there all
\* along and fits a frame, unless something was removed meanwhile; while
\* nothing is added it shows none twice.
THEOREM ListingsAreComplete == Spec => []ListingComplete
<1>1. PagesInv => ListingComplete
  <2> SUFFICES ASSUME PagesInv, done PROVE ListingComplete
    BY DEF ListingComplete
  <2> USE DEF PagesInv, PagesType
  <2>1. ASSUME ~removed, NEW i \in DOMAIN items, items[i].id \in steady, Sendable(items[i])
        PROVE  items[i].id \in ToSet(seen)
    <3>1. i <= offset
      BY DEF ReadToTheEnd
    <3> QED BY <2>1, <3>1 DEF ShownSoFar, ToSet
  <2>2. ASSUME ~added PROVE IsInjective(seen)
    <3>1. \A i, j \in DOMAIN seen : i < j => seen[i] < seen[j]
      BY <2>2 DEF InOrder
    <3>2. ASSUME NEW i \in DOMAIN seen, NEW j \in DOMAIN seen, seen[i] = seen[j] PROVE i = j
      <4>1. i \in Nat /\ j \in Nat /\ seen[i] \in Nat
        OBVIOUS
      <4>2. i < j \/ j < i \/ i = j
        BY <4>1
      <4> QED BY <3>1, <3>2, <4>1, <4>2
    <3> QED BY <3>2 DEF IsInjective
  <2> QED BY <2>1, <2>2 DEF ListingComplete
<1> QED BY <1>1, PagesInvariant, PTL

\* bounded_page against its doc comment: at every offset of every collection
\* the page is the longest that fits, and it says truthfully whether entries
\* follow; it is refused only when its first entry alone exceeds a frame.
THEOREM PagesAreLongest == Spec => []PageIsLongest
<1>1. PagesInv => PageIsLongest
  <2> SUFFICES ASSUME PagesInv, NEW o \in 0 .. Len(items)
               PROVE  LET answer == bounded_page(o)
                          fitting == {n \in 1 .. Len(Rest(o)) : Fits(SubSeq(items, o + 1, o + n))}
                      IN  IF answer.ok
                          THEN /\ answer.entries = SubSeq(items, o + 1, o + Len(answer.entries))
                               /\ \A n \in fitting : n <= Len(answer.entries)
                               /\ answer.has_more <=> o + Len(answer.entries) < Len(items)
                          ELSE ~Sendable(items[o + 1])
    BY DEF PageIsLongest
  <2>1. o \in Nat /\ items \in Seq(Entries)
    BY DEF PagesInv, PagesType
  <2>2. /\ Len(Rest(o)) \in 0 .. PAGE
        /\ \A n \in 0 .. Len(Rest(o)) : SubSeq(Rest(o), 1, n) = SubSeq(items, o + 1, o + n)
    BY <2>1, RestIs
  <2>3. {n \in 1 .. Len(Rest(o)) : Fits(SubSeq(items, o + 1, o + n))} = Fitting(o, Len(Rest(o)))
    <3>1. \A n \in 1 .. Len(Rest(o)) : n \in 0 .. Len(Rest(o))
      BY <2>2, PagesAssumption
    <3> QED BY <2>2, <3>1 DEF Fitting
  <2> QED BY <2>1, <2>3, PageIs
<1> QED BY <1>1, PagesInvariant, PTL

=============================================================================
