------------------------ MODULE InlineScopesProofs ------------------------
(***************************************************************************)
(* Proofs about InlineScopes, for any classes of markers, any limit and    *)
(* any sequences of markers: nothing is on the stack or open twice, the    *)
(* first pass pairs each marker once and within the limit, and the         *)
(* lowering does to its scopes what InlineStack allows.                    *)
(***************************************************************************)
EXTENDS InlineScopes, FiniteSetTheorems, SequenceTheorems, WellFoundedInduction, TLAPS

Scope == [class : Classes, origin : Nat]
Entry == [class : Classes, position : Nat, origin : Nat]

Fields == {"scopes", "chain", "istack", "opened", "watches"}

\* The open scopes are scopes there are, and in the order they were made; the tags
\* on the stack differ.
ActiveOK(a) ==
    /\ DOMAIN a = Fields
    /\ a.scopes \in Seq(Scope)
    /\ a.chain \in Seq(Nat)
    /\ \A i \in 1..Len(a.chain) : a.chain[i] \in 1..Len(a.scopes)
    /\ \A i, j \in 1..Len(a.chain) : i < j => a.chain[i] < a.chain[j]
    /\ a.istack \in Seq(Entry)
    /\ \A i, j \in 1..Len(a.istack) :
          TagOf[a.istack[i].class] = TagOf[a.istack[j].class] => i = j

NoAnchors(a) ==
    /\ \A i \in 1..Len(a.scopes) : a.scopes[i].class # "anchor"
    /\ \A i \in 1..Len(a.istack) : a.istack[i].class # "anchor"

\* A close has a tag, and its slot is on the stack, or just above once the top is gone.
ClosingOK ==
    /\ closing \in [tag : Tags \cup {"none"}, ended : SUBSET Nat, slot : Nat]
    /\ mode \in {"collect", "read", "close", "reopen"}
    /\ mode \in {"collect", "read"} => closing = NotClosing
    /\ mode = "close" => /\ closing.slot \in 0..Len(active.istack)
                         /\ closing.slot # 0 \/ active.chain # << >>
    /\ mode = "reopen" => closing.slot \in 1..(Len(active.istack) + 1)

IInv ==
    /\ stream \in Seq(Events)
    /\ at \in Nat \ {0}
    /\ ActiveOK(active)
    /\ ClosingOK
    /\ Plain => NoAnchors(active)

-----------------------------------------------------------------------------
(* Picking *)

\* Places count what is picked in order.
LEMMA Places ==
    ASSUME NEW K \in SUBSET Nat, IsFiniteSet(K)
    PROVE  /\ Cardinality(K) \in Nat
           /\ \A k \in 1..Cardinality(K) : Place(K, k) \in K
           /\ \A k, m \in 1..Cardinality(K) : k < m => Place(K, k) < Place(K, m)
<1> DEFINE To(k) == {j \in K : j <= k}
           n == Cardinality(K)
<1>1. n \in Nat
  BY FS_CardinalityType
<1>2. ASSUME NEW k \in K
      PROVE  IsFiniteSet(To(k)) /\ Cardinality(To(k)) \in 1..n
  <2>1. To(k) \in SUBSET K /\ To(k) # {}
    <3>1. k <= k
      OBVIOUS
    <3> QED
      BY <3>1
  <2> HIDE DEF To
  <2>2. IsFiniteSet(To(k)) /\ Cardinality(To(k)) <= n
    BY <2>1, FS_Subset
  <2>3. Cardinality(To(k)) \in Nat /\ Cardinality(To(k)) # 0
    BY <2>1, <2>2, FS_CardinalityType, FS_EmptySet
  <2> QED
    BY <1>1, <2>2, <2>3
<1>3. ASSUME NEW k \in K, NEW m \in K, k <= m
      PROVE  Cardinality(To(k)) <= Cardinality(To(m))
  <2>1. To(k) \in SUBSET To(m)
    <3>1. k \in Nat /\ m \in Nat /\ \A j \in K : j \in Nat
      OBVIOUS
    <3>2. \A j \in K : j <= k => j <= m
      BY <1>3, <3>1
    <3> QED
      BY <3>2
  <2> HIDE DEF To
  <2> QED
    BY <1>2, <2>1, FS_Subset
<1>4. ASSUME NEW k \in K, NEW m \in K, k < m
      PROVE  Cardinality(To(k)) # Cardinality(To(m))
  <2>1. To(k) \in SUBSET To(m) /\ m \in To(m) /\ m \notin To(k)
    <3>1. k \in Nat /\ m \in Nat /\ \A j \in K : j \in Nat
      OBVIOUS
    <3>2. \A j \in K : j <= k => j <= m
      BY <1>4, <3>1
    <3>3. m <= m /\ ~(m <= k)
      BY <1>4, <3>1
    <3> QED
      BY <3>2, <3>3
  <2>2. To(k) # To(m)
    BY <2>1
  <2> HIDE DEF To
  <2> QED
    BY <1>2, <2>1, <2>2, FS_Subset
<1>5. \A k \in 1..n : \E i \in K : Cardinality(To(i)) = k
  <2> DEFINE T == 1..n
             f == [i \in K |-> Cardinality(To(i))]
  <2>1. f \in [K -> T]
    BY <1>2
  <2>2. \A i, j \in K : f[i] = f[j] => i = j
    <3> SUFFICES ASSUME NEW i \in K, NEW j \in K, f[i] = f[j], i # j PROVE FALSE
      OBVIOUS
    <3>1. i < j \/ j < i
      <4>1. i \in Nat /\ j \in Nat
        OBVIOUS
      <4> QED
        BY <4>1
    <3>2. f[i] = Cardinality(To(i)) /\ f[j] = Cardinality(To(j))
      OBVIOUS
    <3> HIDE DEF f, To
    <3> QED
      BY <1>4, <3>1, <3>2
  <2>3. f[1] = f[1] /\ \A i \in K : f[i] = Cardinality(To(i))
    OBVIOUS
  <2> HIDE DEF f, To
  <2>4. f \in Injection(K, T)
    BY <2>1, <2>2 DEF Injection, IsInjective
  <2>5. IsFiniteSet(T) /\ Cardinality(T) = n
    BY <1>1, FS_Interval
  <2> HIDE DEF T
  <2>6. f \in Surjection(K, T)
    BY <2>4, <2>5, FS_Injection
  <2>7. \A k \in T : \E i \in K : f[i] = k
    BY <2>6 DEF Surjection
  <2> QED
    BY <2>3, <2>7 DEF T
<1>6. \A k \in 1..n : Place(K, k) \in K /\ Cardinality(To(Place(K, k))) = k
  BY <1>5 DEF Place
<1>7. ASSUME NEW k \in 1..n, NEW m \in 1..n, k < m PROVE Place(K, k) < Place(K, m)
  <2>1. /\ Place(K, k) \in K /\ Cardinality(To(Place(K, k))) = k
        /\ Place(K, m) \in K /\ Cardinality(To(Place(K, m))) = m
    BY <1>6
  <2> HIDE DEF To
  <2>2. ~(Place(K, m) <= Place(K, k))
    <3>1. ~(m <= k)
      BY <1>7
    <3> QED
      BY <1>3, <2>1, <3>1
  <2>3. Place(K, m) \in Nat /\ Place(K, k) \in Nat
    BY <2>1
  <2> HIDE DEF n
  <2> QED
    BY <2>2, <2>3
<1> QED
  BY <1>1, <1>6, <1>7

\* t is some of the elements of s, in the order they have there.
Selects(t, s) ==
    \E n \in Nat : \E f :
        /\ \A k \in 1..n : f[k] \in 1..Len(s)
        /\ \A k, m \in 1..n : k < m => f[k] < f[m]
        /\ t = [k \in 1..n |-> s[f[k]]]

LEMMA PickedSelects ==
    ASSUME NEW S, NEW s \in Seq(S), NEW is \in SUBSET (1..Len(s))
    PROVE  Selects(Picked(s, is), s)
<1> DEFINE n == Cardinality(is)
           f == [k \in 1..n |-> Place(is, k)]
<1>1. is \in SUBSET Nat /\ IsFiniteSet(is)
  <2>1. Len(s) \in Nat
    BY LenProperties
  <2>2. IsFiniteSet(1..Len(s))
    BY <2>1, FS_Interval
  <2>3. IsFiniteSet(is)
    BY <2>2, FS_Subset
  <2> QED
    BY <2>1, <2>3
<1>2. /\ n \in Nat
      /\ \A k \in 1..n : Place(is, k) \in is
      /\ \A k, m \in 1..n : k < m => Place(is, k) < Place(is, m)
  BY <1>1, Places
<1>3. \A k \in 1..n : f[k] = Place(is, k)
  OBVIOUS
<1>4. Picked(s, is) = [k \in 1..n |-> s[f[k]]]
  BY DEF Picked
<1> HIDE DEF f, n
<1>5. /\ \A k \in 1..n : f[k] \in 1..Len(s)
      /\ \A k, m \in 1..n : k < m => f[k] < f[m]
  BY <1>2, <1>3
<1> QED
  BY <1>2, <1>4, <1>5 DEF Selects

LEMMA SubSeqSelects ==
    ASSUME NEW S, NEW s \in Seq(S), NEW z \in 0..Len(s)
    PROVE  Selects(SubSeq(s, 1, z), s)
<1> DEFINE f == [k \in 1..z |-> k]
<1>1. Len(s) \in Nat /\ z \in Nat /\ z <= Len(s)
  BY LenProperties
<1>2. SubSeq(s, 1, z) = [k \in 1..z |-> s[f[k]]]
  <2>1. SubSeq(s, 1, z) = [k \in 1..z |-> s[k]]
    BY <1>1
  <2>2. \A k \in 1..z : f[k] = k
    OBVIOUS
  <2> HIDE DEF f
  <2> QED
    BY <2>1, <2>2
<1>3. \A k \in 1..z : f[k] \in 1..Len(s)
  BY <1>1
<1>4. \A k, m \in 1..z : k < m => f[k] < f[m]
  OBVIOUS
<1> HIDE DEF f
<1> QED
  BY <1>1, <1>2, <1>3, <1>4 DEF Selects

LEMMA EmptySelects == ASSUME NEW S, NEW s \in Seq(S) PROVE Selects(<< >>, s)
<1>1. SubSeq(s, 1, 0) = << >> /\ 0 \in 0..Len(s)
  BY LenProperties, SubSeqEmpty
<1> QED
  BY <1>1, SubSeqSelects

LEMMA AllSelects == ASSUME NEW S, NEW s \in Seq(S) PROVE Selects(s, s)
<1>1. SubSeq(s, 1, Len(s)) = s /\ Len(s) \in 0..Len(s)
  BY LenProperties, SubSeqFull
<1> QED
  BY <1>1, SubSeqSelects

\* What is selected are elements.
SelectedBy(t, s, f) ==
    /\ \A k \in 1..Len(t) : f[k] \in 1..Len(s) /\ t[k] = s[f[k]]
    /\ \A k, m \in 1..Len(t) : k < m => f[k] < f[m]

LEMMA SelectedIs ==
    ASSUME NEW S, NEW s \in Seq(S), NEW t, Selects(t, s)
    PROVE  t \in Seq(S) /\ \E f : SelectedBy(t, s, f)
<1>0. PICK n \in Nat : \E f :
        /\ \A k \in 1..n : f[k] \in 1..Len(s)
        /\ \A k, m \in 1..n : k < m => f[k] < f[m]
        /\ t = [k \in 1..n |-> s[f[k]]]
  BY DEF Selects
<1>1. PICK f :
        /\ \A k \in 1..n : f[k] \in 1..Len(s)
        /\ \A k, m \in 1..n : k < m => f[k] < f[m]
        /\ t = [k \in 1..n |-> s[f[k]]]
  BY <1>0
<1>2. \A k \in 1..n : t[k] = s[f[k]] /\ t[k] \in S
  BY <1>1, ElementOfSeq
<1>3. t \in [1..n -> S]
  BY <1>1, <1>2
<1>4. t \in Seq(S) /\ Len(t) = n
  BY <1>3
<1> QED
  BY <1>1, <1>2, <1>4 DEF SelectedBy

-----------------------------------------------------------------------------
(* What happens to the open scopes and the stack *)

\* Fewer scopes may be open, and fewer entries on the stack.
LEMMA Narrowed ==
    ASSUME NEW a, ActiveOK(a), NEW b, DOMAIN b = Fields, b.scopes = a.scopes,
           Selects(b.chain, a.chain), Selects(b.istack, a.istack)
    PROVE  ActiveOK(b) /\ (NoAnchors(a) => NoAnchors(b))
<1>1. /\ a.scopes \in Seq(Scope) /\ a.chain \in Seq(Nat) /\ a.istack \in Seq(Entry)
      /\ \A i \in 1..Len(a.chain) : a.chain[i] \in 1..Len(a.scopes)
      /\ \A i, j \in 1..Len(a.chain) : i < j => a.chain[i] < a.chain[j]
      /\ \A i, j \in 1..Len(a.istack) :
            TagOf[a.istack[i].class] = TagOf[a.istack[j].class] => i = j
  BY DEF ActiveOK
<1>2. b.chain \in Seq(Nat) /\ b.istack \in Seq(Entry)
  BY <1>1, SelectedIs
<1>3. PICK f : SelectedBy(b.chain, a.chain, f)
  <2>1. a.chain \in Seq(Nat) /\ Selects(b.chain, a.chain)
    BY <1>1
  <2> QED
    BY ONLY <2>1, SelectedIs
<1>4. PICK g : SelectedBy(b.istack, a.istack, g)
  <2>1. a.istack \in Seq(Entry) /\ Selects(b.istack, a.istack)
    BY <1>1
  <2> QED
    BY ONLY <2>1, SelectedIs
<1>5. \A k \in 1..Len(b.chain) : b.chain[k] \in 1..Len(b.scopes)
  BY <1>1, <1>3 DEF SelectedBy
<1>6. \A k, m \in 1..Len(b.chain) : k < m => b.chain[k] < b.chain[m]
  BY <1>1, <1>3 DEF SelectedBy
<1>7. ASSUME NEW k \in 1..Len(b.istack), NEW m \in 1..Len(b.istack),
             TagOf[b.istack[k].class] = TagOf[b.istack[m].class]
      PROVE  k = m
  <2>1. g[k] = g[m] /\ g[k] \in Nat
    <3>1. /\ g[k] \in 1..Len(a.istack) /\ b.istack[k] = a.istack[g[k]]
          /\ g[m] \in 1..Len(a.istack) /\ b.istack[m] = a.istack[g[m]]
      BY <1>4 DEF SelectedBy
    <3>2. TagOf[a.istack[g[k]].class] = TagOf[a.istack[g[m]].class]
      BY <1>7, <3>1
    <3>3. \A i, j \in 1..Len(a.istack) :
             TagOf[a.istack[i].class] = TagOf[a.istack[j].class] => i = j
      BY <1>1
    <3>4. g[k] = g[m]
      BY ONLY <3>1, <3>2, <3>3
    <3> QED
      BY <3>1, <3>4
  <2>2. ~(g[k] < g[m]) /\ ~(g[m] < g[k])
    BY <2>1
  <2>3. ~(k < m) /\ ~(m < k)
    BY <1>4, <2>2 DEF SelectedBy
  <2> QED
    BY <2>3
<1>8. NoAnchors(a) => NoAnchors(b)
  BY <1>4 DEF NoAnchors, SelectedBy
<1> QED
  BY <1>1, <1>2, <1>5, <1>6, <1>7, <1>8 DEF ActiveOK

\* Nothing that matters here is in opened and watches.
LEMMA Likewise ==
    ASSUME NEW a, ActiveOK(a), NEW b, DOMAIN b = Fields, b.scopes = a.scopes,
           b.chain = a.chain, b.istack = a.istack
    PROVE  /\ ActiveOK(b) /\ (NoAnchors(a) => NoAnchors(b))
           /\ TagsOf(b) = TagsOf(a) /\ StackTags(b) = StackTags(a)
  BY DEF ActiveOK, NoAnchors, TagsOf, StackTags, Tag

\* Chain and stack as sequences of tags.
LEMMA TagsAre ==
    ASSUME NEW a, ActiveOK(a)
    PROVE  /\ Len(a.chain) \in Nat /\ Len(a.istack) \in Nat /\ Len(a.scopes) \in Nat
           /\ DOMAIN a.chain = 1..Len(a.chain) /\ DOMAIN a.istack = 1..Len(a.istack)
           /\ DOMAIN a.scopes = 1..Len(a.scopes)
           /\ TagsOf(a) = [i \in 1..Len(a.chain) |-> TagOf[a.scopes[a.chain[i]].class]]
           /\ TagsOf(a) \in Seq(Tags) /\ Len(TagsOf(a)) = Len(a.chain)
           /\ StackTags(a) = [i \in 1..Len(a.istack) |-> TagOf[a.istack[i].class]]
           /\ StackTags(a) \in Seq(Tags) /\ Len(StackTags(a)) = Len(a.istack)
<1>1. /\ Len(a.chain) \in Nat /\ Len(a.istack) \in Nat /\ Len(a.scopes) \in Nat
      /\ DOMAIN a.chain = 1..Len(a.chain) /\ DOMAIN a.istack = 1..Len(a.istack)
      /\ DOMAIN a.scopes = 1..Len(a.scopes)
  BY LenProperties DEF ActiveOK
<1>2. \A i \in 1..Len(a.chain) : TagOf[a.scopes[a.chain[i]].class] \in Tags
  <2> SUFFICES ASSUME NEW i \in 1..Len(a.chain)
               PROVE  TagOf[a.scopes[a.chain[i]].class] \in Tags
    OBVIOUS
  <2>1. a.scopes[a.chain[i]] \in Scope
    BY ElementOfSeq DEF ActiveOK
  <2> QED
    BY <2>1 DEF Scope, Tags
<1>3. \A i \in 1..Len(a.istack) : TagOf[a.istack[i].class] \in Tags
  <2> SUFFICES ASSUME NEW i \in 1..Len(a.istack) PROVE TagOf[a.istack[i].class] \in Tags
    OBVIOUS
  <2>1. a.istack[i] \in Entry
    BY ElementOfSeq DEF ActiveOK
  <2> QED
    BY <2>1 DEF Entry, Tags
<1>4. /\ TagsOf(a) = [i \in 1..Len(a.chain) |-> TagOf[a.scopes[a.chain[i]].class]]
      /\ StackTags(a) = [i \in 1..Len(a.istack) |-> TagOf[a.istack[i].class]]
  BY <1>1 DEF TagsOf, StackTags, Tag
<1>5. /\ TagsOf(a) \in [1..Len(a.chain) -> Tags]
      /\ StackTags(a) \in [1..Len(a.istack) -> Tags]
  BY <1>2, <1>3, <1>4
<1> QED
  BY <1>1, <1>4, <1>5

LEMMA Stacked ==
    ASSUME NEW a, ActiveOK(a), NEW t
    PROVE  IsStacked(a, t) <=> Contains(StackTags(a), t)
  BY TagsAre DEF IsStacked, Contains

\* A scope that opens is the innermost one; its tag is pushed unless it is there.
LEMMA PushFromIs ==
    ASSUME NEW a, ActiveOK(a), NEW c \in Classes, NEW origin \in Nat
    PROVE  LET b == PushFrom(a, c, origin)
           IN  /\ ActiveOK(b)
               /\ TagsOf(b) = Append(TagsOf(a), TagOf[c])
               /\ StackTags(b) = IF IsStacked(a, TagOf[c]) THEN StackTags(a)
                                 ELSE Append(StackTags(a), TagOf[c])
               /\ NoAnchors(a) /\ c # "anchor" => NoAnchors(b)
<1> DEFINE p == Len(a.scopes) + 1
           scope == [class |-> c, origin |-> origin]
           entry == [class |-> c, position |-> p, origin |-> origin]
           st == IsStacked(a, TagOf[c])
           b == PushFrom(a, c, origin)
<1>1. /\ a.scopes \in Seq(Scope) /\ a.chain \in Seq(Nat) /\ a.istack \in Seq(Entry)
      /\ \A i \in 1..Len(a.chain) : a.chain[i] \in 1..Len(a.scopes)
      /\ \A i, j \in 1..Len(a.chain) : i < j => a.chain[i] < a.chain[j]
      /\ \A i, j \in 1..Len(a.istack) :
            TagOf[a.istack[i].class] = TagOf[a.istack[j].class] => i = j
      /\ DOMAIN a = Fields
  BY DEF ActiveOK
<1>2. /\ Len(a.chain) \in Nat /\ Len(a.istack) \in Nat /\ Len(a.scopes) \in Nat
      /\ DOMAIN a.istack = 1..Len(a.istack) /\ p \in Nat
  BY <1>1, LenProperties
<1>3. /\ DOMAIN b = Fields /\ b.scopes = Append(a.scopes, scope)
      /\ b.chain = Append(a.chain, p)
      /\ b.istack = IF st THEN a.istack ELSE Append(a.istack, entry)
  BY <1>1 DEF PushFrom, Fields
<1>4. scope \in Scope /\ entry \in Entry /\ scope.class = c /\ entry.class = c
  BY <1>2 DEF Scope, Entry
<1>5. st <=> \E i \in 1..Len(a.istack) : TagOf[a.istack[i].class] = TagOf[c]
  BY <1>2 DEF IsStacked
<1> HIDE DEF b, p, scope, entry, st
<1>6. /\ b.scopes \in Seq(Scope) /\ Len(b.scopes) = Len(a.scopes) + 1
      /\ b.scopes[Len(a.scopes) + 1] = scope
      /\ \A i \in 1..Len(a.scopes) : b.scopes[i] = a.scopes[i]
  BY <1>1, <1>3, <1>4, AppendProperties
<1>7. /\ b.chain \in Seq(Nat) /\ Len(b.chain) = Len(a.chain) + 1
      /\ b.chain[Len(a.chain) + 1] = p
      /\ \A i \in 1..Len(a.chain) : b.chain[i] = a.chain[i]
  BY <1>1, <1>2, <1>3, AppendProperties
<1>8. /\ \A i \in 1..Len(b.chain) : b.chain[i] \in 1..Len(b.scopes)
      /\ \A i, j \in 1..Len(b.chain) : i < j => b.chain[i] < b.chain[j]
  <2>1. p = Len(a.scopes) + 1
    BY DEF p
  <2>2. \A i \in 1..Len(b.chain) : i \in 1..Len(a.chain) \/ i = Len(a.chain) + 1
    BY <1>2, <1>7
  <2>3. \A i \in 1..Len(a.chain) : b.chain[i] \in 1..Len(a.scopes)
    BY <1>1, <1>7
  <2>4. \A i, j \in 1..Len(b.chain) : i < j => i \in 1..Len(a.chain)
    BY <1>2, <1>7
  <2>5. \A x \in 1..Len(a.scopes) : x < p /\ x \in 1..Len(b.scopes)
    BY <1>2, <1>6, <2>1
  <2>6. p \in 1..Len(b.scopes)
    BY <1>2, <1>6, <2>1
  <2>7. \A i \in 1..Len(b.chain) : b.chain[i] \in 1..Len(b.scopes)
    BY <1>7, <2>2, <2>3, <2>5, <2>6
  <2>8. ASSUME NEW i \in 1..Len(b.chain), NEW j \in 1..Len(b.chain), i < j
        PROVE  b.chain[i] < b.chain[j]
    <3>1. i \in 1..Len(a.chain)
      BY <2>4, <2>8
    <3>2. CASE j \in 1..Len(a.chain)
      BY <1>1, <1>7, <2>8, <3>1, <3>2
    <3>3. CASE j = Len(a.chain) + 1
      BY <1>7, <2>3, <2>5, <3>1, <3>3
    <3> QED
      BY <2>2, <3>2, <3>3
  <2> QED
    BY <2>7, <2>8
<1>9. /\ b.istack \in Seq(Entry)
      /\ \A i, j \in 1..Len(b.istack) :
            TagOf[b.istack[i].class] = TagOf[b.istack[j].class] => i = j
      /\ st => b.istack = a.istack
      /\ ~st => /\ Len(b.istack) = Len(a.istack) + 1
                /\ b.istack[Len(a.istack) + 1] = entry
                /\ \A i \in 1..Len(a.istack) : b.istack[i] = a.istack[i]
  <2>1. CASE st
    BY <1>1, <1>3, <2>1
  <2>2. CASE ~st
    <3>1. b.istack = Append(a.istack, entry)
      BY <1>3, <2>2
    <3>2. /\ b.istack \in Seq(Entry) /\ Len(b.istack) = Len(a.istack) + 1
          /\ b.istack[Len(a.istack) + 1] = entry
          /\ \A i \in 1..Len(a.istack) : b.istack[i] = a.istack[i]
      BY <1>1, <1>4, <3>1, AppendProperties
    <3>3. \A i \in 1..Len(b.istack) : i \in 1..Len(a.istack) \/ i = Len(a.istack) + 1
      BY <1>2, <3>2
    <3>4. \A i \in 1..Len(a.istack) : TagOf[b.istack[i].class] # TagOf[c]
      BY <1>5, <2>2, <3>2
    <3>5. TagOf[b.istack[Len(a.istack) + 1].class] = TagOf[c]
      BY <1>4, <3>2
    <3>6. \A i, j \in 1..Len(a.istack) :
            TagOf[b.istack[i].class] = TagOf[b.istack[j].class] => i = j
      BY <1>1, <3>2
    <3>7. \A i, j \in 1..Len(b.istack) :
            TagOf[b.istack[i].class] = TagOf[b.istack[j].class] => i = j
      BY <3>3, <3>4, <3>5, <3>6
    <3> QED
      BY <2>2, <3>2, <3>7
  <2> QED
    BY <2>1, <2>2
<1>10. ActiveOK(b)
  BY <1>3, <1>6, <1>7, <1>8, <1>9 DEF ActiveOK
<1>11. TagsOf(b) = Append(TagsOf(a), TagOf[c])
  <2> DEFINE s == Append(TagsOf(a), TagOf[c])
             z == Len(a.chain)
  <2>1. /\ TagsOf(b) \in Seq(Tags) /\ Len(TagsOf(b)) = Len(b.chain)
        /\ \A i \in 1..Len(b.chain) : TagsOf(b)[i] = TagOf[b.scopes[b.chain[i]].class]
    BY <1>10, TagsAre
  <2>2. /\ TagsOf(a) \in Seq(Tags) /\ Len(TagsOf(a)) = z
        /\ \A i \in 1..z : TagsOf(a)[i] = TagOf[a.scopes[a.chain[i]].class]
    BY TagsAre
  <2>3. TagOf[c] \in Tags
    BY DEF Tags
  <2>4. /\ s \in Seq(Tags) /\ Len(s) = z + 1 /\ s[z + 1] = TagOf[c]
        /\ \A i \in 1..z : s[i] = TagsOf(a)[i]
    BY <2>2, <2>3, AppendProperties
  <2> HIDE DEF s
  <2>5. ASSUME NEW i \in 1..(z + 1) PROVE TagsOf(b)[i] = s[i]
    <3>0. i \in 1..z \/ i = z + 1
      BY <1>2
    <3>1. CASE i \in 1..z
      <4>1. i \in 1..Len(b.chain) /\ b.chain[i] = a.chain[i]
        BY <1>2, <1>7, <3>1
      <4>2. b.scopes[a.chain[i]] = a.scopes[a.chain[i]]
        BY <1>1, <1>6, <3>1
      <4>3. TagsOf(b)[i] = TagOf[a.scopes[a.chain[i]].class]
        BY <2>1, <4>1, <4>2
      <4>4. TagsOf(a)[i] = TagOf[a.scopes[a.chain[i]].class] /\ s[i] = TagsOf(a)[i]
        BY <2>2, <2>4, <3>1
      <4> QED
        BY <4>3, <4>4
    <3>2. CASE i = z + 1
      <4>1. i \in 1..Len(b.chain) /\ b.chain[i] = p
        BY <1>2, <1>7, <3>2
      <4>2. b.scopes[p] = scope
        BY <1>6 DEF p
      <4> QED
        BY <1>4, <2>1, <2>4, <3>2, <4>1, <4>2
    <3> QED
      BY <3>0, <3>1, <3>2
  <2>6. TagsOf(b) = s
    <3>1. Len(TagsOf(b)) = z + 1 /\ Len(s) = z + 1
      BY <1>7, <2>1, <2>4
    <3> HIDE DEF z
    <3> QED
      BY <2>1, <2>4, <2>5, <3>1, SeqEqual
  <2> QED
    BY <2>6 DEF s
<1>12. StackTags(b) = IF st THEN StackTags(a) ELSE Append(StackTags(a), TagOf[c])
  <2>1. CASE st
    BY <1>9, <2>1 DEF StackTags
  <2>2. CASE ~st
    <3> DEFINE s == Append(StackTags(a), TagOf[c])
               z == Len(a.istack)
    <3>1. /\ StackTags(b) \in Seq(Tags) /\ Len(StackTags(b)) = Len(b.istack)
          /\ \A i \in 1..Len(b.istack) : StackTags(b)[i] = TagOf[b.istack[i].class]
      BY <1>10, TagsAre
    <3>2. /\ StackTags(a) \in Seq(Tags) /\ Len(StackTags(a)) = z
          /\ \A i \in 1..z : StackTags(a)[i] = TagOf[a.istack[i].class]
      BY TagsAre
    <3>3. TagOf[c] \in Tags
      BY DEF Tags
    <3>4. /\ s \in Seq(Tags) /\ Len(s) = z + 1 /\ s[z + 1] = TagOf[c]
          /\ \A i \in 1..z : s[i] = StackTags(a)[i]
      BY <3>2, <3>3, AppendProperties
    <3> HIDE DEF s
    <3>5. Len(b.istack) = z + 1 /\ b.istack[z + 1].class = c
      BY <1>4, <1>9, <2>2
    <3>6. ASSUME NEW i \in 1..(z + 1) PROVE StackTags(b)[i] = s[i]
      <4>0. i \in 1..z \/ i = z + 1
        BY <1>2
      <4>1. CASE i \in 1..z
        <5>1. b.istack[i] = a.istack[i]
          BY <1>9, <2>2, <4>1
        <5>2. StackTags(b)[i] = TagOf[a.istack[i].class]
          BY <3>1, <3>5, <5>1
        <5>3. s[i] = TagOf[a.istack[i].class]
          BY <3>2, <3>4, <4>1
        <5> QED
          BY <5>2, <5>3
      <4>2. CASE i = z + 1
        BY <3>1, <3>4, <3>5, <4>2
      <4> QED
        BY <4>0, <4>1, <4>2
    <3> HIDE DEF z
    <3>7. StackTags(b) = s
      BY <3>1, <3>4, <3>5, <3>6, SeqEqual
    <3> QED
      BY <2>2, <3>7 DEF s
  <2> QED
    BY <2>1, <2>2
<1>13. NoAnchors(a) /\ c # "anchor" => NoAnchors(b)
  <2> SUFFICES ASSUME NoAnchors(a), c # "anchor" PROVE NoAnchors(b)
    OBVIOUS
  <2>1. \A i \in 1..Len(b.scopes) : i \in 1..Len(a.scopes) \/ i = Len(a.scopes) + 1
    BY <1>2, <1>6
  <2>2. \A i \in 1..Len(b.scopes) : b.scopes[i].class # "anchor"
    BY <1>4, <1>6, <2>1 DEF NoAnchors
  <2>3. \A i \in 1..Len(b.istack) : b.istack[i].class # "anchor"
    <3>1. CASE st
      BY <1>9, <3>1 DEF NoAnchors
    <3>2. CASE ~st
      <4>1. \A i \in 1..Len(b.istack) : i \in 1..Len(a.istack) \/ i = Len(a.istack) + 1
        BY <1>2, <1>9, <3>2
      <4> QED
        BY <1>4, <1>9, <3>2, <4>1 DEF NoAnchors
    <3> QED
      BY <3>1, <3>2
  <2> QED
    BY <2>2, <2>3 DEF NoAnchors
<1> QED
  BY <1>10, <1>11, <1>12, <1>13 DEF b, st

Kept(a, b) == ActiveOK(b) /\ (NoAnchors(a) => NoAnchors(b))

\* Places in a sequence that there are have a last one.
LEMMA LastPlace ==
    ASSUME NEW n \in Nat, NEW K \in SUBSET (1..n), K # {}
    PROVE  LET i == CHOOSE j \in K : \A k \in K : k <= j
           IN  i \in K /\ \A k \in K : k <= i
<1> DEFINE S == {m \in Nat : \E k \in K : m = n - k}
<1>1. \A k \in K : k \in Nat /\ n - k \in Nat /\ n - k \in S
  OBVIOUS
<1>2. S \in SUBSET Nat /\ S # {}
  BY <1>1
<1> HIDE DEF S
<1>3. PICK x \in S : \A y \in S : ~ (<<y, x>> \in OpToRel(<, Nat))
  BY <1>2, WFMin, NatLessThanWellFounded
<1>4. ASSUME NEW y \in S PROVE x <= y
  <2>1. <<y, x>> \in Nat \X Nat /\ ~ (<<y, x>> \in OpToRel(<, Nat)) /\ x \in Nat /\ y \in Nat
    BY <1>2, <1>3
  <2>2. ~ (y < x)
    BY <2>1 DEF OpToRel
  <2>3. x \in Nat /\ y \in Nat
    BY <2>1
  <2> QED
    BY ONLY <2>2, <2>3
<1>5. PICK i \in K : x = n - i
  BY <1>3 DEF S
<1>6. ASSUME NEW k \in K PROVE k <= i
  <2>1. x <= n - k
    BY <1>1, <1>4
  <2> QED
    BY <1>1, <1>5, <2>1
<1> QED
  BY <1>5, <1>6

LEMMA InnermostIs ==
    ASSUME NEW a, ActiveOK(a)
    PROVE  /\ \A t : PeekClose(a, t) # 0 =>
                \E i \in 1..Len(a.chain) : a.chain[i] = PeekClose(a, t)
           /\ AnchorPosition(a) # 0 =>
                \E i \in 1..Len(a.chain) : a.chain[i] = AnchorPosition(a)
<1>1. Len(a.chain) \in Nat /\ DOMAIN a.chain = 1..Len(a.chain)
  BY TagsAre
<1>2. ASSUME NEW K \in SUBSET (1..Len(a.chain)), K # {}
      PROVE  (CHOOSE j \in K : \A k \in K : k <= j) \in 1..Len(a.chain)
  <2>1. (CHOOSE j \in K : \A k \in K : k <= j) \in K
    BY <1>1, <1>2, LastPlace
  <2> QED
    BY <2>1
<1>3. ASSUME NEW t, PeekClose(a, t) # 0
      PROVE  \E i \in 1..Len(a.chain) : a.chain[i] = PeekClose(a, t)
  <2> DEFINE K == {i \in 1..Len(a.chain) : Tag(a, a.chain[i]) = t}
             i == CHOOSE j \in K : \A k \in K : k <= j
  <2>1. PeekClose(a, t) = IF K = {} THEN 0 ELSE a.chain[i]
    BY <1>1 DEF PeekClose, Innermost
  <2>2. K # {} => i \in 1..Len(a.chain)
    <3>1. K \in SUBSET (1..Len(a.chain))
      OBVIOUS
    <3> HIDE DEF K
    <3> QED
      BY <1>2, <3>1
  <2> HIDE DEF i, K
  <2> QED
    BY <1>3, <2>1, <2>2
<1>4. ASSUME AnchorPosition(a) # 0
      PROVE  \E i \in 1..Len(a.chain) : a.chain[i] = AnchorPosition(a)
  <2> DEFINE K == {i \in 1..Len(a.chain) : IsAnchor(a, a.chain[i])}
             i == CHOOSE j \in K : \A k \in K : k <= j
  <2>1. AnchorPosition(a) = IF K = {} THEN 0 ELSE a.chain[i]
    BY <1>1 DEF AnchorPosition, Innermost
  <2>2. K # {} => i \in 1..Len(a.chain)
    <3>1. K \in SUBSET (1..Len(a.chain))
      OBVIOUS
    <3> HIDE DEF K
    <3> QED
      BY <1>2, <3>1
  <2> HIDE DEF i, K
  <2> QED
    BY <1>4, <2>1, <2>2
<1> QED
  BY <1>3, <1>4

LEMMA ResolvedIs ==
    ASSUME NEW a, ActiveOK(a), NEW number, NEW t, ResolveClose(a, number, t) # 0
    PROVE  a.chain # << >>
<1>1. PeekClose(a, t) # 0 => \E i \in 1..Len(a.chain) : a.chain[i] = PeekClose(a, t)
  BY InnermostIs
<1>2. a.chain = << >> => 1..Len(a.chain) = {}
  OBVIOUS
<1> QED
  BY <1>1, <1>2 DEF ResolveClose

LEMMA NotedIs ==
    ASSUME NEW a, ActiveOK(a), NEW ps
    PROVE  LET b == NotedClose(a, ps)
           IN  /\ Kept(a, b) /\ b.scopes = a.scopes /\ b.chain = a.chain /\ b.istack = a.istack
               /\ DOMAIN b = Fields
               /\ TagsOf(b) = TagsOf(a) /\ StackTags(b) = StackTags(a)
<1> DEFINE b == NotedClose(a, ps)
<1>1. DOMAIN b = Fields /\ b.scopes = a.scopes /\ b.chain = a.chain /\ b.istack = a.istack
  BY DEF NotedClose, ActiveOK, Fields
<1> HIDE DEF b
<1>2. Kept(a, b) /\ TagsOf(b) = TagsOf(a) /\ StackTags(b) = StackTags(a)
  BY <1>1, Likewise DEF Kept
<1> QED
  BY <1>1, <1>2 DEF b

LEMMA PopThroughAnchorKeeps ==
    ASSUME NEW a, ActiveOK(a)
    PROVE  Kept(a, PopThroughAnchor(a))
<1> DEFINE b == PopThroughAnchor(a)
           K == {i \in DOMAIN a.istack : a.istack[i].class = "anchor"}
           i == CHOOSE m \in K : \A k \in K : k <= m
<1>1. /\ DOMAIN a = Fields /\ a.chain \in Seq(Nat) /\ a.istack \in Seq(Entry)
      /\ Len(a.istack) \in Nat /\ DOMAIN a.istack = 1..Len(a.istack)
  BY TagsAre DEF ActiveOK
<1>2. /\ DOMAIN b = Fields /\ b.scopes = a.scopes /\ b.chain = a.chain
      /\ b.istack = IF K = {} THEN << >> ELSE SubSeq(a.istack, 1, i - 1)
  BY <1>1 DEF PopThroughAnchor, Fields
<1>3. K # {} => i - 1 \in 0..Len(a.istack)
  <2>1. K \in SUBSET (1..Len(a.istack))
    BY <1>1
  <2> HIDE DEF K
  <2> SUFFICES ASSUME K # {} PROVE i - 1 \in 0..Len(a.istack)
    OBVIOUS
  <2>2. i \in K
    BY <1>1, <2>1, LastPlace
  <2> HIDE DEF i
  <2>3. i \in 1..Len(a.istack)
    BY <2>1, <2>2
  <2> QED
    BY <1>1, <2>3
<1> HIDE DEF b, i, K
<1>4. Selects(b.istack, a.istack)
  BY <1>1, <1>2, <1>3, SubSeqSelects, EmptySelects
<1>5. Selects(b.chain, a.chain)
  BY <1>1, <1>2, AllSelects
<1> QED
  BY <1>2, <1>4, <1>5, Narrowed DEF b, Kept

\* A scope of the chain has one place there, where it closes with what is inside.
LEMMA PlaceInChain ==
    ASSUME NEW a, ActiveOK(a), NEW p, \E i \in 1..Len(a.chain) : a.chain[i] = p
    PROVE  LET i == CHOOSE j \in DOMAIN a.chain : a.chain[j] = p
           IN  i \in 1..Len(a.chain) /\ i - 1 \in 0..Len(a.chain)
<1> DEFINE i == CHOOSE j \in DOMAIN a.chain : a.chain[j] = p
<1>1. Len(a.chain) \in Nat /\ DOMAIN a.chain = 1..Len(a.chain)
  BY TagsAre
<1>2. i \in 1..Len(a.chain)
  BY <1>1
<1> HIDE DEF i
<1>3. i - 1 \in 0..Len(a.chain)
  BY <1>1, <1>2
<1> QED
  BY <1>2, <1>3 DEF i

LEMMA KillFromKeeps ==
    ASSUME NEW a, ActiveOK(a), NEW p, \E i \in 1..Len(a.chain) : a.chain[i] = p
    PROVE  Kept(a, KillFrom(a, p))
<1> DEFINE i == CHOOSE j \in DOMAIN a.chain : a.chain[j] = p
           killed == {a.chain[j] : j \in i..Len(a.chain)}
           is == {k \in DOMAIN a.istack : a.istack[k].position \notin killed}
           n == NotedClose(a, killed)
           b == KillFrom(a, p)
<1>1. /\ a.chain \in Seq(Nat) /\ a.istack \in Seq(Entry)
      /\ DOMAIN a.istack = 1..Len(a.istack)
  BY TagsAre DEF ActiveOK
<1>2. i - 1 \in 0..Len(a.chain)
  BY PlaceInChain
<1>3. DOMAIN n = Fields /\ n.scopes = a.scopes /\ n.chain = a.chain /\ n.istack = a.istack
  BY NotedIs
<1>4. b = [n EXCEPT !.chain = SubSeq(n.chain, 1, i - 1),
                    !.istack = Picked(n.istack, {k \in DOMAIN n.istack :
                                                    n.istack[k].position \notin killed})]
  BY DEF KillFrom
<1>5. is \in SUBSET (1..Len(a.istack))
  BY <1>1
<1> HIDE DEF n, b, i
<1>6. /\ DOMAIN b = Fields /\ b.scopes = a.scopes
      /\ b.chain = SubSeq(a.chain, 1, i - 1) /\ b.istack = Picked(a.istack, is)
  BY <1>3, <1>4 DEF Fields
<1> HIDE DEF is, killed
<1>7. Selects(b.chain, a.chain)
  BY <1>1, <1>2, <1>6, SubSeqSelects
<1>8. Selects(b.istack, a.istack)
  BY <1>1, <1>5, <1>6, PickedSelects
<1> QED
  BY <1>6, <1>7, <1>8, Narrowed DEF b, Kept

LEMMA CommitCloseKeeps ==
    ASSUME NEW a, ActiveOK(a), NEW p, \E i \in 1..Len(a.chain) : a.chain[i] = p
    PROVE  Kept(a, CommitClose(a, p))
<1> DEFINE i == CHOOSE j \in DOMAIN a.chain : a.chain[j] = p
           n == NotedClose(a, {p})
           b == CommitClose(a, p)
<1>1. a.chain \in Seq(Nat) /\ a.istack \in Seq(Entry)
  BY DEF ActiveOK
<1>2. i - 1 \in 0..Len(a.chain)
  BY PlaceInChain
<1>3. DOMAIN n = Fields /\ n.scopes = a.scopes /\ n.chain = a.chain /\ n.istack = a.istack
  BY NotedIs
<1>4. b = [n EXCEPT !.chain = SubSeq(n.chain, 1, i - 1)]
  BY DEF CommitClose
<1> HIDE DEF n, b, i
<1>5. /\ DOMAIN b = Fields /\ b.scopes = a.scopes /\ b.istack = a.istack
      /\ b.chain = SubSeq(a.chain, 1, i - 1)
  BY <1>3, <1>4 DEF Fields
<1>6. Selects(b.chain, a.chain) /\ Selects(b.istack, a.istack)
  BY <1>1, <1>2, <1>5, SubSeqSelects, AllSelects
<1> QED
  BY <1>5, <1>6, Narrowed DEF b, Kept

LEMMA KeptByBoth ==
    ASSUME NEW a, NEW b, NEW c, Kept(a, b), Kept(b, c)
    PROVE  Kept(a, c)
  BY DEF Kept

LEMMA KeptItself == ASSUME NEW a, ActiveOK(a) PROVE Kept(a, a)
  BY DEF Kept

LEMMA CloseAnchorKeeps ==
    ASSUME NEW a, ActiveOK(a)
    PROVE  Kept(a, CloseAnchor(a))
<1> DEFINE p == AnchorPosition(a)
           b == KillFrom(a, p)
<1>1. CloseAnchor(a) = IF p = 0 THEN a ELSE PopThroughAnchor(b)
  BY DEF CloseAnchor
<1>2. p # 0 => \E i \in 1..Len(a.chain) : a.chain[i] = p
  BY InnermostIs
<1> HIDE DEF p
<1>3. p # 0 => Kept(a, b)
  BY <1>2, KillFromKeeps
<1> HIDE DEF b
<1>4. p # 0 => Kept(a, PopThroughAnchor(b))
  BY <1>3, PopThroughAnchorKeeps, KeptByBoth DEF Kept
<1> QED
  BY <1>1, <1>4, KeptItself

LEMMA WatchedKeeps ==
    ASSUME NEW a, ActiveOK(a)
    PROVE  Kept(a, Watched(a))
<1> DEFINE b == Watched(a)
<1>1. DOMAIN b = Fields /\ b.scopes = a.scopes /\ b.chain = a.chain /\ b.istack = a.istack
  BY DEF Watched, ActiveOK, Fields
<1> HIDE DEF b
<1>2. Kept(a, b)
  BY <1>1, Likewise DEF Kept
<1> QED
  BY <1>2 DEF b

LEMMA DroppedKeeps ==
    ASSUME NEW a, ActiveOK(a)
    PROVE  Kept(a, Dropped(a))
<1> DEFINE watch == Last(a.watches)
           Outer(p) == a.scopes[p].origin < watch.mark
           drops == {p \in Range(a.chain) :
                       \/ /\ ~Outer(p)
                          /\ \E q \in Range(a.chain) : Outer(q) /\ Tag(a, q) = Tag(a, p)
                       \/ Outer(p) /\ Tag(a, p) \in watch.tags}
           is == {i \in DOMAIN a.chain : a.chain[i] \notin drops}
           js == {i \in DOMAIN a.istack : a.istack[i].position \notin drops}
           b == Dropped(a)
<1>1. /\ DOMAIN a = Fields /\ a.chain \in Seq(Nat) /\ a.istack \in Seq(Entry)
      /\ DOMAIN a.istack = 1..Len(a.istack) /\ DOMAIN a.chain = 1..Len(a.chain)
  BY TagsAre DEF ActiveOK
<1>2. b = [a EXCEPT !.chain = Picked(a.chain, is), !.istack = Picked(a.istack, js),
                    !.watches = Front(a.watches)]
  BY DEF Dropped
<1>3. is \in SUBSET (1..Len(a.chain)) /\ js \in SUBSET (1..Len(a.istack))
  BY <1>1
<1> HIDE DEF is, js, b
<1>4. /\ DOMAIN b = Fields /\ b.scopes = a.scopes
      /\ b.chain = Picked(a.chain, is) /\ b.istack = Picked(a.istack, js)
  BY <1>1, <1>2 DEF Fields
<1>5. Selects(b.chain, a.chain) /\ Selects(b.istack, a.istack)
  BY <1>1, <1>3, <1>4, PickedSelects
<1> QED
  BY <1>4, <1>5, Narrowed DEF b, Kept

\* Picking tags is picking scopes.
LEMMA SyncedIs ==
    ASSUME NEW a, ActiveOK(a)
    PROVE  LET b == Synced(a)
               s == TagsOf(a)
               Stays(i) == /\ Contains(StackTags(a), s[i])
                           /\ \A j \in 1..(i - 1) : s[j] # s[i]
           IN  /\ Kept(a, b)
               /\ StackTags(b) = StackTags(a)
               /\ NoAnchors(a) => TagsOf(b) = Picked(s, {i \in DOMAIN s : Stays(i)})
<1> DEFINE b == Synced(a)
           s == TagsOf(a)
           Stays(i) == /\ Contains(StackTags(a), s[i])
                       /\ \A j \in 1..(i - 1) : s[j] # s[i]
           Keeps(i) == \/ IsAnchor(a, a.chain[i])
                       \/ /\ IsStacked(a, Tag(a, a.chain[i]))
                          /\ \A j \in 1..(i - 1) : Tag(a, a.chain[j]) # Tag(a, a.chain[i])
           is == {i \in DOMAIN a.chain : Keeps(i)}
<1>1. /\ DOMAIN a = Fields /\ a.chain \in Seq(Nat) /\ a.istack \in Seq(Entry)
      /\ DOMAIN a.chain = 1..Len(a.chain) /\ Len(a.chain) \in Nat
  BY TagsAre DEF ActiveOK
<1>2. b = [a EXCEPT !.chain = Picked(a.chain, is)]
  BY DEF Synced
<1>3. is \in SUBSET (1..Len(a.chain))
  BY <1>1
<1>4. NoAnchors(a) => is = {i \in DOMAIN s : Stays(i)}
  <2> SUFFICES ASSUME NoAnchors(a) PROVE is = {i \in DOMAIN s : Stays(i)}
    OBVIOUS
  <2>1. DOMAIN s = 1..Len(a.chain) /\ \A i \in 1..Len(a.chain) : s[i] = Tag(a, a.chain[i])
    BY <1>1 DEF TagsOf
  <2>2. ASSUME NEW i \in 1..Len(a.chain) PROVE Keeps(i) <=> Stays(i)
    <3>1. ~IsAnchor(a, a.chain[i])
      BY DEF IsAnchor, NoAnchors, ActiveOK
    <3>2. s[i] = Tag(a, a.chain[i]) /\ \A j \in 1..(i - 1) : s[j] = Tag(a, a.chain[j])
      BY <1>1, <2>1
    <3>3. IsStacked(a, Tag(a, a.chain[i])) <=> Contains(StackTags(a), s[i])
      BY <3>2, Stacked
    <3> HIDE DEF s
    <3> QED
      BY <3>1, <3>2, <3>3
  <2> HIDE DEF s, Keeps, Stays
  <2> QED
    BY <1>1, <2>1, <2>2
<1> HIDE DEF is, b
<1>5. /\ DOMAIN b = Fields /\ b.scopes = a.scopes /\ b.istack = a.istack
      /\ b.chain = Picked(a.chain, is)
  BY <1>1, <1>2 DEF Fields
<1>6. Selects(b.chain, a.chain) /\ Selects(b.istack, a.istack)
  BY <1>1, <1>3, <1>5, PickedSelects, AllSelects
<1>7. Kept(a, b)
  BY <1>5, <1>6, Narrowed DEF Kept
<1>8. StackTags(b) = StackTags(a)
  BY <1>5 DEF StackTags
<1>9. TagsOf(b) = Picked(s, is)
  <2> DEFINE n == Cardinality(is)
  <2>1. b.chain = [k \in 1..n |-> a.chain[Place(is, k)]]
    BY <1>5 DEF Picked
  <2>2. \A k \in 1..n : Place(is, k) \in 1..Len(a.chain)
    <3>1. is \in SUBSET Nat /\ IsFiniteSet(is)
      <4>1. IsFiniteSet(1..Len(a.chain))
        BY <1>1, FS_Interval
      <4>2. IsFiniteSet(is)
        BY <1>3, <4>1, FS_Subset
      <4> QED
        BY <1>1, <1>3, <4>2
    <3> QED
      BY <1>3, <3>1, Places
  <2>3. \A k \in 1..n : s[Place(is, k)] = TagOf[a.scopes[a.chain[Place(is, k)]].class]
    BY <1>1, <2>2 DEF TagsOf, Tag
  <2>4. TagsOf(b) = [k \in 1..n |-> TagOf[a.scopes[a.chain[Place(is, k)]].class]]
    <3>1. DOMAIN b.chain = 1..n /\ \A k \in 1..n : b.chain[k] = a.chain[Place(is, k)]
      BY <2>1
    <3> QED
      BY <1>5, <3>1 DEF TagsOf, Tag
  <2> HIDE DEF s, n
  <2>5. TagsOf(b) = [k \in 1..n |-> s[Place(is, k)]]
    BY <2>3, <2>4
  <2> QED
    BY <2>5 DEF Picked, n
<1> HIDE DEF s, Stays
<1>10. NoAnchors(a) => TagsOf(b) = Picked(s, {i \in DOMAIN s : Stays(i)})
  BY <1>4, <1>9
<1> QED
  BY <1>7, <1>8, <1>10 DEF b, s, Stays

\* The tags of a chain or a stack cut short.
LEMMA TagsCut ==
    ASSUME NEW a, ActiveOK(a), NEW b, ActiveOK(b), b.scopes = a.scopes,
           a.chain # << >> => b.chain = Front(a.chain)
    PROVE  a.chain # << >> => TagsOf(b) = Front(TagsOf(a))
<1> SUFFICES ASSUME a.chain # << >> PROVE TagsOf(b) = Front(TagsOf(a))
  OBVIOUS
<1> DEFINE z == Len(a.chain)
           s == TagsOf(a)
<1>1. /\ s \in Seq(Tags) /\ Len(s) = z /\ z \in Nat
      /\ \A i \in 1..z : s[i] = TagOf[a.scopes[a.chain[i]].class]
  BY TagsAre
<1>2. /\ TagsOf(b) \in Seq(Tags) /\ Len(TagsOf(b)) = Len(b.chain)
      /\ \A i \in 1..Len(b.chain) : TagsOf(b)[i] = TagOf[b.scopes[b.chain[i]].class]
  BY TagsAre
<1>3. z # 0 /\ z - 1 \in Nat /\ a.chain \in Seq(Nat)
  BY DEF ActiveOK
<1>4. /\ Len(b.chain) = z - 1
      /\ \A i \in 1..(z - 1) : b.chain[i] = a.chain[i]
  BY <1>3, SubSeqProperties DEF Front
<1>5. /\ Front(s) \in Seq(Tags) /\ Len(Front(s)) = z - 1
      /\ \A i \in 1..(z - 1) : Front(s)[i] = s[i]
  BY <1>1, <1>3, SubSeqProperties DEF Front
<1> HIDE DEF s
<1>6. \A i \in 1..(z - 1) : i \in 1..z
  BY <1>1
<1>7. ASSUME NEW i \in 1..(z - 1) PROVE TagsOf(b)[i] = Front(s)[i]
  <2>1. i \in 1..z /\ i \in 1..Len(b.chain) /\ b.chain[i] = a.chain[i]
    BY <1>4, <1>6
  <2>2. Front(s)[i] = TagOf[a.scopes[a.chain[i]].class]
    BY <1>1, <1>5, <2>1
  <2>3. TagsOf(b)[i] = TagOf[a.scopes[a.chain[i]].class]
    BY <1>2, <2>1
  <2> QED
    BY <2>2, <2>3
<1> HIDE DEF z
<1>8. TagsOf(b) = Front(s)
  <2>1. Len(TagsOf(b)) = z - 1 /\ Len(Front(s)) = z - 1
    BY <1>2, <1>4, <1>5
  <2> QED
    BY <1>2, <1>5, <1>7, <2>1, SeqEqual
<1> QED
  BY <1>8 DEF s

LEMMA StackCut ==
    ASSUME NEW a, ActiveOK(a), NEW b, ActiveOK(b), b.istack = PopLast(a.istack)
    PROVE  StackTags(b) = PopLast(StackTags(a))
<1> DEFINE z == Len(a.istack)
           s == StackTags(a)
<1>1. /\ s \in Seq(Tags) /\ Len(s) = z /\ z \in Nat
      /\ \A i \in 1..z : s[i] = TagOf[a.istack[i].class]
      /\ a.istack \in Seq(Entry)
  <2>1. ActiveOK(a) /\ a.istack \in Seq(Entry)
    BY DEF ActiveOK
  <2>2. Len(a.istack) \in Nat
    BY <2>1
  <2> QED
    BY <2>1, <2>2, TagsAre
<1>2. /\ StackTags(b) \in Seq(Tags) /\ Len(StackTags(b)) = Len(b.istack)
      /\ \A i \in 1..Len(b.istack) : StackTags(b)[i] = TagOf[b.istack[i].class]
  BY TagsAre
<1>3. CASE a.istack = << >>
  <2>1. b.istack = a.istack /\ s = << >>
    BY <1>1, <1>3 DEF PopLast
  <2>2. StackTags(b) = s
    BY <2>1 DEF StackTags
  <2> QED
    BY <2>1, <2>2 DEF PopLast
<1>4. CASE a.istack # << >>
  <2>1. z # 0 /\ z - 1 \in Nat /\ s # << >>
    BY <1>1, <1>4
  <2>2. /\ Len(b.istack) = z - 1
        /\ \A i \in 1..(z - 1) : b.istack[i] = a.istack[i]
    BY <1>1, <1>4, <2>1, SubSeqProperties DEF Front, PopLast
  <2>3. /\ Front(s) \in Seq(Tags) /\ Len(Front(s)) = z - 1
        /\ \A i \in 1..(z - 1) : Front(s)[i] = s[i]
    BY <1>1, <2>1, SubSeqProperties DEF Front
  <2>4. PopLast(s) = Front(s)
    BY <2>1 DEF PopLast
  <2> HIDE DEF s
  <2>5. \A i \in 1..(z - 1) : i \in 1..z
    BY <1>1
  <2>6. ASSUME NEW i \in 1..(z - 1) PROVE StackTags(b)[i] = Front(s)[i]
    <3>1. StackTags(b)[i] = TagOf[a.istack[i].class]
      BY <1>2, <2>2
    <3>2. s[i] = TagOf[a.istack[i].class]
      BY <1>1, <2>5
    <3> QED
      BY <2>3, <3>1, <3>2
  <2> HIDE DEF z
  <2>7. Len(StackTags(b)) = z - 1 /\ Len(Front(s)) = z - 1
    BY <1>2, <2>2, <2>3
  <2>8. StackTags(b) = Front(s)
    BY <1>2, <2>3, <2>6, <2>7, SeqEqual
  <2> QED
    BY <2>4, <2>8 DEF s
<1> QED
  BY <1>3, <1>4

LEMMA PoppedSelects == ASSUME NEW S, NEW s \in Seq(S) PROVE Selects(PopLast(s), s)
<1>1. CASE s = << >>
  BY <1>1, AllSelects DEF PopLast
<1>2. CASE s # << >>
  <2>1. Len(s) - 1 \in 0..Len(s)
    BY <1>2, LenProperties, EmptySeq
  <2> QED
    BY <1>2, <2>1, SubSeqSelects DEF PopLast, Front
<1> QED
  BY <1>1, <1>2

LEMMA WholePoppingIs ==
    ASSUME NEW a, ActiveOK(a), NEW t
    PROVE  LET b == WholePopping(a, t)
           IN  /\ Kept(a, b)
               /\ TagsOf(b) = TagsOf(a)
               /\ StackTags(b) = IF IsStacked(a, t) THEN PopLast(StackTags(a)) ELSE StackTags(a)
<1>1. CASE ~IsStacked(a, t)
  BY <1>1, KeptItself DEF WholePopping
<1>2. CASE IsStacked(a, t)
  <2> DEFINE b == WholePopping(a, t)
  <2>1. /\ DOMAIN b = Fields /\ b.scopes = a.scopes /\ b.chain = a.chain
        /\ b.istack = PopLast(a.istack)
    BY <1>2 DEF WholePopping, ActiveOK, Fields
  <2> HIDE DEF b
  <2>2. Selects(b.chain, a.chain) /\ Selects(b.istack, a.istack)
    BY <2>1, PoppedSelects, AllSelects DEF ActiveOK
  <2>3. Kept(a, b)
    BY <2>1, <2>2, Narrowed DEF Kept
  <2>4. StackTags(b) = PopLast(StackTags(a))
    BY <2>1, <2>3, StackCut DEF Kept
  <2>5. TagsOf(b) = TagsOf(a)
    BY <2>1 DEF TagsOf, Tag
  <2> QED
    BY <1>2, <2>3, <2>4, <2>5 DEF b
<1> QED
  BY <1>1, <1>2

LEMMA EndTopIs ==
    ASSUME NEW a, ActiveOK(a), a.chain # << >>
    PROVE  LET b == EndTop(a)
           IN  /\ Kept(a, b)
               /\ TagsOf(b) = Front(TagsOf(a))
               /\ StackTags(b) = PopLast(StackTags(a))
<1> DEFINE b == EndTop(a)
<1>1. /\ DOMAIN b = Fields /\ b.scopes = a.scopes /\ b.chain = Front(a.chain)
      /\ b.istack = PopLast(a.istack)
  BY DEF EndTop, ActiveOK, Fields
<1>2. PopLast(a.chain) = Front(a.chain)
  BY DEF PopLast
<1> HIDE DEF b
<1>3. Selects(b.chain, a.chain) /\ Selects(b.istack, a.istack)
  BY <1>1, <1>2, PoppedSelects DEF ActiveOK
<1>4. Kept(a, b)
  BY <1>1, <1>3, Narrowed DEF Kept
<1>5. TagsOf(b) = Front(TagsOf(a)) /\ StackTags(b) = PopLast(StackTags(a))
  BY <1>1, <1>4, TagsCut, StackCut DEF Kept
<1> QED
  BY <1>4, <1>5 DEF b

\* What a crossing takes, and what it leaves.
Crossing(a, b, i, j) ==
    b = [a EXCEPT !.chain = Front(a.chain),
                  !.istack = [a.istack EXCEPT ![i] = a.istack[j], ![j] = a.istack[i]]]
Swapped(a, b, i, j) ==
    /\ Kept(a, b)
    /\ Len(b.istack) = Len(a.istack)
    /\ TagsOf(b) = Front(TagsOf(a))
    /\ StackTags(b) = [StackTags(a) EXCEPT ![i] = StackTags(a)[j], ![j] = StackTags(a)[i]]

\* Two entries change places.
LEMMA CrossedIs ==
    ASSUME NEW a, ActiveOK(a), a.chain # << >>,
           NEW i \in 1..Len(a.istack), NEW j \in 1..Len(a.istack), i < j,
           NEW b, Crossing(a, b, i, j)
    PROVE  Swapped(a, b, i, j)
<1> DEFINE s == StackTags(a)
           From(k) == IF k = i THEN j ELSE IF k = j THEN i ELSE k
           z == Len(a.istack)
<1>1. /\ a.scopes \in Seq(Scope) /\ a.chain \in Seq(Nat) /\ a.istack \in Seq(Entry)
      /\ z \in Nat /\ DOMAIN a.istack = 1..z
      /\ \A k, m \in 1..z :
            TagOf[a.istack[k].class] = TagOf[a.istack[m].class] => k = m
  BY TagsAre DEF ActiveOK
<1>2. /\ DOMAIN b = Fields /\ b.scopes = a.scopes /\ b.chain = Front(a.chain)
      /\ b.istack = [a.istack EXCEPT ![i] = a.istack[j], ![j] = a.istack[i]]
  BY DEF ActiveOK, Fields, Crossing
<1>3. /\ \A k \in 1..z : From(k) \in 1..z
      /\ \A k, m \in 1..z : From(k) = From(m) => k = m
  OBVIOUS
<1>4. b.istack = [k \in 1..z |-> a.istack[From(k)]]
  <2> DEFINE q == a.istack
  <2>1. b.istack = [q EXCEPT ![i] = q[j], ![j] = q[i]] /\ DOMAIN q = 1..z
    BY <1>1, <1>2
  <2> HIDE DEF q, z
  <2>2. [q EXCEPT ![i] = q[j], ![j] = q[i]] = [k \in 1..z |-> q[From(k)]]
    BY <2>1
  <2> QED
    BY <2>1, <2>2 DEF q
<1>5. /\ DOMAIN s = 1..z
      /\ \A k \in 1..z : s[k] = TagOf[a.istack[k].class]
      /\ s = [k \in 1..z |-> TagOf[a.istack[k].class]]
  BY <1>1 DEF StackTags
<1> HIDE DEF s
<1>6. [s EXCEPT ![i] = s[j], ![j] = s[i]] = [k \in 1..z |-> s[From(k)]]
  BY <1>5
<1> HIDE DEF From
<1>7. /\ b.istack \in Seq(Entry) /\ Len(b.istack) = z
      /\ \A k \in 1..z : b.istack[k] = a.istack[From(k)]
  <2>1. \A k \in 1..z : a.istack[From(k)] \in Entry
    BY <1>1, <1>3, ElementOfSeq
  <2>2. b.istack \in [1..z -> Entry]
    BY <1>4, <2>1
  <2> HIDE DEF z
  <2>3. z \in Nat
    BY <1>1
  <2>4. b.istack \in Seq(Entry) /\ Len(b.istack) = z
    BY ONLY <2>2, <2>3
  <2>5. \A k \in 1..z : b.istack[k] = a.istack[From(k)]
    BY <1>4
  <2> QED
    BY <2>4, <2>5
<1>8. ASSUME NEW k \in 1..z, NEW m \in 1..z,
             TagOf[b.istack[k].class] = TagOf[b.istack[m].class]
      PROVE  k = m
  <2>1. TagOf[a.istack[From(k)].class] = TagOf[a.istack[From(m)].class]
    BY <1>7, <1>8
  <2>2. From(k) = From(m)
    BY <1>1, <1>3, <2>1
  <2> QED
    BY <1>3, <2>2
<1>9. PopLast(a.chain) = Front(a.chain) /\ Selects(Front(a.chain), a.chain)
  BY <1>1, PoppedSelects DEF PopLast
<1>10. Kept(a, b)
  <2> DEFINE c == [a EXCEPT !.chain = Front(a.chain)]
  <2>1. /\ DOMAIN c = Fields /\ c.scopes = a.scopes /\ c.chain = Front(a.chain)
        /\ c.istack = a.istack
    BY DEF ActiveOK, Fields
  <2> HIDE DEF c
  <2>2. Kept(a, c)
    BY <1>1, <1>9, <2>1, AllSelects, Narrowed DEF Kept
  <2>3. ActiveOK(b)
    <3>1. /\ b.chain \in Seq(Nat)
          /\ \A k \in 1..Len(b.chain) : b.chain[k] \in 1..Len(b.scopes)
          /\ \A k, m \in 1..Len(b.chain) : k < m => b.chain[k] < b.chain[m]
      BY <1>2, <2>1, <2>2 DEF Kept, ActiveOK
    <3>2. /\ b.istack \in Seq(Entry)
          /\ \A k, m \in 1..Len(b.istack) :
                TagOf[b.istack[k].class] = TagOf[b.istack[m].class] => k = m
      BY <1>7, <1>8
    <3> QED
      BY <1>1, <1>2, <3>1, <3>2 DEF ActiveOK
  <2>4. NoAnchors(a) => NoAnchors(b)
    <3> SUFFICES ASSUME NoAnchors(a) PROVE NoAnchors(b)
      OBVIOUS
    <3>1. \A k \in 1..Len(b.scopes) : b.scopes[k].class # "anchor"
      BY <1>2 DEF NoAnchors
    <3>2. \A k \in 1..z : a.istack[k].class # "anchor"
      BY DEF NoAnchors
    <3>3. ASSUME NEW k \in 1..z PROVE b.istack[k].class # "anchor"
      <4>1. b.istack[k] = a.istack[From(k)] /\ From(k) \in 1..z
        BY <1>3, <1>7
      <4> HIDE DEF z
      <4> QED
        BY <3>2, <4>1
    <3> QED
      BY <1>7, <3>1, <3>3 DEF NoAnchors
  <2> QED
    BY <2>3, <2>4 DEF Kept
<1>11. TagsOf(b) = Front(TagsOf(a))
  BY <1>2, <1>10, TagsCut DEF Kept
<1>12. StackTags(b) = [k \in 1..z |-> s[From(k)]]
  <2>1. StackTags(b) = [k \in 1..z |-> TagOf[b.istack[k].class]]
    <3>1. DOMAIN b.istack = 1..z
      BY <1>4
    <3> QED
      BY <3>1 DEF StackTags
  <2>2. \A k \in 1..z : TagOf[b.istack[k].class] = s[From(k)]
    BY <1>3, <1>5, <1>7
  <2> QED
    BY <2>1, <2>2
<1> QED
  BY <1>6, <1>7, <1>10, <1>11, <1>12 DEF s, Swapped

\* A set of numbers that holds 0 and the successor of each of its numbers holds them all.
LEMMA Induct ==
    ASSUME NEW S \in SUBSET Nat, 0 \in S, \A n \in S : n + 1 \in S
    PROVE  S = Nat
<1> SUFFICES ASSUME Nat \ S # {} PROVE FALSE
  OBVIOUS
<1> DEFINE T == Nat \ S
<1>1. T \in SUBSET Nat /\ T # {}
  OBVIOUS
<1> HIDE DEF T
<1>2. PICK x \in T : \A y \in T : ~ (<<y, x>> \in OpToRel(<, Nat))
  BY <1>1, WFMin, NatLessThanWellFounded
<1>3. x \in Nat /\ x \notin S /\ x # 0
  BY <1>2 DEF T
<1>4. x - 1 \in Nat /\ x - 1 < x /\ (x - 1) + 1 = x
  BY <1>3
<1>5. x - 1 \notin T
  BY <1>2, <1>3, <1>4 DEF OpToRel
<1>6. x - 1 \in S
  BY <1>4, <1>5 DEF T
<1> QED
  BY <1>3, <1>4, <1>6

\* The entries reopen one by one.
Reopening(f, a, z, n) ==
    f = [i \in z..n |-> IF i = z THEN a
                        ELSE PushFrom(f[i - 1], a.istack[i].class, a.istack[i].origin)]

LEMMA ReopenedSteps ==
    ASSUME NEW a, NEW n \in Nat, NEW z \in Nat, z <= n
    PROVE  \E f : Reopening(f, a, z, n)
<1> DEFINE G(b, i) == PushFrom(b, a.istack[i].class, a.istack[i].origin)
           B(f, i) == IF i = z THEN a ELSE G(f[i - 1], i)
           S == {m \in Nat : \E f : \A i \in z..n : i <= z + m => f[i] = B(f, i)}
<1>1. \A f : B(f, z) = a
  OBVIOUS
<1>2. \A f : \A i \in (z + 1)..n : B(f, i) = G(f[i - 1], i)
  <2> SUFFICES ASSUME NEW f, NEW i \in (z + 1)..n PROVE B(f, i) = G(f[i - 1], i)
    OBVIOUS
  <2>1. i # z
    OBVIOUS
  <2> HIDE DEF G
  <2> QED
    BY <2>1
<1>3. \A i \in z..n : i = z \/ i \in (z + 1)..n
  OBVIOUS
<1> HIDE DEF G, B
<1>4. 0 \in S
  <2> DEFINE g == [i \in z..n |-> a]
  <2>1. ASSUME NEW i \in z..n, i <= z + 0 PROVE g[i] = B(g, i)
    <3>1. i = z
      BY <2>1
    <3>2. g[i] = a
      OBVIOUS
    <3> HIDE DEF g
    <3> QED
      BY <1>1, <3>1, <3>2
  <2> HIDE DEF g
  <2> QED
    BY <2>1
<1>5. ASSUME NEW m \in S PROVE m + 1 \in S
  <2>1. PICK f : \A i \in z..n : i <= z + m => f[i] = B(f, i)
    OBVIOUS
  <2> DEFINE g == [i \in z..n |-> IF i <= z + m THEN f[i] ELSE B(f, i)]
  <2>2. \A i \in z..n : g[i] = B(f, i)
    BY <2>1
  <2>3. \A i \in z..n : i <= z + m => g[i] = f[i]
    OBVIOUS
  <2> HIDE DEF g
  <2>4. ASSUME NEW i \in z..n, i <= z + (m + 1) PROVE g[i] = B(g, i)
    <3>1. CASE i = z
      BY <1>1, <2>2, <3>1
    <3>2. CASE i \in (z + 1)..n
      <4>1. i - 1 \in z..n /\ i - 1 <= z + m
        BY <2>4, <3>2
      <4>2. g[i - 1] = f[i - 1]
        BY <2>3, <4>1
      <4>3. B(f, i) = G(f[i - 1], i) /\ B(g, i) = G(g[i - 1], i)
        BY <1>2, <3>2
      <4> QED
        BY <2>2, <4>2, <4>3
    <3> QED
      BY <1>3, <3>1, <3>2
  <2>5. m + 1 \in Nat
    OBVIOUS
  <2> QED
    BY <2>4, <2>5
<1>6. PICK f : \A i \in z..n : f[i] = B(f, i)
  <2>1. S \in SUBSET Nat
    OBVIOUS
  <2>2. \A m \in S : m + 1 \in S
    BY <1>5
  <2>3. S = Nat
    <3> HIDE DEF S
    <3> QED
      BY <1>4, <2>1, <2>2, Induct
  <2>4. n \in S
    BY <2>3
  <2>5. PICK f : \A i \in z..n : i <= z + n => f[i] = B(f, i)
    BY <2>4
  <2>6. \A i \in z..n : i <= z + n
    OBVIOUS
  <2> QED
    BY <2>5, <2>6
<1>7. \E g : g = [i \in z..n |-> B(g, i)]
  <2> DEFINE g == [i \in z..n |-> f[i]]
  <2>1. \A i \in z..n : B(g, i) = B(f, i)
    <3> SUFFICES ASSUME NEW i \in z..n PROVE B(g, i) = B(f, i)
      OBVIOUS
    <3>1. CASE i = z
      BY <1>1, <3>1
    <3>2. CASE i \in (z + 1)..n
      <4>1. i - 1 \in z..n
        BY <3>2
      <4>2. g[i - 1] = f[i - 1]
        BY <4>1
      <4> HIDE DEF g
      <4> QED
        BY <1>2, <3>2, <4>2
    <3> QED
      BY <1>3, <3>1, <3>2
  <2>2. g = [i \in z..n |-> B(g, i)]
    BY <1>6, <2>1
  <2> HIDE DEF g
  <2> QED
    BY <2>2
<1> QED
  BY <1>7 DEF Reopening, B, G

\* From the slot upward every entry reopens, and the stack stays as it is.
LEMMA ReopenedIs ==
    ASSUME NEW a, ActiveOK(a), NEW from \in 1..(Len(a.istack) + 1)
    PROVE  LET b == Reopened(a, from)
               s == StackTags(a)
           IN  /\ Kept(a, b)
               /\ StackTags(b) = s
               /\ TagsOf(b) = TagsOf(a) \o SubSeq(s, from, Len(s))
<1> DEFINE n == Len(a.istack)
           z == from - 1
           l == Len(a.chain)
           s == StackTags(a)
           up == CHOOSE f : f = [i \in z..n |->
                     IF i = z THEN a
                     ELSE PushFrom(f[i - 1], a.istack[i].class, a.istack[i].origin)]
<1>1. /\ n \in Nat /\ l \in Nat /\ a.istack \in Seq(Entry)
      /\ TagsOf(a) \in Seq(Tags) /\ Len(TagsOf(a)) = l
      /\ s \in Seq(Tags) /\ Len(s) = n
      /\ \A i \in 1..n : s[i] = TagOf[a.istack[i].class]
  <2>1. ActiveOK(a) /\ a.istack \in Seq(Entry) /\ a.chain \in Seq(Nat)
    BY DEF ActiveOK
  <2>2. Len(a.istack) \in Nat /\ Len(a.chain) \in Nat
    BY <2>1
  <2>3. /\ TagsOf(a) \in Seq(Tags) /\ Len(TagsOf(a)) = Len(a.chain)
        /\ StackTags(a) \in Seq(Tags) /\ Len(StackTags(a)) = Len(a.istack)
        /\ \A i \in 1..Len(a.istack) : StackTags(a)[i] = TagOf[a.istack[i].class]
    BY <2>1, TagsAre
  <2> QED
    BY <2>1, <2>2, <2>3
<1>2. z \in Nat /\ z <= n /\ from = z + 1 /\ from \in Nat
  BY <1>1
<1>3. /\ up[z] = a
      /\ \A i \in (z + 1)..n : up[i] = PushFrom(up[i - 1], a.istack[i].class, a.istack[i].origin)
  <2>1. \E f : Reopening(f, a, z, n)
    <3> HIDE DEF n, z
    <3>1. n \in Nat /\ z \in Nat /\ z <= n
      BY <1>1, <1>2
    <3> QED
      BY ONLY <3>1, ReopenedSteps
  <2>2. Reopening(up, a, z, n)
    <3>1. up = CHOOSE f : Reopening(f, a, z, n)
      BY DEF Reopening
    <3> HIDE DEF up
    <3> QED
      BY <2>1, <3>1
  <2> HIDE DEF up
  <2>3. z \in z..n /\ \A i \in (z + 1)..n : i \in z..n /\ i # z
    BY <1>1, <1>2
  <2> HIDE DEF n, z
  <2> QED
    BY <2>2, <2>3 DEF Reopening
<1>4. Reopened(a, from) = up[n]
  BY DEF Reopened
<1> HIDE DEF up, n, z, s
<1> DEFINE P(i) == /\ Kept(a, up[i])
                   /\ StackTags(up[i]) = s
                   /\ TagsOf(up[i]) \in Seq(Tags) /\ Len(TagsOf(up[i])) = l + (i - z)
                   /\ \A k \in 1..l : TagsOf(up[i])[k] = TagsOf(a)[k]
                   /\ \A k \in (z + 1)..i : TagsOf(up[i])[l + (k - z)] = s[k]
           S == {m \in Nat : z + m <= n => P(z + m)}
<1>5. P(z)
  BY <1>1, <1>2, <1>3, KeptItself DEF s
<1>6. ASSUME NEW i \in Nat, z <= i, i + 1 <= n, P(i) PROVE P(i + 1)
  <2> DEFINE c == a.istack[i + 1].class
             b == up[i]
             d == up[i + 1]
  <2>1. i + 1 \in (z + 1)..n /\ i + 1 \in 1..n
    BY <1>1, <1>2, <1>6
  <2>2. c \in Classes /\ a.istack[i + 1].origin \in Nat /\ s[i + 1] = TagOf[c]
    <3>1. a.istack[i + 1] \in Entry
      BY <1>1, <2>1, ElementOfSeq DEF n
    <3> QED
      BY <1>1, <2>1, <3>1 DEF Entry
  <2>3. d = PushFrom(b, c, a.istack[i + 1].origin)
    <3>1. (i + 1) - 1 = i
      OBVIOUS
    <3> QED
      BY <1>3, <2>1, <3>1
  <2>4. ActiveOK(b) /\ Kept(a, b) /\ StackTags(b) = s
    BY <1>6 DEF Kept
  <2>5. IsStacked(b, TagOf[c])
    <3>1. DOMAIN s = 1..n
      BY <1>1
    <3>2. Contains(s, TagOf[c])
      BY <1>1, <2>1, <2>2 DEF Contains
    <3> QED
      BY <2>4, <3>2, Stacked
  <2> DEFINE t == TagOf[c]
             u == TagsOf(b)
  <2>6. u \in Seq(Tags) /\ Len(u) = l + (i - z)
        /\ (\A k \in 1..l : u[k] = TagsOf(a)[k])
        /\ (\A k \in (z + 1)..i : u[l + (k - z)] = s[k])
    BY <1>6
  <2>7. t \in Tags
    BY <2>2 DEF Tags
  <2>8. /\ ActiveOK(d) /\ TagsOf(d) = Append(u, t) /\ StackTags(d) = s
        /\ NoAnchors(b) /\ c # "anchor" => NoAnchors(d)
    <3> HIDE DEF b, d, c
    <3>1. /\ ActiveOK(d) /\ TagsOf(d) = Append(TagsOf(b), TagOf[c])
          /\ StackTags(d) = IF IsStacked(b, TagOf[c]) THEN StackTags(b)
                            ELSE Append(StackTags(b), TagOf[c])
          /\ NoAnchors(b) /\ c # "anchor" => NoAnchors(d)
      BY <2>2, <2>3, <2>4, PushFromIs
    <3> QED
      BY <2>4, <2>5, <3>1
  <2>9. Kept(a, d)
    <3>1. NoAnchors(a) => NoAnchors(b) /\ c # "anchor"
      BY <2>1, <2>4 DEF Kept, NoAnchors, n
    <3> QED
      BY <2>8, <3>1 DEF Kept
  <2> HIDE DEF b, c, d, t, u
  <2>10. /\ Append(u, t) \in Seq(Tags) /\ Len(Append(u, t)) = Len(u) + 1
         /\ Append(u, t)[Len(u) + 1] = t
         /\ \A k \in 1..Len(u) : Append(u, t)[k] = u[k]
    BY <2>6, <2>7, AppendProperties
  <2> DEFINE v == TagsOf(d)
  <2>11. v = Append(u, t)
    BY <2>8
  <2> HIDE DEF v
  <2>12. /\ i - z \in Nat /\ (i + 1) - z = (i - z) + 1
         /\ Len(u) + 1 = l + ((i + 1) - z)
         /\ \A k \in 1..l : k \in 1..Len(u)
         /\ \A k \in (z + 1)..i : l + (k - z) \in 1..Len(u)
         /\ \A k \in (z + 1)..(i + 1) : k \in (z + 1)..i \/ k = i + 1
    <3>1. i \in Nat /\ z \in Nat /\ l \in Nat /\ z <= i /\ Len(u) = l + (i - z)
      BY <1>1, <1>2, <1>6, <2>6
    <3> HIDE DEF l
    <3>2. i - z \in Nat /\ (i + 1) - z = (i - z) + 1
      BY ONLY <3>1
    <3> DEFINE m == i - z
    <3>3. m = i - z
      OBVIOUS
    <3> HIDE DEF m
    <3>4. Len(u) + 1 = l + (m + 1) /\ \A k \in 1..l : k \in 1..Len(u)
      BY <3>1, <3>2, <3>3
    <3>5. \A k \in (z + 1)..i : l + (k - z) \in 1..Len(u)
      BY ONLY <3>1
    <3>6. \A k \in (z + 1)..(i + 1) : k \in (z + 1)..i \/ k = i + 1
      BY ONLY <3>1
    <3> QED
      BY <3>2, <3>3, <3>4, <3>5, <3>6
  <2>13. v \in Seq(Tags) /\ Len(v) = l + ((i + 1) - z)
    BY <2>10, <2>11, <2>12
  <2>14. \A k \in 1..l : v[k] = TagsOf(a)[k]
    BY <2>6, <2>10, <2>11, <2>12
  <2>15. ASSUME NEW k \in (z + 1)..(i + 1) PROVE v[l + (k - z)] = s[k]
    <3>1. CASE k \in (z + 1)..i
      BY <2>6, <2>10, <2>11, <2>12, <3>1
    <3>2. CASE k = i + 1
      <4>1. v[l + (k - z)] = t /\ s[k] = t
        BY <2>2, <2>10, <2>11, <2>12, <3>2 DEF t
      <4> QED
        BY <4>1
    <3> QED
      BY <2>12, <3>1, <3>2
  <2> QED
    BY <2>8, <2>9, <2>13, <2>14, <2>15 DEF v, d
<1> HIDE DEF P
<1>7. P(n)
  <2>1. 0 \in S
    BY <1>2, <1>5
  <2>2. ASSUME NEW m \in S PROVE m + 1 \in S
    <3>1. m \in Nat /\ m + 1 \in Nat /\ z + m \in Nat /\ z <= z + m
          /\ z + (m + 1) = (z + m) + 1 /\ ((z + m) + 1 <= n => z + m <= n)
      BY <1>1, <1>2
    <3>2. z + m <= n => P(z + m)
      OBVIOUS
    <3>3. (z + m) + 1 <= n => P((z + m) + 1)
      BY <1>6, <3>1, <3>2
    <3> QED
      BY <3>1, <3>3
  <2>3. S \in SUBSET Nat
    OBVIOUS
  <2>4. n - z \in Nat /\ z + (n - z) = n /\ n <= n
    BY <1>1, <1>2
  <2>5. S = Nat
    <3> HIDE DEF S
    <3> QED
      BY <2>1, <2>2, <2>3, Induct
  <2>6. n - z \in S
    BY <2>4, <2>5
  <2> QED
    BY <2>4, <2>6
<1>8. /\ Kept(a, up[n]) /\ StackTags(up[n]) = s
      /\ TagsOf(up[n]) \in Seq(Tags) /\ Len(TagsOf(up[n])) = l + (n - z)
      /\ \A k \in 1..l : TagsOf(up[n])[k] = TagsOf(a)[k]
      /\ \A k \in (z + 1)..n : TagsOf(up[n])[l + (k - z)] = s[k]
  BY <1>7 DEF P
<1> DEFINE t == SubSeq(s, from, n)
<1>9. /\ t \in Seq(Tags) /\ Len(t) = n - z
      /\ \A k \in 1..(n - z) : t[k] = s[z + k]
  <2>1. \A i \in from..n : s[i] \in Tags
    BY <1>1, <1>2, ElementOfSeq
  <2>2. from \in Int /\ n \in Int /\ (from <= n => n - from + 1 = n - z)
        /\ (~(from <= n) => n - z = 0)
    BY <1>1, <1>2
  <2>3. /\ t \in Seq(Tags)
        /\ Len(t) = IF from <= n THEN n - from + 1 ELSE 0
    BY <2>1, <2>2, SubSeqProperties
  <2>4. \A k \in 1..(n - z) : from + k - 1 = z + k
    BY <1>1, <1>2
  <2>5. \A k \in 1..(n - z) : t[k] = s[from + k - 1]
    BY <1>1, <1>2
  <2> QED
    BY <2>2, <2>3, <2>4, <2>5
<1> HIDE DEF t
<1> DEFINE u == TagsOf(a)
           v == TagsOf(up[n])
           w == u \o t
<1>10. /\ w \in Seq(Tags) /\ Len(w) = l + (n - z)
       /\ \A k \in 1..l : w[k] = u[k]
       /\ \A k \in 1..(n - z) : w[l + k] = t[k]
  <2>1. u \in Seq(Tags) /\ Len(u) = l
    BY <1>1
  <2> HIDE DEF u
  <2>2. n - z \in Nat /\ l \in Nat
    BY <1>1, <1>2
  <2>3. t \in Seq(Tags) /\ Len(t) = n - z
    BY <1>9
  <2>4. /\ w \in Seq(Tags) /\ Len(w) = Len(u) + Len(t)
        /\ \A k \in 1..(Len(u) + Len(t)) :
              w[k] = IF k <= Len(u) THEN u[k] ELSE t[k - Len(u)]
    BY <2>1, <2>3, ConcatProperties
  <2> HIDE DEF w, l
  <2>5. \A k \in 1..l : k \in 1..(l + (n - z)) /\ k <= l
    BY <2>2
  <2>6. \A k \in 1..(n - z) :
            l + k \in 1..(l + (n - z)) /\ ~(l + k <= l) /\ (l + k) - l = k
    BY <2>2
  <2> QED
    BY <2>1, <2>3, <2>4, <2>5, <2>6
<1> HIDE DEF w
<1>11. ASSUME NEW k \in 1..(l + (n - z)) PROVE v[k] = w[k]
  <2>1. CASE k \in 1..l
    BY <1>8, <1>10, <2>1
  <2>2. CASE k \notin 1..l
    <3>1. k - l \in 1..(n - z) /\ k = l + (k - l) /\ z + (k - l) \in (z + 1)..n
          /\ (z + (k - l)) - z = k - l
      <4>1. n \in Nat /\ z \in Nat /\ l \in Nat /\ z <= n
        BY <1>1, <1>2
      <4>2. k \in 1..(l + (n - z)) /\ k \notin 1..l
        BY <2>2
      <4> HIDE DEF l
      <4>3. k \in Nat /\ k > l /\ k <= l + (n - z)
        BY ONLY <4>1, <4>2
      <4>4. k = l + (k - l) /\ k - l \in 1..(n - z)
        BY ONLY <4>1, <4>3
      <4>5. z + (k - l) \in (z + 1)..n /\ (z + (k - l)) - z = k - l
        BY ONLY <4>1, <4>3
      <4> QED
        BY <4>4, <4>5
    <3>2. v[l + (k - l)] = s[z + (k - l)]
      BY <1>8, <3>1
    <3>3. w[l + (k - l)] = s[z + (k - l)]
      BY <1>9, <1>10, <3>1
    <3> QED
      BY <3>1, <3>2, <3>3
  <2> QED
    BY <2>1, <2>2
<1>12. v = w
  <2>1. v \in Seq(Tags) /\ Len(v) = l + (n - z)
    BY <1>8
  <2> HIDE DEF v
  <2> QED
    BY <1>10, <1>11, <2>1, SeqEqual
<1>13. TagsOf(up[n]) = TagsOf(a) \o SubSeq(s, from, Len(s))
  BY <1>1, <1>12 DEF w, t
<1> QED
  BY <1>4, <1>8, <1>13 DEF s

-----------------------------------------------------------------------------
(* The invariant *)

LEMMA InitIInv == ScopesInit => IInv
<1> SUFFICES ASSUME ScopesInit PROVE IInv
  OBVIOUS
<1>1. stream \in Seq(Events)
  BY InlineScopesAssumption DEF ScopesInit, Unread
<1>2. active = [scopes |-> << >>, chain |-> << >>, istack |-> << >>, opened |-> << >>,
                watches |-> << >>]
  BY DEF ScopesInit, Unread, NothingActive
<1>3. /\ DOMAIN active = Fields /\ active.scopes = << >>
      /\ active.chain = << >> /\ active.istack = << >>
  BY <1>2 DEF Fields
<1>4. ActiveOK(active) /\ NoAnchors(active)
  BY <1>3 DEF ActiveOK, NoAnchors
<1>5. ClosingOK
  BY DEF ScopesInit, Unread, ClosingOK, NotClosing
<1> QED
  BY <1>1, <1>4, <1>5 DEF ScopesInit, Unread, IInv

\* What a step leaves to show.
LEMMA Carried ==
    ASSUME IInv, stream' = stream, at' \in Nat \ {0}, Kept(active, active'), ClosingOK'
    PROVE  IInv'
  BY DEF IInv, Kept, ActiveOK, NoAnchors, Plain

LEMMA CloseStays ==
    ASSUME IInv, mode \in {"collect", "read"}, mode' \in {"collect", "read"},
           closing' = closing
    PROVE  ClosingOK'
  BY DEF IInv, ClosingOK

\* The markers of a sequence have their class.
LEMMA EventIs ==
    ASSUME IInv, NEW op, Event(op)
    PROVE  /\ at \in 1..Len(stream) /\ stream[at].op = op
           /\ op \in {"open", "close", "synth", "whole"} => Class \in Classes
           /\ Plain => /\ op \notin {"div", "inner", "end"}
                       /\ Class # "anchor"
           /\ mode = "read" /\ stream' = stream /\ at' = at + 1 /\ at' \in Nat \ {0}
<1>1. /\ mode = "read" /\ at <= Len(stream) /\ stream[at].op = op
      /\ stream' = stream /\ at' = at + 1 /\ at \in Nat \ {0} /\ stream \in Seq(Events)
  BY DEF Event, IInv
<1>2. Len(stream) \in Nat /\ DOMAIN stream = 1..Len(stream)
  BY <1>1, LenProperties
<1>3. at \in 1..Len(stream) /\ at' \in Nat \ {0}
  BY <1>1, <1>2
<1>4. stream[at] \in Events
  BY <1>1, <1>3, ElementOfSeq
<1>5. op \in {"open", "close", "synth", "whole"} => Class \in Classes
  BY <1>1, <1>4 DEF Events, Class
<1>6. Plain => /\ op \notin {"div", "inner", "end"}
               /\ Class # "anchor"
  BY <1>1, <1>2, <1>3 DEF Plain, Class
<1> QED
  BY <1>1, <1>3, <1>5, <1>6

LEMMA CloserIs ==
    ASSUME IInv, Closer
    PROVE  /\ Class \in Classes /\ TagOf[Class] \in Tags
           /\ Plain => Class # "anchor"
           /\ mode = "read" /\ stream' = stream /\ at' \in Nat \ {0}
<1>1. CASE Event("close")
  BY <1>1, EventIs DEF Tags
<1>2. CASE Event("synth")
  BY <1>2, EventIs DEF Tags
<1> QED
  BY <1>1, <1>2 DEF Closer

\* What an opener makes of the open scopes.
OpensTo(b) ==
    /\ ActiveOK(b)
    /\ TagsOf(b) = Append(TagsOf(active), TagOf[Class])
    /\ StackTags(b) = IF IsStacked(active, TagOf[Class]) THEN StackTags(active)
                      ELSE Append(StackTags(active), TagOf[Class])
    /\ NoAnchors(active) => NoAnchors(b)

LEMMA OpenIs ==
    ASSUME IInv, OpenScope
    PROVE  /\ ordinal \notin valid => active' = active
           /\ ordinal \in valid /\ Class = "anchor" => ActiveOK(active')
           /\ ordinal \in valid /\ Class # "anchor" => OpensTo(active')
<1>1. Class \in Classes /\ Event("open")
  BY EventIs DEF OpenScope
<1>2. ActiveOK(active)
  BY DEF IInv
<1>3. ordinal \notin valid => active' = active
  BY DEF OpenScope
<1>4. ASSUME NEW a, ActiveOK(a) PROVE Len(a.scopes) + 1 \in Nat
  BY <1>4, TagsAre
<1>5. ASSUME ordinal \in valid, Class = "anchor" PROVE ActiveOK(active')
  <2> DEFINE a == CloseAnchor(active)
  <2>1. active' = PushFrom(a, Class, Len(a.scopes) + 1)
    BY <1>5 DEF OpenScope, PushScope
  <2>2. ActiveOK(a)
    BY <1>2, CloseAnchorKeeps DEF Kept
  <2> HIDE DEF a
  <2> QED
    BY <1>1, <1>4, <2>1, <2>2, PushFromIs
<1>6. ASSUME ordinal \in valid, Class # "anchor" PROVE OpensTo(active')
  <2> DEFINE b == PushScope(active, Class)
             d == [o \in DOMAIN b.opened \cup {ordinal} |->
                      IF o = ordinal THEN Len(active.scopes) + 1 ELSE b.opened[o]]
  <2>1. active' = [b EXCEPT !.opened = d]
    BY <1>6 DEF OpenScope
  <2>2. /\ ActiveOK(b)
        /\ TagsOf(b) = Append(TagsOf(active), TagOf[Class])
        /\ StackTags(b) = IF IsStacked(active, TagOf[Class]) THEN StackTags(active)
                          ELSE Append(StackTags(active), TagOf[Class])
        /\ NoAnchors(active) => NoAnchors(b)
    <3>1. Len(active.scopes) + 1 \in Nat
      BY <1>2, <1>4
    <3> QED
      BY <1>1, <1>2, <1>6, <3>1, PushFromIs DEF PushScope
  <2> HIDE DEF b, d
  <2> DEFINE c == [b EXCEPT !.opened = d]
  <2>3. /\ DOMAIN c = Fields /\ c.scopes = b.scopes /\ c.chain = b.chain
        /\ c.istack = b.istack
    BY <2>2 DEF ActiveOK, Fields
  <2> HIDE DEF c
  <2>4. /\ ActiveOK(c) /\ (NoAnchors(b) => NoAnchors(c))
        /\ TagsOf(c) = TagsOf(b) /\ StackTags(c) = StackTags(b)
    BY <2>2, <2>3, Likewise
  <2>5. OpensTo(c)
    BY <2>2, <2>4 DEF OpensTo
  <2> QED
    BY <2>1, <2>5 DEF c
<1> QED
  BY <1>3, <1>5, <1>6

LEMMA OpenScopeIInv == IInv /\ OpenScope => IInv'
<1> SUFFICES ASSUME IInv, OpenScope PROVE IInv'
  OBVIOUS
<1>1. /\ stream' = stream /\ at' \in Nat \ {0} /\ mode = "read"
      /\ (Plain => Class # "anchor") /\ closing' = closing /\ mode' = mode
  BY EventIs DEF OpenScope
<1>2. ClosingOK'
  BY <1>1, CloseStays
<1>3. ActiveOK(active')
  BY OpenIs DEF OpensTo, IInv
<1>4. Plain => NoAnchors(active')
  BY <1>1, OpenIs DEF OpensTo, IInv
<1> QED
  BY <1>1, <1>2, <1>3, <1>4 DEF IInv, ActiveOK, NoAnchors, Plain

LEMMA CloserIInv ==
    ASSUME IInv, CloseAsText \/ CloseScope \/ CloseSpan \/ CloseAnchorScope
    PROVE  IInv'
<1>1. Closer
  BY DEF CloseAsText, CloseScope, CloseSpan, CloseAnchorScope
<1>2. /\ TagOf[Class] \in Tags /\ mode = "read" /\ stream' = stream /\ at' \in Nat \ {0}
      /\ ActiveOK(active) /\ closing = NotClosing
  BY <1>1, CloserIs DEF IInv, ClosingOK
<1>3. Kept(active, active) /\ Kept(active, PopThroughAnchor(active))
  BY <1>2, KeptItself, PopThroughAnchorKeeps
<1>4. ASSUME active' = active, active.chain # << >>, ClosesAs(TagOf[Class]) PROVE ClosingOK'
  BY <1>2, <1>4, TagsAre DEF ClosesAs, ClosingOK, NotClosing, ActiveOK
<1>5. ASSUME Kept(active, active'), closing' = closing, mode' = mode PROVE IInv'
  BY <1>2, <1>5, CloseStays, Carried
<1>6. ASSUME active' = active, active.chain # << >>, ClosesAs(TagOf[Class]) PROVE IInv'
  BY <1>2, <1>3, <1>4, <1>6, Carried
<1>7. \A number, t : ResolveClose(active, number, t) # 0 => active.chain # << >>
  BY <1>2, ResolvedIs
<1>8. CASE CloseAsText
  BY <1>3, <1>5, <1>8 DEF CloseAsText
<1>9. CASE CloseScope
  <2> DEFINE p == ResolveClose(active, ordinal, TagOf[Class])
  <2>1. \/ active' = PopThroughAnchor(active) /\ UNCHANGED <<closing, mode>>
        \/ /\ active' = active
           /\ IF p # 0 \/ (Class = "size" /\ active.chain # << >>)
                THEN ClosesAs(TagOf[Class])
                ELSE UNCHANGED <<closing, mode>>
    BY <1>9 DEF CloseScope
  <2>2. p # 0 => active.chain # << >>
    BY <1>7
  <2> HIDE DEF p
  <2> QED
    BY <1>3, <1>5, <1>6, <2>1, <2>2
<1>10. CASE CloseSpan
  <2>1. \/ active' = PopThroughAnchor(active) /\ UNCHANGED <<closing, mode>>
        \/ /\ active' = active
           /\ IF active.chain # << >> THEN ClosesAs(TagOf[Class])
              ELSE UNCHANGED <<closing, mode>>
    BY <1>10 DEF CloseSpan
  <2> QED
    BY <1>3, <1>5, <1>6, <2>1
<1>11. CASE CloseAnchorScope
  <2> DEFINE p == PeekClose(active, TagOf[Class])
  <2>1. /\ active' = IF p = 0 THEN active ELSE PopThroughAnchor(CommitClose(active, p))
        /\ closing' = closing /\ mode' = mode
    BY <1>11 DEF CloseAnchorScope
  <2>2. p # 0 => Kept(active, CommitClose(active, p))
    <3>1. p # 0 => \E i \in 1..Len(active.chain) : active.chain[i] = p
      BY <1>2, InnermostIs
    <3> HIDE DEF p
    <3> QED
      BY <1>2, <3>1, CommitCloseKeeps
  <2> HIDE DEF p
  <2>3. p # 0 => Kept(active, PopThroughAnchor(CommitClose(active, p)))
    BY <2>2, PopThroughAnchorKeeps, KeptByBoth DEF Kept
  <2> QED
    BY <1>3, <1>5, <2>1, <2>3
<1> QED
  BY <1>8, <1>9, <1>10, <1>11

LEMMA ElementIInv ==
    ASSUME IInv, Collect \/ KeepWhole \/ StartParagraph \/ StartInner \/ EnterBlock \/ LeaveBlock
    PROVE  IInv'
<1>1. /\ stream' = stream /\ at' \in Nat \ {0} /\ closing' = closing
      /\ mode \in {"collect", "read"} /\ mode' \in {"collect", "read"}
  BY EventIs DEF IInv, Collect, KeepWhole, StartParagraph, StartInner, EnterBlock, LeaveBlock
<1>2. ActiveOK(active)
  BY DEF IInv
<1>3. Kept(active, active')
  <2>1. CASE active' = active
    BY <1>2, <2>1, KeptItself
  <2>2. CASE KeepWhole
    BY <1>2, <2>2, WholePoppingIs DEF KeepWhole
  <2>3. CASE StartParagraph
    BY <1>2, <2>3, SyncedIs DEF StartParagraph
  <2>4. CASE EnterBlock
    BY <1>2, <2>4, WatchedKeeps DEF EnterBlock
  <2>5. CASE LeaveBlock
    BY <1>2, <2>5, DroppedKeeps DEF LeaveBlock
  <2> QED
    BY <2>1, <2>2, <2>3, <2>4, <2>5 DEF Collect, StartInner
<1> QED
  BY <1>1, <1>3, CloseStays, Carried

\* The top goes, and what is closed is told to who watches.
LEMMA TopEndsTo ==
    ASSUME IInv, TidyLast
    PROVE  /\ Kept(active, active')
           /\ TagsOf(active') = Front(TagsOf(active))
           /\ StackTags(active') = PopLast(StackTags(active))
           /\ active.chain # << >>
<1> DEFINE b == EndTop(active)
<1>1. active.chain # << >> /\ ActiveOK(active)
  BY DEF TidyLast, IInv
<1>2. /\ Kept(active, b) /\ TagsOf(b) = Front(TagsOf(active))
      /\ StackTags(b) = PopLast(StackTags(active))
  BY <1>1, EndTopIs
<1> HIDE DEF b
<1>3. active' = b \/ active' = NotedClose(b, closing.ended \cup {TopScope})
  BY DEF TidyLast, b
<1>4. CASE active' = b
  BY <1>1, <1>2, <1>4
<1>5. CASE active' = NotedClose(b, closing.ended \cup {TopScope})
  <2>1. ActiveOK(b)
    BY <1>2 DEF Kept
  <2>2. /\ Kept(b, active') /\ TagsOf(active') = TagsOf(b)
        /\ StackTags(active') = StackTags(b)
    BY <1>5, <2>1, NotedIs
  <2> QED
    BY <1>1, <1>2, <2>2, KeptByBoth
<1> QED
  BY <1>3, <1>4, <1>5

LEMMA LastInChain ==
    ASSUME NEW a, ActiveOK(a), a.chain # << >>
    PROVE  Last(a.chain) \in Nat /\ Tag(a, Last(a.chain)) = Last(TagsOf(a))
<1> DEFINE z == Len(a.chain)
<1>1. /\ z \in Nat /\ Len(TagsOf(a)) = z
      /\ \A i \in 1..z : TagsOf(a)[i] = TagOf[a.scopes[a.chain[i]].class]
  BY TagsAre
<1>2. a.chain \in Seq(Nat)
  BY DEF ActiveOK
<1>3. z \in 1..z /\ a.chain[z] \in Nat
  BY <1>1, <1>2, EmptySeq, ElementOfSeq
<1> QED
  BY <1>1, <1>3 DEF Last, Tag

LEMMA TidyLastIInv ==
    ASSUME IInv, TidyLast
    PROVE  IInv'
<1>1. /\ stream' = stream /\ at' = at /\ at \in Nat \ {0} /\ ClosingOK /\ mode = "close"
      /\ ActiveOK(active) /\ Kept(active, active') /\ active.chain # << >>
      /\ closing.slot \in 0..Len(active.istack)
  BY TopEndsTo DEF TidyLast, IInv, ClosingOK
<1>2. TopScope \in Nat
  BY <1>1, LastInChain DEF TopScope
<1>3. CASE closing.slot = 0
  <2>1. closing' = NotClosing /\ mode' = "read"
    BY <1>3 DEF TidyLast
  <2>2. ClosingOK'
    BY <2>1 DEF ClosingOK, NotClosing
  <2> QED
    BY <1>1, <2>2, Carried
<1>4. CASE closing.slot # 0
  <2>1. /\ closing' = [closing EXCEPT !.ended = closing.ended \cup {TopScope}] /\ mode' = "reopen"
        /\ active' = EndTop(active)
    BY <1>4 DEF TidyLast
  <2>2. active'.istack = PopLast(active.istack)
    BY <1>1, <2>1 DEF EndTop, ActiveOK, Fields
  <2>3. Len(active.istack) \in Nat /\ active.istack \in Seq(Entry)
    BY <1>1, TagsAre DEF ActiveOK
  <2>4. active.istack # << >>
    BY <1>1, <1>4
  <2>5. Len(active'.istack) = Len(active.istack) - 1
    BY <2>2, <2>3, <2>4 DEF PopLast, Front
  <2>6. closing.slot \in 1..(Len(active'.istack) + 1)
    <3>1. closing.slot \in Nat /\ closing.slot # 0 /\ closing.slot <= Len(active.istack)
      BY <1>1, <1>4
    <3> QED
      BY <2>3, <2>5, <3>1
  <2>7. closing' \in [tag : Tags \cup {"none"}, ended : SUBSET Nat, slot : Nat]
        /\ closing'.slot = closing.slot
    BY <1>1, <1>2, <2>1 DEF ClosingOK
  <2>8. ClosingOK'
    BY <2>1, <2>6, <2>7 DEF ClosingOK
  <2> QED
    BY <1>1, <2>8, Carried
<1> QED
  BY <1>3, <1>4

\* How a crossing is tidied up.
CrossedTo(i, j) ==
    /\ i \in 1..Len(active.istack) /\ j \in 1..Len(active.istack) /\ i < j
    /\ StackTags(active)[i] = closing.tag
    /\ StackTags(active)[j] = Last(TagsOf(active))
    /\ Kept(active, active')
    /\ Len(active'.istack) = Len(active.istack)
    /\ TagsOf(active') = Front(TagsOf(active))
    /\ StackTags(active') = [StackTags(active) EXCEPT ![i] = StackTags(active)[j],
                                                      ![j] = StackTags(active)[i]]
    /\ closing' = [closing EXCEPT !.ended = closing.ended \cup {TopScope}, !.slot = i]

LEMMA CrossedToIs ==
    ASSUME IInv, TidyCrossed
    PROVE  \E i, j : CrossedTo(i, j)
<1>1. /\ ActiveOK(active) /\ active.chain # << >>
      /\ DOMAIN active.istack = 1..Len(active.istack)
      /\ \A k \in 1..Len(active.istack) :
            StackTags(active)[k] = TagOf[active.istack[k].class]
  BY TagsAre DEF IInv, TidyCrossed
<1>2. PICK i \in 1..Len(active.istack), j \in 1..Len(active.istack) :
        /\ CrossAt(i, j)
        /\ active' = [active EXCEPT
              !.chain = Front(active.chain),
              !.istack = [active.istack EXCEPT ![i] = active.istack[j], ![j] = active.istack[i]]]
        /\ closing' = [closing EXCEPT !.ended = closing.ended \cup {TopScope}, !.slot = i]
  BY <1>1 DEF TidyCrossed
<1>3. Tag(active, TopScope) = Last(TagsOf(active))
  BY <1>1, LastInChain DEF TopScope
<1>4. i < j /\ StackTags(active)[i] = closing.tag /\ StackTags(active)[j] = Last(TagsOf(active))
  BY <1>1, <1>2, <1>3 DEF CrossAt
<1>5. /\ Kept(active, active') /\ Len(active'.istack) = Len(active.istack)
      /\ TagsOf(active') = Front(TagsOf(active))
      /\ StackTags(active') = [StackTags(active) EXCEPT ![i] = StackTags(active)[j],
                                                        ![j] = StackTags(active)[i]]
  <2>1. ActiveOK(active) /\ active.chain # << >> /\ i < j
    BY <1>1, <1>4
  <2>2. active' = [active EXCEPT
            !.chain = Front(active.chain),
            !.istack = [active.istack EXCEPT ![i] = active.istack[j], ![j] = active.istack[i]]]
    BY <1>2
  <2> DEFINE a == active
             b == active'
  <2>3. /\ ActiveOK(a) /\ a.chain # << >>
        /\ i \in 1..Len(a.istack) /\ j \in 1..Len(a.istack)
        /\ Crossing(a, b, i, j)
    BY <2>1, <2>2 DEF Crossing
  <2> HIDE DEF a, b
  <2>4. Swapped(a, b, i, j)
    BY ONLY <2>1, <2>3, CrossedIs
  <2> QED
    BY <2>4 DEF a, b, Swapped
<1>6. CrossedTo(i, j)
  BY <1>2, <1>4, <1>5 DEF CrossedTo
<1> QED
  BY <1>6

LEMMA TidyCrossedIInv ==
    ASSUME IInv, TidyCrossed
    PROVE  IInv'
<1>1. PICK i, j : CrossedTo(i, j)
  BY CrossedToIs
<1>2. /\ stream' = stream /\ at' = at /\ at \in Nat \ {0} /\ ClosingOK /\ mode = "close"
      /\ mode' = mode /\ ActiveOK(active) /\ active.chain # << >>
  BY DEF TidyCrossed, IInv
<1>3. TopScope \in Nat /\ Len(active.istack) \in Nat
  BY <1>2, LastInChain, TagsAre DEF TopScope
<1>4. /\ i \in 1..Len(active.istack) /\ Len(active'.istack) = Len(active.istack)
      /\ closing' = [closing EXCEPT !.ended = closing.ended \cup {TopScope}, !.slot = i]
      /\ Kept(active, active')
  BY <1>1 DEF CrossedTo
<1>5. /\ i \in Nat /\ i # 0 /\ i \in 0..Len(active'.istack)
  BY <1>3, <1>4
<1>6. /\ closing' \in [tag : Tags \cup {"none"}, ended : SUBSET Nat, slot : Nat]
      /\ closing'.slot = i
  BY <1>2, <1>3, <1>4, <1>5 DEF ClosingOK
<1>7. ClosingOK'
  BY <1>2, <1>5, <1>6 DEF ClosingOK
<1> QED
  BY <1>2, <1>4, <1>7, Carried

LEMMA TidyNoneIInv ==
    ASSUME IInv, TidyNone
    PROVE  IInv'
<1>1. /\ stream' = stream /\ at' = at /\ at \in Nat \ {0} /\ ClosingOK /\ mode = "close"
      /\ mode' = "reopen" /\ ActiveOK(active) /\ active' = active /\ closing' = closing
      /\ active.chain = << >>
  BY DEF TidyNone, IInv
<1>2. closing.slot \in 0..Len(active.istack) /\ closing.slot # 0
  BY <1>1 DEF ClosingOK
<1>3. Len(active.istack) \in Nat
  BY <1>1, TagsAre
<1>4. closing.slot \in 1..(Len(active.istack) + 1)
  BY <1>2, <1>3
<1>5. ClosingOK'
  BY <1>1, <1>4 DEF ClosingOK
<1> QED
  BY <1>1, <1>5, KeptItself, Carried

\* What reopens is added to the open tags.
LEMMA ReopensTo ==
    ASSUME IInv, TidyReopen
    PROVE  /\ Kept(active, active')
           /\ StackTags(active') = StackTags(active)
           /\ TagsOf(active') = TagsOf(active) \o
                 SubSeq(StackTags(active), closing.slot, Len(StackTags(active)))
<1> DEFINE b == Reopened(active, closing.slot)
           ps == closing.ended \
                    {active.istack[i].position : i \in closing.slot..Len(active.istack)}
<1>1. ActiveOK(active) /\ closing.slot \in 1..(Len(active.istack) + 1)
  BY DEF TidyReopen, IInv, ClosingOK
<1>2. /\ Kept(active, b) /\ StackTags(b) = StackTags(active)
      /\ TagsOf(b) = TagsOf(active) \o
            SubSeq(StackTags(active), closing.slot, Len(StackTags(active)))
  <2> DEFINE from == closing.slot
  <2>1. from \in 1..(Len(active.istack) + 1)
    BY <1>1
  <2>2. /\ Kept(active, Reopened(active, from))
        /\ StackTags(Reopened(active, from)) = StackTags(active)
        /\ TagsOf(Reopened(active, from)) = TagsOf(active) \o
              SubSeq(StackTags(active), from, Len(StackTags(active)))
    <3> HIDE DEF from, ps
    <3> QED
      BY <1>1, <2>1, ReopenedIs
  <2> QED
    BY <2>2
<1>3. active' = NotedClose(b, ps)
  BY DEF TidyReopen
<1> HIDE DEF b, ps
<1>4. ActiveOK(b)
  BY <1>2 DEF Kept
<1>5. Kept(b, active') /\ TagsOf(active') = TagsOf(b) /\ StackTags(active') = StackTags(b)
  BY <1>3, <1>4, NotedIs
<1> QED
  BY <1>2, <1>5, KeptByBoth

LEMMA TidyReopenIInv ==
    ASSUME IInv, TidyReopen
    PROVE  IInv'
<1>1. /\ stream' = stream /\ at' = at /\ at \in Nat \ {0} /\ closing' = NotClosing
      /\ mode' = "read"
  BY DEF TidyReopen, IInv
<1>2. ClosingOK'
  BY <1>1 DEF ClosingOK, NotClosing
<1> QED
  BY <1>1, <1>2, ReopensTo, Carried

LEMMA NextIInv == IInv /\ [ScopesNext]_scopesVars => IInv'
<1> SUFFICES ASSUME IInv, [ScopesNext]_scopesVars PROVE IInv'
  OBVIOUS
<1>1. CASE OpenScope
  BY <1>1, OpenScopeIInv
<1>2. CASE CloseAsText \/ CloseScope \/ CloseSpan \/ CloseAnchorScope
  BY <1>2, CloserIInv
<1>3. CASE Collect \/ KeepWhole \/ StartParagraph \/ StartInner \/ EnterBlock \/ LeaveBlock
  BY <1>3, ElementIInv
<1>4. CASE TidyLast
  BY <1>4, TidyLastIInv
<1>5. CASE TidyCrossed
  BY <1>5, TidyCrossedIInv
<1>6. CASE TidyNone
  BY <1>6, TidyNoneIInv
<1>7. CASE TidyReopen
  BY <1>7, TidyReopenIInv
<1>8. CASE UNCHANGED scopesVars
  BY <1>8 DEF scopesVars, IInv, ActiveOK, ClosingOK, NoAnchors, Plain
<1> QED
  BY <1>1, <1>2, <1>3, <1>4, <1>5, <1>6, <1>7, <1>8 DEF ScopesNext

\* The open scopes, the stack and the slot of a close stay in order, for any markers.
THEOREM Invariance == ScopesSpec => []IInv
  BY InitIInv, NextIInv, PTL DEF ScopesSpec

\* Nothing is open twice and no tag is on the stack twice, however scopes close, change
\* places and reopen (ActiveScopes).
THEOREM OnceEach == ScopesSpec => []NoneTwice
<1>1. IInv => NoneTwice
  <2> SUFFICES ASSUME IInv PROVE NoneTwice
    OBVIOUS
  <2>1. /\ Len(active.chain) \in Nat /\ DOMAIN active.istack = 1..Len(active.istack)
        /\ \A i \in 1..Len(active.istack) :
              StackTags(active)[i] = TagOf[active.istack[i].class]
    BY TagsAre DEF IInv
  <2>2. \A i \in 2..Len(active.chain) :
           i - 1 \in 1..Len(active.chain) /\ i \in 1..Len(active.chain) /\ i - 1 < i
    BY <2>1
  <2> QED
    BY <2>1, <2>2 DEF IInv, ActiveOK, NoneTwice
<1> QED
  BY <1>1, Invariance, PTL

-----------------------------------------------------------------------------
(* The pairs *)

Opener  == [ordinal : Nat, accepted : BOOLEAN]
Partners == [class : Classes, open : Nat, close : Nat]

\* This opener waits; it waits and counts.
Waits(p, o) ==
    \E c \in Classes : \E i \in 1..Len(p.queues[c]) : p.queues[c][i].ordinal = o
Counts(p) ==
    {o \in 1..(p.ordinal - 1) :
        \E c \in Classes : \E i \in 1..Len(p.queues[c]) :
            p.queues[c][i].ordinal = o /\ p.queues[c][i].accepted = TRUE}

OpenerOf(ms, o, c) == ms[o].op = "open" /\ ms[o].class = c

\* An opener waits once, in the queue of its class.
QueuesOK(p, ms) ==
    /\ p.queues \in [Classes -> Seq(Opener)]
    /\ \A c \in Classes : \A i \in 1..Len(p.queues[c]) :
          /\ p.queues[c][i].ordinal \in 1..(p.ordinal - 1)
          /\ OpenerOf(ms, p.queues[c][i].ordinal, c)
          /\ \A j \in 1..Len(p.queues[c]) :
                p.queues[c][j].ordinal = p.queues[c][i].ordinal => j = i

\* The pairs that a closer of the source may still break.
WeakOK(p, ms) ==
    /\ p.weak \in Seq(Partners)
    /\ \A i \in 1..Len(p.weak) :
          /\ p.weak[i].close \in 1..(p.ordinal - 1)
          /\ p.weak[i].open \in 1..(p.weak[i].close - 1)
          /\ OpenerOf(ms, p.weak[i].open, p.weak[i].class)
          /\ ms[p.weak[i].close].op = "synth"
          /\ ms[p.weak[i].close].class = p.weak[i].class
          /\ ~Waits(p, p.weak[i].open)
          /\ \A j \in 1..Len(p.weak) :
                (p.weak[j].open = p.weak[i].open \/ p.weak[j].close = p.weak[i].close)
                => j = i

PairsOK(p, ms) ==
    /\ p.valid = DOMAIN p.pairs \cup {p.pairs[x] : x \in DOMAIN p.pairs}
    /\ \A x \in DOMAIN p.pairs :
          /\ x \in 1..(p.ordinal - 1)
          /\ p.pairs[x] \in 1..(x - 1)
          /\ ms[p.pairs[x]].op = "open" /\ ms[x].op # "open"
          /\ ms[x].class = ms[p.pairs[x]].class
          /\ ~Waits(p, p.pairs[x])
          /\ \A y \in DOMAIN p.pairs : p.pairs[y] = p.pairs[x] => y = x
          /\ \A i \in 1..Len(p.weak) : p.weak[i].open # p.pairs[x] /\ p.weak[i].close # x

CountOK(p) ==
    /\ p.count = Cardinality(Counts(p))
    /\ p.count <= MaxScopes

\* What was open behind the n-th marker and counted: openers that have their closers
\* now, and openers that still wait.
Over(p, n) ==
    {p.pairs[x] : x \in {y \in DOMAIN p.pairs : p.pairs[y] <= n /\ n < y}}
        \cup {o \in Counts(p) : o <= n}

FromSource(p, ms) == \A i \in 1..(p.ordinal - 1) : ms[i].op # "synth"

CapOK(p, ms) ==
    FromSource(p, ms) =>
        /\ p.weak = << >>
        /\ \A n \in 1..(p.ordinal - 1) : Cardinality(Over(p, n)) <= MaxScopes

Parts == {"queues", "count", "ordinal", "valid", "pairs", "weak"}

PendingOK(p, ms) ==
    /\ DOMAIN p = Parts
    /\ p.ordinal \in Nat \ {0}
    /\ QueuesOK(p, ms) /\ WeakOK(p, ms) /\ PairsOK(p, ms) /\ CountOK(p) /\ CapOK(p, ms)

LEMMA CountsFinite ==
    ASSUME NEW p, p.ordinal \in Nat \ {0}
    PROVE  IsFiniteSet(Counts(p)) /\ Cardinality(Counts(p)) \in Nat
<1>1. IsFiniteSet(1..(p.ordinal - 1))
  <2>1. 1 \in Int /\ p.ordinal - 1 \in Int
    OBVIOUS
  <2> QED
    BY <2>1, FS_Interval
<1>2. Counts(p) \in SUBSET (1..(p.ordinal - 1))
  BY DEF Counts
<1>3. IsFiniteSet(Counts(p))
  BY <1>1, <1>2, FS_Subset
<1> QED
  BY <1>3, FS_CardinalityType

\* A marker adds to what is open behind it only.
LEMMA CapStays ==
    ASSUME NEW ms, NEW p, PendingOK(p, ms),
           NEW q, q.ordinal = p.ordinal + 1, CountOK(q),
           Counts(q) \subseteq Counts(p) \cup {p.ordinal},
           ms[p.ordinal].op # "synth" /\ p.weak = << >> =>
              /\ q.weak = << >>
              /\ \A x \in DOMAIN q.pairs :
                    \/ x \in DOMAIN p.pairs /\ q.pairs[x] = p.pairs[x]
                    \/ x = p.ordinal /\ q.pairs[x] \in Counts(p)
    PROVE  CapOK(q, ms)
<1> SUFFICES ASSUME FromSource(q, ms)
             PROVE  /\ q.weak = << >>
                    /\ \A n \in 1..(q.ordinal - 1) : Cardinality(Over(q, n)) <= MaxScopes
  BY DEF CapOK
<1> DEFINE z == p.ordinal
<1>1. z \in Nat /\ z # 0 /\ q.ordinal = z + 1 /\ z \in 1..(q.ordinal - 1)
  BY DEF PendingOK
<1>2. FromSource(p, ms) /\ ms[z].op # "synth"
  <2>1. \A i \in 1..(z - 1) : i \in 1..(q.ordinal - 1)
    BY <1>1
  <2> QED
    BY <1>1, <2>1 DEF FromSource
<1>3. p.weak = << >> /\ \A n \in 1..(z - 1) : Cardinality(Over(p, n)) <= MaxScopes
  BY <1>2 DEF PendingOK, CapOK
<1>4. /\ q.weak = << >>
      /\ \A x \in DOMAIN q.pairs :
            \/ x \in DOMAIN p.pairs /\ q.pairs[x] = p.pairs[x]
            \/ x = z /\ q.pairs[x] \in Counts(p)
  BY <1>2, <1>3
<1>5. \A x \in DOMAIN p.pairs : x \in Nat /\ x < z /\ p.pairs[x] \in Nat
  <2>1. \A x \in DOMAIN p.pairs : x \in 1..(z - 1) /\ p.pairs[x] \in 1..(x - 1)
    BY DEF PendingOK, PairsOK
  <2> QED
    BY <1>1, <2>1
<1>6. \A o \in Counts(p) : o \in Nat /\ o < z
  BY <1>1 DEF Counts
<1>7. MaxScopes \in Nat
  BY InlineScopesAssumption
<1> HIDE DEF z
<1>8. ASSUME NEW n \in 1..(z - 1) PROVE Cardinality(Over(q, n)) <= MaxScopes
  <2>1. n \in Nat /\ n < z
    BY <1>1
  <2>2. Over(q, n) \subseteq Over(p, n)
    <3> SUFFICES ASSUME NEW o \in Over(q, n) PROVE o \in Over(p, n)
      OBVIOUS
    <3>1. CASE o \in Counts(q) /\ o <= n
      <4>1. o # z
        BY <1>1, <2>1, <3>1
      <4>2. o \in Counts(p)
        BY <3>1, <4>1 DEF z
      <4> QED
        BY <3>1, <4>2 DEF Over
    <3>2. CASE \E x \in DOMAIN q.pairs : o = q.pairs[x] /\ o <= n /\ n < x
      <4>1. PICK x \in DOMAIN q.pairs : o = q.pairs[x] /\ o <= n /\ n < x
        BY <3>2
      <4>2. CASE x \in DOMAIN p.pairs /\ q.pairs[x] = p.pairs[x]
        BY <4>1, <4>2 DEF Over
      <4>3. CASE q.pairs[x] \in Counts(p)
        BY <4>1, <4>3 DEF Over
      <4> QED
        BY <1>4, <4>1, <4>2, <4>3
    <3> QED
      BY <3>1, <3>2 DEF Over
  <2>3. \A o \in Over(p, n) : o \in 1..n
    <3>1. \A o \in Counts(p) : o \in 1..(z - 1)
      BY DEF Counts, z
    <3>2. \A x \in DOMAIN p.pairs : p.pairs[x] \in 1..(x - 1) /\ x \in 1..(z - 1)
      BY DEF PendingOK, PairsOK, z
    <3>3. \A o \in Over(p, n) : o \in Nat /\ 1 <= o /\ o <= n
      BY <3>1, <3>2, <1>1 DEF Over
    <3> QED
      BY <3>3, <2>1
  <2>4. IsFiniteSet(Over(p, n))
    <3>1. IsFiniteSet(1..n)
      BY FS_Interval, <2>1
    <3> QED
      BY <2>3, <3>1, FS_Subset
  <2>5. Cardinality(Over(q, n)) <= Cardinality(Over(p, n)) /\ IsFiniteSet(Over(q, n))
    BY <2>2, <2>4, FS_Subset
  <2>6. Cardinality(Over(q, n)) \in Nat /\ Cardinality(Over(p, n)) \in Nat
    BY <2>4, <2>5, FS_CardinalityType
  <2>7. Cardinality(Over(p, n)) <= MaxScopes
    BY <1>3
  <2> QED
    BY <1>7, <2>5, <2>6, <2>7
<1>9. Cardinality(Over(q, z)) <= MaxScopes
  <2>1. \A x \in DOMAIN q.pairs : ~(z < x)
    BY <1>1, <1>4, <1>5
  <2>2. Over(q, z) \subseteq Counts(q)
    BY <2>1 DEF Over
  <2>3. IsFiniteSet(Counts(q)) /\ Cardinality(Counts(q)) \in Nat
    BY <1>1, CountsFinite
  <2>4. Cardinality(Over(q, z)) <= Cardinality(Counts(q)) /\ IsFiniteSet(Over(q, z))
    BY <2>2, <2>3, FS_Subset
  <2>5. Cardinality(Over(q, z)) \in Nat
    BY <2>4, FS_CardinalityType
  <2>6. Cardinality(Counts(q)) <= MaxScopes
    BY DEF CountOK
  <2> QED
    BY <1>7, <2>3, <2>4, <2>5, <2>6
<1>10. \A n \in 1..(q.ordinal - 1) : n = z \/ n \in 1..(z - 1)
  BY <1>1
<1> QED
  BY <1>4, <1>8, <1>9, <1>10

\* A pending state without its queues and their count.
Rest(p, ms) ==
    /\ DOMAIN p = Parts
    /\ p.ordinal \in Nat \ {0}
    /\ WeakOK(p, ms) /\ PairsOK(p, ms)

\* What is paired and has nothing new waiting stays paired.
LEMMA RestStays ==
    ASSUME NEW ms, NEW p, Rest(p, ms),
           NEW q, DOMAIN q = Parts, q.ordinal = p.ordinal + 1,
           q.weak = p.weak, q.pairs = p.pairs, q.valid = p.valid,
           \A o : Waits(q, o) => Waits(p, o) \/ o = p.ordinal
    PROVE  Rest(q, ms)
<1> DEFINE z == p.ordinal
<1>1. z \in Nat /\ z # 0 /\ q.ordinal = z + 1
  BY DEF Rest
<1>2. \A i \in 1..Len(p.weak) :
         /\ p.weak[i].close \in 1..(z - 1) /\ p.weak[i].open \in 1..(p.weak[i].close - 1)
         /\ ~Waits(p, p.weak[i].open)
  BY DEF Rest, WeakOK
<1>3. \A x \in DOMAIN p.pairs :
         x \in 1..(z - 1) /\ p.pairs[x] \in 1..(x - 1) /\ ~Waits(p, p.pairs[x])
  BY DEF Rest, PairsOK
<1>4. \A o : Waits(q, o) => Waits(p, o) \/ o = z
  OBVIOUS
<1> HIDE DEF z
<1>5. \A i \in 1..Len(p.weak) :
         p.weak[i].close \in 1..(q.ordinal - 1) /\ ~Waits(q, p.weak[i].open)
  <2> SUFFICES ASSUME NEW i \in 1..Len(p.weak)
               PROVE  p.weak[i].close \in 1..(q.ordinal - 1) /\ ~Waits(q, p.weak[i].open)
    OBVIOUS
  <2>1. /\ p.weak[i].close \in 1..(z - 1) /\ p.weak[i].open \in 1..(p.weak[i].close - 1)
        /\ ~Waits(p, p.weak[i].open)
    BY <1>2
  <2>2. p.weak[i].open # z /\ p.weak[i].close \in 1..(q.ordinal - 1)
    BY <1>1, <2>1
  <2> QED
    BY <1>4, <2>1, <2>2
<1>6. \A x \in DOMAIN p.pairs : x \in 1..(q.ordinal - 1) /\ ~Waits(q, p.pairs[x])
  <2> SUFFICES ASSUME NEW x \in DOMAIN p.pairs
               PROVE  x \in 1..(q.ordinal - 1) /\ ~Waits(q, p.pairs[x])
    OBVIOUS
  <2>1. x \in 1..(z - 1) /\ p.pairs[x] \in 1..(x - 1) /\ ~Waits(p, p.pairs[x])
    BY <1>3
  <2>2. p.pairs[x] # z /\ x \in 1..(q.ordinal - 1)
    BY <1>1, <2>1
  <2> QED
    BY <1>4, <2>1, <2>2
<1>7. WeakOK(q, ms)
  BY <1>5 DEF Rest, WeakOK
<1>8. PairsOK(q, ms)
  BY <1>6 DEF Rest, PairsOK
<1> QED
  BY <1>1, <1>7, <1>8 DEF Rest

\* An opener and the marker at hand become a pair.
LEMMA RestPaired ==
    ASSUME NEW ms, NEW p, Rest(p, ms), NEW o, NEW c,
           o \in 1..(p.ordinal - 1), OpenerOf(ms, o, c),
           ms[p.ordinal].op # "open", ms[p.ordinal].class = c,
           \A x \in DOMAIN p.pairs : p.pairs[x] # o,
           \A i \in 1..Len(p.weak) : p.weak[i].open # o,
           NEW q, DOMAIN q = Parts, q.ordinal = p.ordinal + 1, q.weak = p.weak,
           q.pairs = [x \in DOMAIN p.pairs \cup {p.ordinal} |->
                         IF x = p.ordinal THEN o ELSE p.pairs[x]],
           q.valid = p.valid \cup {o, p.ordinal},
           ~Waits(q, o), \A u : Waits(q, u) => Waits(p, u)
    PROVE  Rest(q, ms)
<1> DEFINE z == p.ordinal
<1>1. /\ z \in Nat /\ z # 0 /\ q.ordinal = z + 1 /\ o \in 1..(z - 1)
      /\ z \in 1..(q.ordinal - 1)
  BY DEF Rest
<1>2. \A i \in 1..Len(p.weak) :
         /\ p.weak[i].close \in 1..(z - 1)
         /\ ~Waits(p, p.weak[i].open)
  BY DEF Rest, WeakOK
<1>3. \A x \in DOMAIN p.pairs :
         x \in 1..(z - 1) /\ ~Waits(p, p.pairs[x])
  BY DEF Rest, PairsOK
<1>4. /\ DOMAIN q.pairs = DOMAIN p.pairs \cup {z} /\ q.pairs[z] = o
      /\ \A x \in DOMAIN p.pairs : x # z /\ q.pairs[x] = p.pairs[x]
  BY <1>1, <1>3
<1>5. ms[z].op # "open" /\ ms[z].class = c /\ q.valid = p.valid \cup {o, z}
  OBVIOUS
<1> HIDE DEF z
<1>6. WeakOK(q, ms)
  <2>1. \A i \in 1..Len(p.weak) :
           p.weak[i].close \in 1..(q.ordinal - 1) /\ ~Waits(q, p.weak[i].open)
    BY <1>1, <1>2
  <2> QED
    BY <2>1 DEF Rest, WeakOK
<1>7. q.valid = DOMAIN q.pairs \cup {q.pairs[x] : x \in DOMAIN q.pairs}
  <2>1. p.valid = DOMAIN p.pairs \cup {p.pairs[x] : x \in DOMAIN p.pairs}
    BY DEF Rest, PairsOK
  <2>2. {q.pairs[x] : x \in DOMAIN q.pairs} = {p.pairs[x] : x \in DOMAIN p.pairs} \cup {o}
    <3>1. ASSUME NEW u, u \in {q.pairs[x] : x \in DOMAIN q.pairs}
          PROVE  u \in {p.pairs[x] : x \in DOMAIN p.pairs} \cup {o}
      BY ONLY <1>4, <3>1
    <3>2. ASSUME NEW u, u \in {p.pairs[x] : x \in DOMAIN p.pairs} \cup {o}
          PROVE  u \in {q.pairs[x] : x \in DOMAIN q.pairs}
      BY ONLY <1>4, <3>2
    <3> QED
      BY ONLY <3>1, <3>2
  <2> QED
    BY <1>4, <1>5, <2>1, <2>2
<1>8. ASSUME NEW x \in DOMAIN q.pairs
      PROVE  /\ x \in 1..(q.ordinal - 1)
             /\ q.pairs[x] \in 1..(x - 1)
             /\ ms[q.pairs[x]].op = "open" /\ ms[x].op # "open"
             /\ ms[x].class = ms[q.pairs[x]].class
             /\ ~Waits(q, q.pairs[x])
             /\ \A y \in DOMAIN q.pairs : q.pairs[y] = q.pairs[x] => y = x
             /\ \A i \in 1..Len(q.weak) : q.weak[i].open # q.pairs[x] /\ q.weak[i].close # x
  <2>1. CASE x = z
    <3>1. \A y \in DOMAIN q.pairs : q.pairs[y] = q.pairs[x] => y = x
      BY <1>4, <2>1
    <3>2. \A i \in 1..Len(q.weak) : q.weak[i].open # q.pairs[x] /\ q.weak[i].close # x
      <4>1. \A i \in 1..Len(p.weak) : p.weak[i].close # z
        BY <1>1, <1>2
      <4> QED
        BY <1>4, <2>1, <4>1
    <3> QED
      BY <1>1, <1>4, <1>5, <2>1, <3>1, <3>2 DEF OpenerOf
  <2>2. CASE x \in DOMAIN p.pairs
    <3>1. /\ x \in 1..(z - 1) /\ p.pairs[x] \in 1..(x - 1)
          /\ ms[p.pairs[x]].op = "open" /\ ms[x].op # "open"
          /\ ms[x].class = ms[p.pairs[x]].class
          /\ ~Waits(p, p.pairs[x])
          /\ \A y \in DOMAIN p.pairs : p.pairs[y] = p.pairs[x] => y = x
          /\ \A i \in 1..Len(p.weak) : p.weak[i].open # p.pairs[x] /\ p.weak[i].close # x
      BY <2>2 DEF Rest, PairsOK, z
    <3>2. q.pairs[x] = p.pairs[x] /\ p.pairs[x] # o /\ x \in 1..(q.ordinal - 1)
      BY <1>1, <1>4, <2>2, <3>1
    <3>3. \A y \in DOMAIN q.pairs : q.pairs[y] = q.pairs[x] => y = x
      BY <1>4, <3>1, <3>2
    <3> QED
      BY <3>1, <3>2, <3>3
  <2> QED
    BY <1>4, <2>1, <2>2
<1>9. PairsOK(q, ms)
  BY <1>7, <1>8 DEF PairsOK
<1> QED
  BY <1>1, <1>6, <1>9 DEF Rest

\* An opener and a closer that is not in the source.
LEMMA RestWeak ==
    ASSUME NEW ms, NEW p, Rest(p, ms), NEW o \in Nat, NEW c \in Classes,
           o \in 1..(p.ordinal - 1), OpenerOf(ms, o, c),
           ms[p.ordinal].op = "synth", ms[p.ordinal].class = c,
           \A x \in DOMAIN p.pairs : p.pairs[x] # o,
           \A i \in 1..Len(p.weak) : p.weak[i].open # o,
           NEW q, DOMAIN q = Parts, q.ordinal = p.ordinal + 1,
           q.weak = Append(p.weak, [class |-> c, open |-> o, close |-> p.ordinal]),
           q.pairs = p.pairs, q.valid = p.valid,
           ~Waits(q, o), \A u : Waits(q, u) => Waits(p, u)
    PROVE  Rest(q, ms)
<1> DEFINE z == p.ordinal
           n == Len(p.weak)
           w == [class |-> c, open |-> o, close |-> z]
<1>1. /\ z \in Nat /\ z # 0 /\ q.ordinal = z + 1 /\ o \in 1..(z - 1)
      /\ z \in 1..(q.ordinal - 1)
  BY DEF Rest
<1>2. p.weak \in Seq(Partners) /\ n \in Nat
  <2>1. p.weak \in Seq(Partners)
    BY DEF Rest, WeakOK
  <2> QED
    BY <2>1, LenProperties
<1>3. w \in Partners /\ w.class = c /\ w.open = o /\ w.close = z
  BY <1>1 DEF Partners
<1>4. q.weak = Append(p.weak, w)
  OBVIOUS
<1>5. ms[z].op = "synth" /\ ms[z].class = c
  OBVIOUS
<1>6. \A i \in 1..n :
         /\ p.weak[i].close \in 1..(z - 1) /\ p.weak[i].open \in 1..(p.weak[i].close - 1)
         /\ OpenerOf(ms, p.weak[i].open, p.weak[i].class)
         /\ ms[p.weak[i].close].op = "synth" /\ ms[p.weak[i].close].class = p.weak[i].class
         /\ ~Waits(p, p.weak[i].open)
         /\ \A j \in 1..n :
               (p.weak[j].open = p.weak[i].open \/ p.weak[j].close = p.weak[i].close)
               => j = i
  BY DEF Rest, WeakOK
<1> HIDE DEF w
<1>7. /\ q.weak \in Seq(Partners) /\ Len(q.weak) = n + 1 /\ q.weak[n + 1] = w
      /\ \A i \in 1..n : q.weak[i] = p.weak[i]
  BY <1>2, <1>3, <1>4, AppendProperties
<1>8. \A i \in 1..(n + 1) : i = n + 1 \/ i \in 1..n
  BY <1>2
<1> HIDE DEF z, n
<1>9. \A i \in 1..n : /\ p.weak[i].close # z /\ p.weak[i].close \in 1..(q.ordinal - 1)
                      /\ p.weak[i].open # o /\ ~Waits(q, p.weak[i].open)
  <2> SUFFICES ASSUME NEW i \in 1..n
               PROVE  /\ p.weak[i].close # z /\ p.weak[i].close \in 1..(q.ordinal - 1)
                      /\ p.weak[i].open # o /\ ~Waits(q, p.weak[i].open)
    OBVIOUS
  <2>1. p.weak[i].close \in 1..(z - 1) /\ ~Waits(p, p.weak[i].open)
    BY <1>6
  <2>2. p.weak[i].open # o
    BY DEF n
  <2> QED
    BY <1>1, <2>1, <2>2
<1>10. ~Waits(q, o)
  OBVIOUS
<1>11. ASSUME NEW i \in 1..Len(q.weak)
       PROVE  /\ q.weak[i].close \in 1..(q.ordinal - 1)
              /\ q.weak[i].open \in 1..(q.weak[i].close - 1)
              /\ OpenerOf(ms, q.weak[i].open, q.weak[i].class)
              /\ ms[q.weak[i].close].op = "synth"
              /\ ms[q.weak[i].close].class = q.weak[i].class
              /\ ~Waits(q, q.weak[i].open)
              /\ \A j \in 1..Len(q.weak) :
                    (q.weak[j].open = q.weak[i].open \/ q.weak[j].close = q.weak[i].close)
                    => j = i
  <2>1. CASE i = n + 1
    <3>1. q.weak[i] = w
      BY <1>7, <2>1
    <3>2. \A j \in 1..Len(q.weak) :
             (q.weak[j].open = q.weak[i].open \/ q.weak[j].close = q.weak[i].close) => j = i
      BY <1>3, <1>7, <1>8, <1>9, <2>1, <3>1
    <3> QED
      BY <1>1, <1>3, <1>5, <1>10, <3>1, <3>2
  <2>2. CASE i \in 1..n
    <3>1. q.weak[i] = p.weak[i]
      BY <1>7, <2>2
    <3>2. \A j \in 1..Len(q.weak) :
             (q.weak[j].open = q.weak[i].open \/ q.weak[j].close = q.weak[i].close) => j = i
      <4> SUFFICES ASSUME NEW j \in 1..Len(q.weak),
                          q.weak[j].open = q.weak[i].open \/ q.weak[j].close = q.weak[i].close
                   PROVE  j = i
        OBVIOUS
      <4>1. CASE j = n + 1
        BY <1>3, <1>7, <1>9, <2>2, <3>1, <4>1
      <4>2. CASE j \in 1..n
        BY <1>6, <1>7, <2>2, <3>1, <4>2
      <4> QED
        BY <1>7, <1>8, <4>1, <4>2
    <3> QED
      BY <1>6, <1>9, <2>2, <3>1, <3>2
  <2> QED
    BY <1>7, <1>8, <2>1, <2>2
<1>12. WeakOK(q, ms)
  BY <1>7, <1>11 DEF WeakOK
<1>13. PairsOK(q, ms)
  <2>1. ASSUME NEW x \in DOMAIN p.pairs
        PROVE  /\ x \in 1..(q.ordinal - 1) /\ ~Waits(q, p.pairs[x])
               /\ \A i \in 1..Len(q.weak) : q.weak[i].open # p.pairs[x] /\ q.weak[i].close # x
    <3>1. /\ x \in 1..(z - 1) /\ ~Waits(p, p.pairs[x]) /\ p.pairs[x] # o
          /\ \A i \in 1..n : p.weak[i].open # p.pairs[x] /\ p.weak[i].close # x
      BY DEF Rest, PairsOK, z, n
    <3>2. x # z /\ x \in 1..(q.ordinal - 1)
      BY <1>1, <3>1
    <3>3. \A i \in 1..Len(q.weak) : q.weak[i].open # p.pairs[x] /\ q.weak[i].close # x
      BY <1>3, <1>7, <1>8, <3>1, <3>2
    <3> QED
      BY <3>1, <3>2, <3>3
  <2> QED
    BY <2>1 DEF Rest, PairsOK
<1> QED
  BY <1>1, <1>12, <1>13 DEF Rest

\* What is picked keeps what the places say.
LEMMA PickedAre ==
    ASSUME NEW S, NEW s \in Seq(S), NEW is \in SUBSET (1..Len(s))
    PROVE  /\ Picked(s, is) \in Seq(S)
           /\ \E f : /\ SelectedBy(Picked(s, is), s, f)
                    /\ \A k \in 1..Len(Picked(s, is)) : f[k] \in is
<1> DEFINE n == Cardinality(is)
           f == [k \in 1..n |-> Place(is, k)]
           t == Picked(s, is)
<1>1. is \in SUBSET Nat /\ IsFiniteSet(is)
  <2>1. Len(s) \in Nat
    BY LenProperties
  <2>2. IsFiniteSet(1..Len(s))
    BY <2>1, FS_Interval
  <2>3. IsFiniteSet(is)
    BY <2>2, FS_Subset
  <2> QED
    BY <2>1, <2>3
<1>2. /\ n \in Nat
      /\ \A k \in 1..n : Place(is, k) \in is
      /\ \A k, m \in 1..n : k < m => Place(is, k) < Place(is, m)
  BY <1>1, Places
<1>3. /\ t \in Seq(S) /\ Len(t) = n /\ \A k \in 1..n : t[k] = s[Place(is, k)]
  <2>1. t = [k \in 1..n |-> s[Place(is, k)]]
    BY DEF Picked
  <2>2. \A k \in 1..n : s[Place(is, k)] \in S
    BY <1>2, ElementOfSeq
  <2> HIDE DEF n, t
  <2>3. t \in [1..n -> S]
    BY <2>1, <2>2
  <2>4. t \in Seq(S) /\ Len(t) = n
    BY <1>2, <2>3
  <2> QED
    BY <2>1, <2>4
<1>4. \A k \in 1..n : f[k] = Place(is, k)
  OBVIOUS
<1> HIDE DEF f, n, t
<1>5. SelectedBy(t, s, f) /\ \A k \in 1..Len(t) : f[k] \in is
  BY <1>2, <1>3, <1>4 DEF SelectedBy
<1> QED
  BY <1>3, <1>5 DEF t

\* Some pairs that may be broken are gone.
LEMMA RestFewer ==
    ASSUME NEW ms, NEW p, Rest(p, ms),
           NEW r, DOMAIN r = Parts, r.ordinal = p.ordinal, r.pairs = p.pairs,
           r.valid = p.valid, r.queues = p.queues,
           r.weak \in Seq(Partners), NEW f, SelectedBy(r.weak, p.weak, f)
    PROVE  Rest(r, ms)
<1>1. p.weak \in Seq(Partners)
  BY DEF Rest, WeakOK
<1>5. \A o : Waits(r, o) <=> Waits(p, o)
  BY DEF Waits
<1>6. \A k \in 1..Len(r.weak) :
         f[k] \in 1..Len(p.weak) /\ r.weak[k] = p.weak[f[k]]
  BY DEF SelectedBy
<1>7. \A k, m \in 1..Len(r.weak) : f[k] = f[m] => k = m
  <2>1. \A k, m \in 1..Len(r.weak) : k < m => f[k] < f[m]
    BY DEF SelectedBy
  <2>2. Len(r.weak) \in Nat /\ Len(p.weak) \in Nat
    BY <1>1, LenProperties
  <2>3. \A k \in 1..Len(r.weak) : f[k] \in Nat
    BY <1>6, <2>2
  <2> QED
    BY <2>1, <2>2, <2>3
<1>8. \A k \in 1..Len(p.weak) :
         /\ p.weak[k].close \in 1..(p.ordinal - 1)
         /\ p.weak[k].open \in 1..(p.weak[k].close - 1)
         /\ OpenerOf(ms, p.weak[k].open, p.weak[k].class)
         /\ ms[p.weak[k].close].op = "synth"
         /\ ms[p.weak[k].close].class = p.weak[k].class
         /\ ~Waits(p, p.weak[k].open)
         /\ \A j \in 1..Len(p.weak) :
               (p.weak[j].open = p.weak[k].open \/ p.weak[j].close = p.weak[k].close) => j = k
  BY DEF Rest, WeakOK
<1>9. ASSUME NEW k \in 1..Len(r.weak)
      PROVE  /\ r.weak[k].close \in 1..(r.ordinal - 1)
             /\ r.weak[k].open \in 1..(r.weak[k].close - 1)
             /\ OpenerOf(ms, r.weak[k].open, r.weak[k].class)
             /\ ms[r.weak[k].close].op = "synth"
             /\ ms[r.weak[k].close].class = r.weak[k].class
             /\ ~Waits(r, r.weak[k].open)
             /\ \A j \in 1..Len(r.weak) :
                   (r.weak[j].open = r.weak[k].open \/ r.weak[j].close = r.weak[k].close)
                   => j = k
  <2>1. f[k] \in 1..Len(p.weak) /\ r.weak[k] = p.weak[f[k]]
    BY <1>6
  <2>2. \A j \in 1..Len(r.weak) :
           (r.weak[j].open = r.weak[k].open \/ r.weak[j].close = r.weak[k].close) => j = k
    <3> SUFFICES ASSUME NEW j \in 1..Len(r.weak),
                        r.weak[j].open = r.weak[k].open \/ r.weak[j].close = r.weak[k].close
                 PROVE  j = k
      OBVIOUS
    <3>1. f[j] \in 1..Len(p.weak) /\ r.weak[j] = p.weak[f[j]]
      BY <1>6
    <3>2. f[j] = f[k]
      BY <1>8, <2>1, <3>1
    <3> QED
      BY <1>7, <3>2
  <2>3. /\ p.weak[f[k]].close \in 1..(p.ordinal - 1)
        /\ p.weak[f[k]].open \in 1..(p.weak[f[k]].close - 1)
        /\ OpenerOf(ms, p.weak[f[k]].open, p.weak[f[k]].class)
        /\ ms[p.weak[f[k]].close].op = "synth"
        /\ ms[p.weak[f[k]].close].class = p.weak[f[k]].class
        /\ ~Waits(p, p.weak[f[k]].open)
    BY <1>8, <2>1
  <2> QED
    BY <1>5, <2>1, <2>2, <2>3
<1>10. WeakOK(r, ms)
  BY <1>1, <1>9 DEF WeakOK
<1>11. PairsOK(r, ms)
  <2>1. PairsOK(p, ms)
    BY DEF Rest
  <2>2. \A x \in DOMAIN p.pairs : \A k \in 1..Len(p.weak) :
           p.weak[k].open # p.pairs[x] /\ p.weak[k].close # x
    BY <2>1 DEF PairsOK
  <2>3. \A x \in DOMAIN p.pairs : \A k \in 1..Len(r.weak) :
           r.weak[k].open # p.pairs[x] /\ r.weak[k].close # x
    BY <1>6, <2>2
  <2>4. \A x \in DOMAIN p.pairs :
           /\ x \in 1..(p.ordinal - 1)
           /\ p.pairs[x] \in 1..(x - 1)
           /\ ms[p.pairs[x]].op = "open" /\ ms[x].op # "open"
           /\ ms[x].class = ms[p.pairs[x]].class
           /\ ~Waits(p, p.pairs[x])
           /\ \A y \in DOMAIN p.pairs : p.pairs[y] = p.pairs[x] => y = x
    BY <2>1 DEF PairsOK
  <2>5. r.valid = DOMAIN r.pairs \cup {r.pairs[x] : x \in DOMAIN r.pairs}
    BY <2>1 DEF PairsOK
  <2>6. \A x \in DOMAIN r.pairs : ~Waits(r, r.pairs[x])
    BY <1>5, <2>4
  <2> QED
    BY <2>3, <2>4, <2>5, <2>6 DEF PairsOK
<1> QED
  BY <1>10, <1>11 DEF Rest

Broken(p, r, i) ==
    /\ i \in 1..Len(p.weak) /\ DOMAIN r = Parts
    /\ r.ordinal = p.ordinal /\ r.pairs = p.pairs /\ r.valid = p.valid
    /\ r.queues = p.queues
    /\ r.weak = Picked(p.weak, DOMAIN p.weak \ {i})

\* A pair that may be broken is.
LEMMA RestBroken ==
    ASSUME NEW ms, NEW p, Rest(p, ms), NEW r, NEW i, Broken(p, r, i)
    PROVE  Rest(r, ms) /\ \A k \in 1..Len(r.weak) : r.weak[k].open # p.weak[i].open
<1> DEFINE is == DOMAIN p.weak \ {i}
<1>0. /\ i \in 1..Len(p.weak) /\ DOMAIN r = Parts
      /\ r.ordinal = p.ordinal /\ r.pairs = p.pairs /\ r.valid = p.valid
      /\ r.queues = p.queues
  BY DEF Broken
<1>1. p.weak \in Seq(Partners) /\ is \in SUBSET (1..Len(p.weak))
  <2>1. p.weak \in Seq(Partners)
    BY DEF Rest, WeakOK
  <2>2. DOMAIN p.weak = 1..Len(p.weak)
    BY <2>1, LenProperties
  <2> QED
    BY <2>1, <2>2
<1>2. i \notin is /\ r.weak = Picked(p.weak, is)
  BY DEF Broken
<1> HIDE DEF is
<1>3. /\ r.weak \in Seq(Partners)
      /\ \E f : SelectedBy(r.weak, p.weak, f) /\ \A k \in 1..Len(r.weak) : f[k] \in is
  <2> DEFINE t == Picked(p.weak, is)
  <2>1. /\ t \in Seq(Partners)
        /\ \E f : SelectedBy(t, p.weak, f) /\ \A k \in 1..Len(t) : f[k] \in is
    BY ONLY <1>1, PickedAre
  <2> HIDE DEF t
  <2>2. r.weak = t
    BY <1>2 DEF t
  <2> QED
    BY ONLY <2>1, <2>2
<1>4. PICK f : SelectedBy(r.weak, p.weak, f) /\ \A k \in 1..Len(r.weak) : f[k] \in is
  BY <1>3
<1>5. Rest(r, ms)
  BY <1>0, <1>3, <1>4, RestFewer
<1>6. ASSUME NEW k \in 1..Len(r.weak) PROVE r.weak[k].open # p.weak[i].open
  <2>1. f[k] \in 1..Len(p.weak) /\ r.weak[k] = p.weak[f[k]] /\ f[k] # i
    BY <1>2, <1>4 DEF SelectedBy
  <2>2. \A j \in 1..Len(p.weak) : p.weak[j].open = p.weak[i].open => j = i
    BY <1>0 DEF Rest, WeakOK
  <2> QED
    BY ONLY <2>1, <2>2
<1> QED
  BY <1>5, <1>6

\* An opener queues up, and counts if there is room.
LEMMA QueueGrows ==
    ASSUME NEW ms, NEW p, p.ordinal \in Nat \ {0}, QueuesOK(p, ms), CountOK(p),
           NEW c \in Classes, OpenerOf(ms, p.ordinal, c), NEW acc \in BOOLEAN,
           NEW q, q.ordinal = p.ordinal + 1,
           q.queues = [p.queues EXCEPT ![c] =
                          Append(p.queues[c], [ordinal |-> p.ordinal, accepted |-> acc])],
           acc = TRUE => p.count < MaxScopes /\ q.count = p.count + 1,
           acc = FALSE => q.count = p.count
    PROVE  /\ QueuesOK(q, ms) /\ CountOK(q)
           /\ \A o : Waits(q, o) => Waits(p, o) \/ o = p.ordinal
           /\ Counts(q) \subseteq Counts(p) \cup {p.ordinal}
<1> DEFINE z == p.ordinal
           e == [ordinal |-> z, accepted |-> acc]
           n == Len(p.queues[c])
<1>1. z \in Nat /\ z # 0 /\ q.ordinal = z + 1 /\ z \in 1..(q.ordinal - 1)
  OBVIOUS
<1>2. e \in Opener /\ e.ordinal = z /\ e.accepted = acc
  BY <1>1 DEF Opener
<1>3. /\ p.queues \in [Classes -> Seq(Opener)] /\ p.queues[c] \in Seq(Opener) /\ n \in Nat
  <2>1. p.queues \in [Classes -> Seq(Opener)]
    BY DEF QueuesOK
  <2> QED
    BY <2>1, LenProperties
<1>4. q.queues = [p.queues EXCEPT ![c] = Append(p.queues[c], e)]
  OBVIOUS
<1> HIDE DEF e
<1>5. /\ Append(p.queues[c], e) \in Seq(Opener) /\ Len(Append(p.queues[c], e)) = n + 1
      /\ Append(p.queues[c], e)[n + 1] = e
      /\ \A i \in 1..n : Append(p.queues[c], e)[i] = p.queues[c][i]
  BY <1>2, <1>3, AppendProperties
<1>6. /\ q.queues \in [Classes -> Seq(Opener)]
      /\ \A d \in Classes \ {c} : q.queues[d] = p.queues[d]
      /\ Len(q.queues[c]) = n + 1 /\ q.queues[c][n + 1] = e
      /\ \A i \in 1..n : q.queues[c][i] = p.queues[c][i]
  BY <1>3, <1>4, <1>5
<1>7. \A i \in 1..(n + 1) : i = n + 1 \/ i \in 1..n
  BY <1>3
<1>8. \A d \in Classes : \A i \in 1..Len(p.queues[d]) :
         /\ p.queues[d][i].ordinal \in 1..(z - 1)
         /\ OpenerOf(ms, p.queues[d][i].ordinal, d)
         /\ \A j \in 1..Len(p.queues[d]) :
               p.queues[d][j].ordinal = p.queues[d][i].ordinal => j = i
  BY DEF QueuesOK
<1>9. OpenerOf(ms, z, c)
  OBVIOUS
<1> HIDE DEF z, n
<1>10. \A d \in Classes : \A i \in 1..Len(p.queues[d]) :
          p.queues[d][i].ordinal # z /\ p.queues[d][i].ordinal \in 1..(q.ordinal - 1)
  BY <1>1, <1>8
<1>11. ASSUME NEW d \in Classes, NEW i \in 1..Len(q.queues[d])
       PROVE  /\ q.queues[d][i].ordinal \in 1..(q.ordinal - 1)
              /\ OpenerOf(ms, q.queues[d][i].ordinal, d)
              /\ \A j \in 1..Len(q.queues[d]) :
                    q.queues[d][j].ordinal = q.queues[d][i].ordinal => j = i
  <2>1. CASE d # c
    BY <1>6, <1>8, <1>10, <2>1
  <2>2. CASE d = c /\ i = n + 1
    <3>1. q.queues[d][i] = e
      BY <1>6, <2>2
    <3>2. \A j \in 1..n : q.queues[d][j].ordinal # z
      BY <1>6, <1>10, <2>2 DEF n
    <3> QED
      BY <1>1, <1>2, <1>6, <1>7, <1>9, <2>2, <3>1, <3>2
  <2>3. CASE d = c /\ i \in 1..n
    <3>1. q.queues[d][i] = p.queues[c][i]
      BY <1>6, <2>3
    <3>2. /\ p.queues[c][i].ordinal # z /\ p.queues[c][i].ordinal \in 1..(q.ordinal - 1)
          /\ OpenerOf(ms, p.queues[c][i].ordinal, c)
          /\ \A j \in 1..n : p.queues[c][j].ordinal = p.queues[c][i].ordinal => j = i
      BY <1>8, <1>10, <2>3 DEF n
    <3>3. \A j \in 1..Len(q.queues[d]) :
             q.queues[d][j].ordinal = q.queues[d][i].ordinal => j = i
      <4> SUFFICES ASSUME NEW j \in 1..Len(q.queues[d]),
                          q.queues[d][j].ordinal = q.queues[d][i].ordinal
                   PROVE  j = i
        OBVIOUS
      <4>1. CASE j = n + 1
        BY <1>2, <1>6, <2>3, <3>1, <3>2, <4>1
      <4>2. CASE j \in 1..n
        BY <1>6, <2>3, <3>1, <3>2, <4>2
      <4> QED
        BY <1>6, <1>7, <2>3, <4>1, <4>2
    <3> QED
      BY <2>3, <3>1, <3>2, <3>3
  <2> QED
    BY <1>6, <1>7, <2>1, <2>2, <2>3
<1>12. QueuesOK(q, ms)
  BY <1>6, <1>11 DEF QueuesOK
<1>13. ASSUME NEW d \in Classes, NEW i \in 1..Len(q.queues[d])
       PROVE  \/ d = c /\ q.queues[d][i] = e
              \/ i \in 1..Len(p.queues[d]) /\ q.queues[d][i] = p.queues[d][i]
  BY <1>6, <1>7 DEF n
<1>14. \A o : Waits(q, o) => Waits(p, o) \/ o = z
  BY <1>2, <1>13 DEF Waits
<1>15. Counts(q) \subseteq Counts(p) \cup {z}
  <2> SUFFICES ASSUME NEW o \in Counts(q), o # z PROVE o \in Counts(p)
    OBVIOUS
  <2>0. PICK d \in Classes : \E i \in 1..Len(q.queues[d]) :
           q.queues[d][i].ordinal = o /\ q.queues[d][i].accepted = TRUE
    BY DEF Counts
  <2>1. PICK i \in 1..Len(q.queues[d]) :
           q.queues[d][i].ordinal = o /\ q.queues[d][i].accepted = TRUE
    BY <2>0
  <2>2. i \in 1..Len(p.queues[d]) /\ q.queues[d][i] = p.queues[d][i]
    BY <1>2, <1>13, <2>1
  <2>3. o \in 1..(z - 1)
    BY <1>8, <2>1, <2>2
  <2> QED
    BY <2>1, <2>2, <2>3 DEF Counts, z
<1>16. Counts(p) \subseteq Counts(q) /\ z \notin Counts(p)
  <2>1. z \notin Counts(p)
    BY <1>1 DEF Counts, z
  <2>2. ASSUME NEW o \in Counts(p) PROVE o \in Counts(q)
    <3>0. PICK d \in Classes : \E i \in 1..Len(p.queues[d]) :
             p.queues[d][i].ordinal = o /\ p.queues[d][i].accepted = TRUE
      BY DEF Counts
    <3>1. PICK i \in 1..Len(p.queues[d]) :
             p.queues[d][i].ordinal = o /\ p.queues[d][i].accepted = TRUE
      BY <3>0
    <3>2. i \in 1..Len(q.queues[d]) /\ q.queues[d][i] = p.queues[d][i]
      BY <1>3, <1>6 DEF n
    <3>3. o \in 1..(q.ordinal - 1)
      BY <1>10, <3>1
    <3> QED
      BY <3>1, <3>2, <3>3 DEF Counts
  <2> QED
    BY <2>1, <2>2
<1>17. z \in Counts(q) <=> acc = TRUE
  <2>1. ASSUME acc = TRUE PROVE z \in Counts(q)
    <3>1. n + 1 \in 1..Len(q.queues[c])
      BY <1>3, <1>6
    <3> QED
      BY <1>1, <1>2, <1>6, <2>1, <3>1 DEF Counts
  <2>2. ASSUME z \in Counts(q) PROVE acc = TRUE
    <3>0. PICK d \in Classes : \E i \in 1..Len(q.queues[d]) :
             q.queues[d][i].ordinal = z /\ q.queues[d][i].accepted = TRUE
      BY <2>2 DEF Counts
    <3>1. PICK i \in 1..Len(q.queues[d]) :
             q.queues[d][i].ordinal = z /\ q.queues[d][i].accepted = TRUE
      BY <3>0
    <3>2. q.queues[d][i] = e
      BY <1>10, <1>13, <3>1
    <3> QED
      BY <1>2, <3>1, <3>2
  <2> QED
    BY <2>1, <2>2
<1>18. CountOK(q)
  <2>1. IsFiniteSet(Counts(p)) /\ Cardinality(Counts(p)) \in Nat
    BY CountsFinite
  <2>2. p.count = Cardinality(Counts(p)) /\ p.count <= MaxScopes /\ MaxScopes \in Nat
    BY InlineScopesAssumption DEF CountOK
  <2>3. CASE acc = TRUE
    <3>1. Counts(q) = Counts(p) \cup {z}
      BY <1>15, <1>16, <1>17, <2>3
    <3>2. Cardinality(Counts(q)) = Cardinality(Counts(p)) + 1
      <4>1. Cardinality(Counts(p) \cup {z}) =
               IF z \in Counts(p) THEN Cardinality(Counts(p)) ELSE Cardinality(Counts(p)) + 1
        BY <2>1, FS_AddElement
      <4> QED
        BY <1>16, <3>1, <4>1
    <3>3. p.count < MaxScopes /\ q.count = p.count + 1
      BY <2>3
    <3> QED
      BY <2>1, <2>2, <3>2, <3>3 DEF CountOK
  <2>4. CASE acc = FALSE
    <3>1. Counts(q) = Counts(p)
      BY <1>15, <1>16, <1>17, <2>4
    <3>2. q.count = p.count
      BY <2>4
    <3> QED
      BY <2>2, <3>1, <3>2 DEF CountOK
  <2> QED
    BY <2>3, <2>4
<1> QED
  BY <1>12, <1>14, <1>15, <1>18 DEF z

\* A queue without the opener at x.
Removed(s, x, rest) ==
    /\ rest \in Seq(Opener)
    /\ Len(rest) = Len(s) - 1
    /\ \A i \in 1..Len(rest) : rest[i] = s[IF i < x THEN i ELSE i + 1]

\* The opener at x leaves this queue.
Leaves(p, c, x, rest) == x \in 1..Len(p.queues[c]) /\ Removed(p.queues[c], x, rest)
LeavesTo(p, q, c, rest) ==
    q.ordinal = p.ordinal + 1 /\ q.queues = [p.queues EXCEPT ![c] = rest]

\* What leaves its queue does not wait any more, and counts no more.
LEMMA QueueLeaves ==
    ASSUME NEW ms, NEW p, p.ordinal \in Nat \ {0}, QueuesOK(p, ms),
           NEW c \in Classes, NEW x, NEW rest, Leaves(p, c, x, rest),
           NEW q, LeavesTo(p, q, c, rest)
    PROVE  /\ QueuesOK(q, ms)
           /\ \A o : Waits(q, o) => Waits(p, o)
           /\ p.queues[c][x].ordinal \in 1..(p.ordinal - 1)
           /\ OpenerOf(ms, p.queues[c][x].ordinal, c)
           /\ Waits(p, p.queues[c][x].ordinal) /\ ~Waits(q, p.queues[c][x].ordinal)
           /\ Counts(q) = Counts(p) \ {p.queues[c][x].ordinal}
           /\ p.queues[c][x].accepted = TRUE <=> p.queues[c][x].ordinal \in Counts(p)
<1> DEFINE z == p.ordinal
           n == Len(p.queues[c])
           u == p.queues[c][x].ordinal
           g(i) == IF i < x THEN i ELSE i + 1
<1>0. /\ x \in 1..Len(p.queues[c]) /\ Removed(p.queues[c], x, rest)
      /\ q.queues = [p.queues EXCEPT ![c] = rest]
  BY DEF Leaves, LeavesTo
<1>1. z \in Nat /\ z # 0 /\ q.ordinal = z + 1
  BY DEF LeavesTo
<1>2. /\ p.queues \in [Classes -> Seq(Opener)] /\ p.queues[c] \in Seq(Opener)
      /\ n \in Nat /\ x \in 1..n /\ x \in Nat
  <2>1. p.queues \in [Classes -> Seq(Opener)]
    BY DEF QueuesOK
  <2>2. p.queues[c] \in Seq(Opener)
    BY <2>1
  <2>3. n \in Nat
    BY <2>2, LenProperties
  <2> QED
    BY <1>0, <2>1, <2>2, <2>3
<1>3. \A d \in Classes : \A i \in 1..Len(p.queues[d]) :
         /\ p.queues[d][i].ordinal \in 1..(z - 1)
         /\ OpenerOf(ms, p.queues[d][i].ordinal, d)
         /\ \A j \in 1..Len(p.queues[d]) :
               p.queues[d][j].ordinal = p.queues[d][i].ordinal => j = i
  BY DEF QueuesOK
<1>4. /\ rest \in Seq(Opener) /\ Len(rest) = n - 1
      /\ \A i \in 1..Len(rest) : rest[i] = p.queues[c][g(i)]
  BY <1>0 DEF Removed
<1>5. /\ q.queues \in [Classes -> Seq(Opener)]
      /\ \A d \in Classes \ {c} : q.queues[d] = p.queues[d]
      /\ q.queues[c] = rest
  BY <1>0, <1>2, <1>4
<1>6. u \in 1..(z - 1) /\ OpenerOf(ms, u, c)
  BY <1>2, <1>3
<1>7. /\ \A i \in 1..(n - 1) : g(i) \in 1..n /\ g(i) # x
      /\ \A i, j \in 1..(n - 1) : g(i) = g(j) => i = j
      /\ \A j \in 1..n : j # x => \E i \in 1..(n - 1) : g(i) = j
  <2>1. \A i \in 1..(n - 1) : g(i) \in 1..n /\ g(i) # x
    BY <1>2
  <2>2. \A i, j \in 1..(n - 1) : g(i) = g(j) => i = j
    BY <1>2
  <2>3. ASSUME NEW j \in 1..n, j # x PROVE \E i \in 1..(n - 1) : g(i) = j
    <3>1. CASE j < x
      <4>1. j \in 1..(n - 1) /\ g(j) = j
        BY <1>2, <3>1
      <4> QED
        BY <4>1
    <3>2. CASE ~(j < x)
      <4>1. j - 1 \in 1..(n - 1) /\ ~(j - 1 < x)
        BY <1>2, <2>3, <3>2
      <4>2. g(j - 1) = j
        BY <1>2, <4>1
      <4> QED
        BY <4>1, <4>2
    <3> QED
      BY <3>1, <3>2
  <2> QED
    BY <2>1, <2>2, <2>3
<1> HIDE DEF z, n, u, g
\* Where the openers that still wait were.
<1>8. ASSUME NEW d \in Classes, NEW i \in 1..Len(q.queues[d])
      PROVE  \E j \in 1..Len(p.queues[d]) :
                q.queues[d][i] = p.queues[d][j] /\ p.queues[d][j].ordinal # u
  <2>1. CASE d = c
    <3>1. i \in 1..(n - 1) /\ q.queues[d][i] = p.queues[c][g(i)]
      BY <1>4, <1>5, <2>1
    <3>2. g(i) \in 1..Len(p.queues[c]) /\ g(i) # x
      BY <1>7, <3>1 DEF n
    <3>3. p.queues[c][g(i)].ordinal # u
      <4>1. \A k \in 1..Len(p.queues[c]) : p.queues[c][k].ordinal = u => k = x
        BY <1>0, <1>3 DEF u
      <4> QED
        BY <3>2, <4>1
    <3> QED
      BY <2>1, <3>1, <3>2, <3>3
  <2>2. CASE d # c
    <3>1. q.queues[d] = p.queues[d]
      BY <1>5, <2>2
    <3>2. p.queues[d][i].ordinal # u
      BY <1>3, <1>6, <2>2, <3>1 DEF OpenerOf
    <3> QED
      BY <3>1, <3>2
  <2> QED
    BY <2>1, <2>2
<1>9. ASSUME NEW d \in Classes, NEW j \in 1..Len(p.queues[d]), p.queues[d][j].ordinal # u
      PROVE  \E i \in 1..Len(q.queues[d]) : q.queues[d][i] = p.queues[d][j]
  <2>1. CASE d = c
    <3>1. j # x /\ j \in 1..n
      BY <1>9, <2>1 DEF u, n
    <3>2. PICK i \in 1..(n - 1) : g(i) = j
      BY <1>7, <3>1
    <3>3. i \in 1..Len(q.queues[d]) /\ q.queues[d][i] = p.queues[d][j]
      BY <1>4, <1>5, <2>1, <3>2
    <3> QED
      BY <3>3
  <2>2. CASE d # c
    BY <1>5, <2>2
  <2> QED
    BY <2>1, <2>2
<1>10. ASSUME NEW d \in Classes, NEW i \in 1..Len(q.queues[d])
       PROVE  /\ q.queues[d][i].ordinal \in 1..(q.ordinal - 1)
              /\ OpenerOf(ms, q.queues[d][i].ordinal, d)
              /\ \A k \in 1..Len(q.queues[d]) :
                    q.queues[d][k].ordinal = q.queues[d][i].ordinal => k = i
  <2>1. PICK j \in 1..Len(p.queues[d]) : q.queues[d][i] = p.queues[d][j]
    BY <1>8
  <2>2. q.queues[d][i].ordinal \in 1..(q.ordinal - 1)
    <3>1. p.queues[d][j].ordinal \in 1..(z - 1)
      BY <1>3
    <3>2. \A o \in 1..(z - 1) : o \in 1..(q.ordinal - 1)
      BY <1>1
    <3> QED
      BY <2>1, <3>1, <3>2
  <2>3. OpenerOf(ms, q.queues[d][i].ordinal, d)
    BY <1>3, <2>1
  <2>4. ASSUME NEW k \in 1..Len(q.queues[d]),
               q.queues[d][k].ordinal = q.queues[d][i].ordinal
        PROVE  k = i
    <3>1. CASE d # c
      BY <1>3, <1>5, <2>4, <3>1
    <3>2. CASE d = c
      <4>1. /\ i \in 1..(n - 1) /\ q.queues[d][i] = p.queues[c][g(i)]
            /\ k \in 1..(n - 1) /\ q.queues[d][k] = p.queues[c][g(k)]
        BY <1>4, <1>5, <3>2
      <4>2. g(i) \in 1..Len(p.queues[c]) /\ g(k) \in 1..Len(p.queues[c])
        BY <1>7, <4>1 DEF n
      <4>3. g(k) = g(i)
        BY <1>3, <2>4, <4>1, <4>2
      <4> QED
        BY <1>7, <4>1, <4>3
    <3> QED
      BY <3>1, <3>2
  <2> QED
    BY <2>2, <2>3, <2>4
<1>11. QueuesOK(q, ms)
  BY <1>5, <1>10 DEF QueuesOK
<1>12. \A o : Waits(q, o) => Waits(p, o) /\ o # u
  <2> SUFFICES ASSUME NEW o, Waits(q, o) PROVE Waits(p, o) /\ o # u
    OBVIOUS
  <2>1. PICK d \in Classes : \E i \in 1..Len(q.queues[d]) : q.queues[d][i].ordinal = o
    BY DEF Waits
  <2>2. PICK i \in 1..Len(q.queues[d]) : q.queues[d][i].ordinal = o
    BY <2>1
  <2>3. PICK j \in 1..Len(p.queues[d]) :
           q.queues[d][i] = p.queues[d][j] /\ p.queues[d][j].ordinal # u
    BY <1>8
  <2> QED
    BY <2>2, <2>3 DEF Waits
<1>13. Waits(p, u)
  BY <1>2 DEF Waits, u, n
<1>14. ASSUME NEW o \in Counts(q) PROVE o \in Counts(p) \ {u}
  <2>1. PICK d \in Classes : \E i \in 1..Len(q.queues[d]) :
           q.queues[d][i].ordinal = o /\ q.queues[d][i].accepted = TRUE
    BY DEF Counts
  <2>2. PICK i \in 1..Len(q.queues[d]) :
           q.queues[d][i].ordinal = o /\ q.queues[d][i].accepted = TRUE
    BY <2>1
  <2>3. PICK j \in 1..Len(p.queues[d]) :
           q.queues[d][i] = p.queues[d][j] /\ p.queues[d][j].ordinal # u
    BY <1>8
  <2>4. o \in 1..(z - 1)
    BY <1>3, <2>2, <2>3
  <2> QED
    BY <2>2, <2>3, <2>4 DEF Counts, z
<1>15. ASSUME NEW o \in Counts(p), o # u PROVE o \in Counts(q)
  <2>1. PICK d \in Classes : \E j \in 1..Len(p.queues[d]) :
           p.queues[d][j].ordinal = o /\ p.queues[d][j].accepted = TRUE
    BY DEF Counts
  <2>2. PICK j \in 1..Len(p.queues[d]) :
           p.queues[d][j].ordinal = o /\ p.queues[d][j].accepted = TRUE
    BY <2>1
  <2>3. PICK i \in 1..Len(q.queues[d]) : q.queues[d][i] = p.queues[d][j]
    BY <1>9, <1>15, <2>2
  <2>4. o \in 1..(q.ordinal - 1)
    BY <1>10, <2>2, <2>3
  <2> QED
    BY <2>2, <2>3, <2>4 DEF Counts
<1>16. Counts(q) = Counts(p) \ {u}
  BY <1>14, <1>15
<1>17. p.queues[c][x].accepted = TRUE <=> u \in Counts(p)
  <2>1. ASSUME p.queues[c][x].accepted = TRUE PROVE u \in Counts(p)
    BY <1>2, <1>6, <2>1 DEF Counts, u, n, z
  <2>2. ASSUME u \in Counts(p) PROVE p.queues[c][x].accepted = TRUE
    <3>1. PICK d \in Classes : \E j \in 1..Len(p.queues[d]) :
             p.queues[d][j].ordinal = u /\ p.queues[d][j].accepted = TRUE
      BY <2>2 DEF Counts
    <3>2. PICK j \in 1..Len(p.queues[d]) :
             p.queues[d][j].ordinal = u /\ p.queues[d][j].accepted = TRUE
      BY <3>1
    <3>3. OpenerOf(ms, u, d)
      BY <1>3, <3>2
    <3>4. d = c
      BY <1>6, <3>3 DEF OpenerOf
    <3>5. j = x
      BY <1>2, <1>3, <3>2, <3>4 DEF u, n
    <3> QED
      BY <3>2, <3>4, <3>5
  <2> QED
    BY <2>1, <2>2
<1> QED
  BY <1>6, <1>11, <1>12, <1>13, <1>16, <1>17 DEF u, z

\* PendingScopes::open keeps it all.
LEMMA OpenedOK ==
    ASSUME NEW ms, NEW p, PendingOK(p, ms), NEW c \in Classes, OpenerOf(ms, p.ordinal, c)
    PROVE  PendingOK(Opened(p, c), ms) /\ Opened(p, c).ordinal = p.ordinal + 1
<1> DEFINE acc == p.count < MaxScopes
           q == Opened(p, c)
           e == [ordinal |-> p.ordinal, accepted |-> acc]
<1>1. DOMAIN p = Parts /\ p.ordinal \in Nat \ {0} /\ QueuesOK(p, ms) /\ CountOK(p) /\ Rest(p, ms)
  BY DEF PendingOK, Rest
<1>2. acc \in BOOLEAN
  OBVIOUS
<1>3. q = [p EXCEPT !.queues[c] = Append(@, e), !.count = IF acc THEN @ + 1 ELSE @,
                    !.ordinal = @ + 1]
  BY DEF Opened
<1> HIDE DEF acc, q, e
<1>4. /\ DOMAIN q = Parts /\ q.weak = p.weak /\ q.pairs = p.pairs /\ q.valid = p.valid
      /\ q.ordinal = p.ordinal + 1
      /\ q.queues = [p.queues EXCEPT ![c] = Append(p.queues[c], e)]
      /\ q.count = IF acc THEN p.count + 1 ELSE p.count
  BY <1>1, <1>3 DEF Parts
<1>5. acc = TRUE => p.count < MaxScopes /\ q.count = p.count + 1
  BY <1>4 DEF acc
<1>6. acc = FALSE => q.count = p.count
  BY <1>4
<1>7. q.queues = [p.queues EXCEPT ![c] =
                     Append(p.queues[c], [ordinal |-> p.ordinal, accepted |-> acc])]
  BY <1>4 DEF e
<1>8. /\ QueuesOK(q, ms) /\ CountOK(q)
      /\ \A o : Waits(q, o) => Waits(p, o) \/ o = p.ordinal
      /\ Counts(q) \subseteq Counts(p) \cup {p.ordinal}
  BY <1>1, <1>2, <1>4, <1>5, <1>6, <1>7, QueueGrows
<1>9. Rest(q, ms)
  BY <1>1, <1>4, <1>8, RestStays
<1>10. CapOK(q, ms)
  <2>1. ms[p.ordinal].op # "synth" /\ p.weak = << >> =>
              /\ q.weak = << >>
              /\ \A x \in DOMAIN q.pairs :
                    \/ x \in DOMAIN p.pairs /\ q.pairs[x] = p.pairs[x]
                    \/ x = p.ordinal /\ q.pairs[x] \in Counts(p)
    BY <1>4
  <2> QED
    BY <1>4, <1>8, <2>1, CapStays
<1>11. PendingOK(q, ms)
  BY <1>8, <1>9, <1>10 DEF PendingOK, Rest
<1> QED
  BY <1>4, <1>11 DEF q

\* A closer takes an opener that waits.
LEMMA TookOK ==
    ASSUME NEW ms, NEW p, PendingOK(p, ms), NEW c \in Classes, NEW weakly,
           ms[p.ordinal].class = c,
           ms[p.ordinal].op = IF weakly THEN "synth" ELSE "close",
           NEW x, NEW rest, Leaves(p, c, x, rest)
    PROVE  /\ PendingOK(Took(p, c, p.queues[c][x], rest, weakly), ms)
           /\ Took(p, c, p.queues[c][x], rest, weakly).ordinal = p.ordinal + 1
<1> DEFINE e == p.queues[c][x]
           q == Took(p, c, e, rest, weakly)
<1>0. x \in 1..Len(p.queues[c]) /\ Removed(p.queues[c], x, rest)
  BY DEF Leaves
<1>1. DOMAIN p = Parts /\ p.ordinal \in Nat \ {0} /\ QueuesOK(p, ms) /\ CountOK(p) /\ Rest(p, ms)
  BY DEF PendingOK, Rest
<1>2. e.ordinal \in Nat /\ e.accepted \in BOOLEAN
  <2>1. p.queues[c] \in Seq(Opener)
    BY <1>1 DEF QueuesOK
  <2>2. e \in Opener
    BY <1>0, <2>1, ElementOfSeq
  <2> HIDE DEF e
  <2> QED
    BY <2>2 DEF Opener
<1>3. q = Took(p, c, e, rest, weakly) /\ Removed(p.queues[c], x, rest) /\ e = p.queues[c][x]
  BY <1>0
<1>4. ms[p.ordinal].op # "open" /\ ms[p.ordinal].class = c
  OBVIOUS
<1> HIDE DEF e, q
<1>5. /\ DOMAIN q = Parts /\ q.ordinal = p.ordinal + 1
      /\ q.queues = [p.queues EXCEPT ![c] = rest]
      /\ q.count = IF e.accepted THEN p.count - 1 ELSE p.count
  <2>1. CASE ~e.accepted
    BY <1>1, <1>3, <2>1 DEF Took, Parts
  <2>2. CASE e.accepted /\ weakly
    BY <1>1, <1>3, <2>2 DEF Took, Parts
  <2>3. CASE e.accepted /\ ~weakly
    BY <1>1, <1>3, <2>3 DEF Took, Paired, Parts
  <2> QED
    BY <2>1, <2>2, <2>3
<1>6. /\ QueuesOK(q, ms)
      /\ \A o : Waits(q, o) => Waits(p, o)
      /\ e.ordinal \in 1..(p.ordinal - 1)
      /\ OpenerOf(ms, e.ordinal, c)
      /\ Waits(p, e.ordinal) /\ ~Waits(q, e.ordinal)
      /\ Counts(q) = Counts(p) \ {e.ordinal}
      /\ (e.accepted = TRUE <=> e.ordinal \in Counts(p))
  <2>0. /\ p.ordinal \in Nat \ {0} /\ QueuesOK(p, ms) /\ c \in Classes
        /\ Leaves(p, c, x, rest) /\ LeavesTo(p, q, c, rest)
    BY <1>1, <1>5 DEF LeavesTo
  <2>1. /\ QueuesOK(q, ms)
        /\ \A o : Waits(q, o) => Waits(p, o)
        /\ p.queues[c][x].ordinal \in 1..(p.ordinal - 1)
        /\ OpenerOf(ms, p.queues[c][x].ordinal, c)
        /\ Waits(p, p.queues[c][x].ordinal) /\ ~Waits(q, p.queues[c][x].ordinal)
        /\ Counts(q) = Counts(p) \ {p.queues[c][x].ordinal}
        /\ (p.queues[c][x].accepted = TRUE <=> p.queues[c][x].ordinal \in Counts(p))
    BY ONLY <2>0, QueueLeaves
  <2> QED
    BY <1>3, <2>1
<1>7. CountOK(q)
  <2>1. IsFiniteSet(Counts(p)) /\ Cardinality(Counts(p)) \in Nat
    BY <1>1, CountsFinite
  <2>2. p.count = Cardinality(Counts(p)) /\ p.count <= MaxScopes /\ MaxScopes \in Nat
    BY <1>1, InlineScopesAssumption DEF CountOK
  <2>3. CASE e.accepted = TRUE
    <3>1. Cardinality(Counts(q)) = Cardinality(Counts(p)) - 1
      <4>1. Cardinality(Counts(p) \ {e.ordinal}) =
               IF e.ordinal \in Counts(p) THEN Cardinality(Counts(p)) - 1
               ELSE Cardinality(Counts(p))
        BY <2>1, FS_RemoveElement
      <4> QED
        BY <1>6, <2>3, <4>1
    <3>2. q.count = p.count - 1
      BY <1>5, <2>3
    <3> QED
      BY <2>1, <2>2, <3>1, <3>2 DEF CountOK
  <2>4. CASE e.accepted = FALSE
    <3>1. Counts(q) = Counts(p)
      BY <1>6, <2>4
    <3>2. q.count = p.count
      BY <1>5, <2>4
    <3> QED
      BY <2>2, <3>1, <3>2 DEF CountOK
  <2> QED
    BY <1>2, <2>3, <2>4
<1>8. /\ \A y \in DOMAIN p.pairs : p.pairs[y] # e.ordinal
      /\ \A i \in 1..Len(p.weak) : p.weak[i].open # e.ordinal
  BY <1>1, <1>6 DEF Rest, PairsOK, WeakOK
\* The opener was not accepted, or the source does not have the closer, or they pair.
<1>9. CASE e.accepted = FALSE
  <2>1. q.weak = p.weak /\ q.pairs = p.pairs /\ q.valid = p.valid
    BY <1>1, <1>3, <1>9 DEF Took, Parts
  <2>2. Rest(q, ms)
    BY <1>1, <1>5, <1>6, <2>1, RestStays
  <2>3. ms[p.ordinal].op # "synth" /\ p.weak = << >> =>
              /\ q.weak = << >>
              /\ \A y \in DOMAIN q.pairs :
                    \/ y \in DOMAIN p.pairs /\ q.pairs[y] = p.pairs[y]
                    \/ y = p.ordinal /\ q.pairs[y] \in Counts(p)
    BY <2>1
  <2>4. CapOK(q, ms)
    BY <1>5, <1>6, <1>7, <2>3, CapStays
  <2> QED
    BY <1>3, <1>5, <1>6, <1>7, <2>2, <2>4 DEF PendingOK, Rest
<1>10. CASE e.accepted = TRUE /\ weakly
  <2>1. /\ q.weak = Append(p.weak, [class |-> c, open |-> e.ordinal, close |-> p.ordinal])
        /\ q.pairs = p.pairs /\ q.valid = p.valid
    BY <1>1, <1>3, <1>10 DEF Took, Parts
  <2>2. ms[p.ordinal].op = "synth"
    BY <1>10
  <2>3. Rest(q, ms)
    BY <1>1, <1>2, <1>4, <1>5, <1>6, <1>8, <2>1, <2>2, RestWeak
  <2>4. CapOK(q, ms)
    BY <1>5, <1>6, <1>7, <2>2, CapStays
  <2> QED
    BY <1>3, <1>5, <1>6, <1>7, <2>3, <2>4 DEF PendingOK, Rest
<1>11. CASE e.accepted = TRUE /\ ~weakly
  <2>1. /\ q.weak = p.weak
        /\ q.pairs = [y \in DOMAIN p.pairs \cup {p.ordinal} |->
                         IF y = p.ordinal THEN e.ordinal ELSE p.pairs[y]]
        /\ q.valid = p.valid \cup {e.ordinal, p.ordinal}
    BY <1>1, <1>3, <1>11 DEF Took, Paired, Parts
  <2>2. Rest(q, ms)
    BY <1>1, <1>4, <1>5, <1>6, <1>8, <2>1, RestPaired
  <2>3. ms[p.ordinal].op # "synth" /\ p.weak = << >> =>
              /\ q.weak = << >>
              /\ \A y \in DOMAIN q.pairs :
                    \/ y \in DOMAIN p.pairs /\ q.pairs[y] = p.pairs[y]
                    \/ y = p.ordinal /\ q.pairs[y] \in Counts(p)
    BY <1>6, <1>11, <2>1
  <2>4. CapOK(q, ms)
    BY <1>5, <1>6, <1>7, <2>3, CapStays
  <2> QED
    BY <1>3, <1>5, <1>6, <1>7, <2>2, <2>4 DEF PendingOK, Rest
<1> QED
  BY <1>2, <1>3, <1>9, <1>10, <1>11

\* The first opener of a queue, and the last.
LEMMA FirstLeaves ==
    ASSUME NEW s \in Seq(Opener), s # << >>
    PROVE  1 \in 1..Len(s) /\ Head(s) = s[1] /\ Removed(s, 1, Tail(s))
<1>1. Len(s) \in Nat /\ Len(s) # 0
  BY LenProperties, EmptySeq
<1>2. Head(s) = s[1] /\ Tail(s) \in Seq(Opener) /\ Len(Tail(s)) = Len(s) - 1
  BY <1>1, HeadTailProperties
<1>3. \A i \in 1..Len(Tail(s)) : Tail(s)[i] = s[i + 1] /\ ~(i < 1)
  BY <1>1, <1>2, HeadTailProperties
<1> QED
  BY <1>1, <1>2, <1>3 DEF Removed

LEMMA LastLeaves ==
    ASSUME NEW s \in Seq(Opener), s # << >>
    PROVE  Len(s) \in 1..Len(s) /\ Last(s) = s[Len(s)] /\ Removed(s, Len(s), Front(s))
<1> DEFINE n == Len(s)
<1>1. n \in Nat /\ n # 0
  BY LenProperties, EmptySeq
<1>2. /\ 1 \in 1..(n + 1) /\ n - 1 \in (1 - 1)..n /\ n - 1 \in Nat
      /\ \A i \in 1..(n - 1) : i \in 1..((n - 1) - 1 + 1) /\ 1 + i - 1 = i
      /\ ((n - 1) - 1) + 1 = n - 1
  BY <1>1
<1>3. /\ Front(s) \in Seq(Opener) /\ Len(Front(s)) = n - 1
      /\ \A i \in 1..(n - 1) : Front(s)[i] = s[i]
  <2>1. Front(s) = SubSeq(s, 1, n - 1)
    BY DEF Front
  <2> HIDE DEF n
  <2>2. Len(Front(s)) = n - 1
    BY <1>1, <1>2, <2>1, SubSeqProperties DEF n
  <2>3. Front(s) \in Seq(Opener)
    BY <1>1, <1>2, <2>1, SubSeqProperties DEF n
  <2>4. \A i \in 1..(n - 1) : Front(s)[i] = s[i]
    BY <1>1, <1>2, <2>1, SubSeqProperties DEF n
  <2> QED
    BY <2>2, <2>3, <2>4
<1>4. \A i \in 1..Len(Front(s)) : i < n
  BY <1>1, <1>3
<1> QED
  BY <1>1, <1>3, <1>4 DEF Last, Removed

\* A closer that finds no opener.
LEMMA TookBackOK ==
    ASSUME NEW ms, NEW p, PendingOK(p, ms), NEW c \in Classes, NEW weakly,
           ms[p.ordinal].class = c,
           ms[p.ordinal].op = IF weakly THEN "synth" ELSE "close"
    PROVE  PendingOK(TookBack(p, c, weakly), ms) /\ TookBack(p, c, weakly).ordinal = p.ordinal + 1
<1> DEFINE q  == TookBack(p, c, weakly)
           ws == {k \in DOMAIN p.weak : p.weak[k].class = c}
           i  == CHOOSE j \in ws : \A k \in ws : k <= j
           o  == p.weak[i].open
           b  == [p EXCEPT !.ordinal = @ + 1]
           r  == [p EXCEPT !.weak = Picked(@, DOMAIN @ \ {i})]
<1>1. DOMAIN p = Parts /\ p.ordinal \in Nat \ {0} /\ QueuesOK(p, ms) /\ CountOK(p) /\ Rest(p, ms)
  BY DEF PendingOK, Rest
<1>2. p.weak \in Seq(Partners) /\ Len(p.weak) \in Nat /\ DOMAIN p.weak = 1..Len(p.weak)
  <2>1. p.weak \in Seq(Partners)
    BY <1>1 DEF Rest, WeakOK
  <2> QED
    BY <2>1, LenProperties
<1>3. q = IF weakly \/ ws = {} THEN b
          ELSE Paired([b EXCEPT !.weak = Picked(@, DOMAIN @ \ {i})], o, p.ordinal)
  BY DEF TookBack
<1>4. ws # {} => i \in ws
  <2> SUFFICES ASSUME ws # {} PROVE i \in ws
    OBVIOUS
  <2>1. ws \in SUBSET (1..Len(p.weak))
    BY <1>2
  <2> HIDE DEF ws
  <2> QED
    BY <1>2, <2>1, LastPlace
<1>5. \A k \in ws : k \in 1..Len(p.weak) /\ p.weak[k].class = c
  BY <1>2
<1>6. ms[p.ordinal].op # "open" /\ ms[p.ordinal].class = c
  OBVIOUS
<1> HIDE DEF q, ws, i, o
<1>7. /\ DOMAIN q = Parts /\ q.ordinal = p.ordinal + 1 /\ q.queues = p.queues /\ q.count = p.count
  <2>1. CASE weakly \/ ws = {}
    BY <1>1, <1>3, <2>1 DEF Parts
  <2>2. CASE ~(weakly \/ ws = {})
    BY <1>1, <1>3, <2>2 DEF Parts, Paired
  <2> QED
    BY <2>1, <2>2
<1>8. QueuesOK(q, ms) /\ CountOK(q) /\ Counts(q) = Counts(p) /\ \A u : Waits(q, u) <=> Waits(p, u)
  <2>1. \A d \in Classes : \A k \in 1..Len(p.queues[d]) :
           p.queues[d][k].ordinal \in 1..(p.ordinal - 1)
    BY <1>1 DEF QueuesOK
  <2>2. p.ordinal \in Nat /\ \A u \in 1..(p.ordinal - 1) : u \in 1..(q.ordinal - 1)
    BY <1>1, <1>7
  <2>3. QueuesOK(q, ms)
    BY <1>1, <1>7, <2>2 DEF QueuesOK
  <2>4. Counts(q) = Counts(p)
    BY <1>7, <2>1, <2>2 DEF Counts
  <2>5. \A u : Waits(q, u) <=> Waits(p, u)
    BY <1>7 DEF Waits
  <2> QED
    BY <1>1, <1>7, <2>3, <2>4, <2>5 DEF CountOK
<1>9. CASE weakly \/ ws = {}
  <2>1. q.weak = p.weak /\ q.pairs = p.pairs /\ q.valid = p.valid
    BY <1>1, <1>3, <1>9 DEF Parts
  <2>2. Rest(q, ms)
    BY <1>1, <1>7, <1>8, <2>1, RestStays
  <2>3. CapOK(q, ms)
    BY <1>7, <1>8, <2>1, CapStays
  <2> QED
    BY <1>7, <1>8, <2>2, <2>3 DEF PendingOK, Rest, q
<1>10. CASE ~(weakly \/ ws = {})
  <2>1. i \in 1..Len(p.weak) /\ p.weak[i].class = c
    BY <1>4, <1>5, <1>10
  <2>2. /\ r.weak = Picked(p.weak, DOMAIN p.weak \ {i})
        /\ DOMAIN r = Parts /\ r.ordinal = p.ordinal /\ r.pairs = p.pairs
        /\ r.valid = p.valid /\ r.queues = p.queues
    BY <1>1 DEF Parts
  <2>3. /\ q.weak = Picked(p.weak, DOMAIN p.weak \ {i})
        /\ q.pairs = [y \in DOMAIN p.pairs \cup {p.ordinal} |->
                         IF y = p.ordinal THEN o ELSE p.pairs[y]]
        /\ q.valid = p.valid \cup {o, p.ordinal}
    BY <1>1, <1>3, <1>10 DEF Parts, Paired
  <2> HIDE DEF r
  <2>4. Rest(r, ms) /\ \A k \in 1..Len(r.weak) : r.weak[k].open # o
    <3>1. Rest(p, ms) /\ Broken(p, r, i)
      BY <1>1, <2>1, <2>2 DEF Broken
    <3>2. Rest(r, ms) /\ \A k \in 1..Len(r.weak) : r.weak[k].open # p.weak[i].open
      BY ONLY <3>1, RestBroken
    <3> QED
      BY <3>2 DEF o
  <2>5. /\ q.weak = r.weak
        /\ q.pairs = [y \in DOMAIN r.pairs \cup {r.ordinal} |->
                         IF y = r.ordinal THEN o ELSE r.pairs[y]]
        /\ q.valid = r.valid \cup {o, r.ordinal}
        /\ q.ordinal = r.ordinal + 1
        /\ ms[r.ordinal].op # "open" /\ ms[r.ordinal].class = c
    BY <1>6, <1>7, <2>2, <2>3
  <2>6. /\ p.weak[i].close \in 1..(p.ordinal - 1)
        /\ o \in 1..(p.weak[i].close - 1)
        /\ OpenerOf(ms, o, c) /\ ~Waits(p, o)
    BY <1>1, <2>1 DEF Rest, WeakOK, o
  <2>7. o \in 1..(r.ordinal - 1)
    BY <1>1, <2>2, <2>6
  <2>8. ~Waits(q, o) /\ \A u : Waits(q, u) => Waits(r, u)
    <3>1. \A u : Waits(r, u) <=> Waits(p, u)
      BY <2>2 DEF Waits
    <3> QED
      BY <1>8, <2>6, <3>1
  <2>9. \A y \in DOMAIN r.pairs : r.pairs[y] # o
    <3>1. \A y \in DOMAIN p.pairs : p.pairs[y] # o
      BY <1>1, <2>1 DEF Rest, PairsOK, o
    <3> QED
      BY <2>2, <3>1
  <2>10. Rest(q, ms)
    BY <1>7, <2>4, <2>5, <2>6, <2>7, <2>8, <2>9, RestPaired
  <2>11. p.weak # << >>
    BY <1>2, <2>1
  <2>12. CapOK(q, ms)
    BY <1>7, <1>8, <2>11, CapStays
  <2> QED
    BY <1>7, <1>8, <2>10, <2>12 DEF PendingOK, Rest, q
<1> QED
  BY <1>9, <1>10

\* collect_valid_pairs keeps it all, element by element.
LEMMA CountedOK ==
    ASSUME NEW ms, NEW p, PendingOK(p, ms), NEW e \in Events,
           e.op \in {"open", "close", "synth"} => ms[p.ordinal] = e
    PROVE  /\ PendingOK(Counted(p, e), ms)
           /\ Counted(p, e).ordinal =
                 IF e.op \in {"open", "close", "synth"} THEN p.ordinal + 1 ELSE p.ordinal
<1>1. e.op \in {"open", "close", "synth"} => e.class \in Classes
  BY DEF Events
<1>2. ASSUME NEW weakly, e.op = IF weakly THEN "synth" ELSE "close"
      PROVE  /\ PendingOK(ClosedBy(p, e.class, weakly), ms)
             /\ ClosedBy(p, e.class, weakly).ordinal = p.ordinal + 1
  <2> DEFINE c == e.class
             s == p.queues[c]
  <2>1. ms[p.ordinal].class = c /\ ms[p.ordinal].op = e.op /\ c \in Classes
    BY <1>1, <1>2
  <2>2. s \in Seq(Opener)
    BY <2>1 DEF PendingOK, QueuesOK
  <2> HIDE DEF c
  <2>3. CASE s = << >>
    <3>1. ClosedBy(p, c, weakly) = TookBack(p, c, weakly)
      BY <2>3 DEF ClosedBy
    <3> QED
      BY <1>2, <2>1, <3>1, TookBackOK DEF c
  <2>4. CASE s # << >> /\ ~weakly /\ c \in Queued
    <3>1. ClosedBy(p, c, weakly) = Took(p, c, Head(s), Tail(s), weakly)
      BY <2>4 DEF ClosedBy
    <3>2. 1 \in 1..Len(s) /\ Head(s) = s[1] /\ Removed(s, 1, Tail(s))
      BY <2>2, <2>4, FirstLeaves
    <3> DEFINE rest == Tail(s)
    <3>3. ClosedBy(p, c, weakly) = Took(p, c, Head(s), rest, weakly)
      BY <3>1
    <3>4. \E x : Head(s) = p.queues[c][x] /\ Leaves(p, c, x, rest)
      BY <3>2 DEF Leaves
    <3> HIDE DEF rest
    <3>5. PICK x : Head(s) = p.queues[c][x] /\ Leaves(p, c, x, rest)
      BY <3>4
    <3>6. /\ PendingOK(p, ms) /\ c \in Classes /\ ms[p.ordinal].class = c
          /\ ms[p.ordinal].op = (IF weakly THEN "synth" ELSE "close")
      BY <1>2, <2>1
    <3>7. /\ PendingOK(Took(p, c, p.queues[c][x], rest, weakly), ms)
          /\ Took(p, c, p.queues[c][x], rest, weakly).ordinal = p.ordinal + 1
      BY ONLY <3>5, <3>6, TookOK
    <3> QED
      BY <3>3, <3>5, <3>7 DEF c
  <2>5. CASE s # << >> /\ ~(~weakly /\ c \in Queued)
    <3>1. ClosedBy(p, c, weakly) = Took(p, c, Last(s), Front(s), weakly)
      BY <2>5 DEF ClosedBy
    <3>2. Len(s) \in 1..Len(s) /\ Last(s) = s[Len(s)] /\ Removed(s, Len(s), Front(s))
      BY <2>2, <2>5, LastLeaves
    <3> DEFINE rest == Front(s)
    <3>3. ClosedBy(p, c, weakly) = Took(p, c, Last(s), rest, weakly)
      BY <3>1
    <3>4. \E x : Last(s) = p.queues[c][x] /\ Leaves(p, c, x, rest)
      BY <3>2 DEF Leaves
    <3> HIDE DEF rest
    <3>5. PICK x : Last(s) = p.queues[c][x] /\ Leaves(p, c, x, rest)
      BY <3>4
    <3>6. /\ PendingOK(p, ms) /\ c \in Classes /\ ms[p.ordinal].class = c
          /\ ms[p.ordinal].op = (IF weakly THEN "synth" ELSE "close")
      BY <1>2, <2>1
    <3>7. /\ PendingOK(Took(p, c, p.queues[c][x], rest, weakly), ms)
          /\ Took(p, c, p.queues[c][x], rest, weakly).ordinal = p.ordinal + 1
      BY ONLY <3>5, <3>6, TookOK
    <3> QED
      BY <3>3, <3>5, <3>7 DEF c
  <2> QED
    BY <2>3, <2>4, <2>5
<1>3. CASE e.op = "open"
  <2>1. Counted(p, e) = Opened(p, e.class)
    BY <1>3 DEF Counted
  <2>2. OpenerOf(ms, p.ordinal, e.class)
    BY <1>3 DEF OpenerOf
  <2> QED
    BY <1>1, <1>3, <2>1, <2>2, OpenedOK
<1>4. CASE e.op = "close"
  <2>1. Counted(p, e) = ClosedBy(p, e.class, FALSE)
    BY <1>4 DEF Counted
  <2> QED
    BY <1>2, <1>4, <2>1
<1>5. CASE e.op = "synth"
  <2>1. Counted(p, e) = ClosedBy(p, e.class, TRUE)
    BY <1>5 DEF Counted
  <2> QED
    BY <1>2, <1>5, <2>1
<1>6. CASE e.op \notin {"open", "close", "synth"}
  <2>1. Counted(p, e) = p
    BY <1>6 DEF Counted
  <2> QED
    BY <1>6, <2>1
<1> QED
  BY <1>3, <1>4, <1>5, <1>6

\* The number of a place, counted from the front, is the number it is picked as.
LEMMA PlaceOf ==
    ASSUME NEW K \in SUBSET Nat, IsFiniteSet(K), NEW k \in K
    PROVE  /\ Cardinality({j \in K : j <= k}) \in 1..Cardinality(K)
           /\ Place(K, Cardinality({j \in K : j <= k})) = k
<1> DEFINE To(m) == {j \in K : j <= m}
           n == Cardinality(K)
           x == Place(K, Cardinality(To(k)))
<1>1. n \in Nat /\ k \in Nat
  BY FS_CardinalityType
<1>2. \A m \in K : m \in To(m) /\ To(m) \in SUBSET K
  <2>1. \A m \in K : m \in Nat /\ m <= m
    OBVIOUS
  <2> QED
    BY <2>1
<1>3. ASSUME NEW m \in K PROVE IsFiniteSet(To(m)) /\ Cardinality(To(m)) \in 1..n
  <2>1. To(m) \in SUBSET K /\ To(m) # {}
    BY <1>2
  <2> HIDE DEF To
  <2>2. IsFiniteSet(To(m)) /\ Cardinality(To(m)) <= n
    BY <2>1, FS_Subset
  <2>3. Cardinality(To(m)) \in Nat /\ Cardinality(To(m)) # 0
    BY <2>1, <2>2, FS_CardinalityType, FS_EmptySet
  <2> QED
    BY <1>1, <2>2, <2>3
<1>4. ASSUME NEW m \in K, NEW l \in K, m < l PROVE Cardinality(To(m)) # Cardinality(To(l))
  <2>1. m \in Nat /\ l \in Nat /\ \A j \in K : j \in Nat
    OBVIOUS
  <2>2. (\A j \in K : j <= m => j <= l) /\ ~(l <= m)
    BY <1>4, <2>1
  <2>3. To(m) \in SUBSET To(l) /\ To(m) # To(l)
    BY <1>2, <2>2
  <2> HIDE DEF To
  <2> QED
    BY <1>3, <2>3, FS_Subset
<1>5. x \in K /\ Cardinality(To(x)) = Cardinality(To(k))
  BY DEF Place
<1>6. x = k
  <2> HIDE DEF x, To
  <2>1. x \in Nat /\ (x = k \/ x < k \/ k < x)
    BY <1>1, <1>5
  <2> QED
    BY <1>4, <1>5, <2>1
<1> QED
  BY <1>3, <1>6

\* What the markers before the next element number.
Before(K, i) == {j \in K : j <= i}

LEMMA OneMore ==
    ASSUME NEW K \in SUBSET Nat, IsFiniteSet(K), NEW i \in Nat
    PROVE  /\ IsFiniteSet(Before(K, i)) /\ Cardinality(Before(K, i)) \in Nat
           /\ Cardinality(Before(K, i + 1)) =
                 IF i + 1 \in K THEN Cardinality(Before(K, i)) + 1 ELSE Cardinality(Before(K, i))
<1>1. Before(K, i) \in SUBSET K
  BY DEF Before
<1>2. IsFiniteSet(Before(K, i))
  BY <1>1, FS_Subset
<1>3. Cardinality(Before(K, i)) \in Nat
  BY <1>2, FS_CardinalityType
<1>4. \A j \in K : j <= i + 1 <=> j <= i \/ j = i + 1
  OBVIOUS
<1>5. CASE i + 1 \in K
  <2>1. i + 1 \notin Before(K, i)
    BY DEF Before
  <2>2. Before(K, i + 1) = Before(K, i) \cup {i + 1}
    BY <1>4, <1>5 DEF Before
  <2>3. Cardinality(Before(K, i) \cup {i + 1}) = Cardinality(Before(K, i)) + 1
    BY <1>2, <2>1, FS_AddElement
  <2> QED
    BY <1>2, <1>3, <1>5, <2>2, <2>3
<1>6. CASE i + 1 \notin K
  <2>1. Before(K, i + 1) = Before(K, i)
    BY <1>4, <1>6 DEF Before
  <2> QED
    BY <1>2, <1>3, <1>6, <2>1
<1> QED
  BY <1>5, <1>6

MarkerOps    == {"open", "close", "synth"}
PlacesOf(es) == {i \in DOMAIN es : es[i].op \in MarkerOps}

\* The next marker has the number that the count gives it.
LEMMA MarkersAre ==
    ASSUME NEW es \in Seq(Events)
    PROVE  /\ PlacesOf(es) \in SUBSET Nat /\ IsFiniteSet(PlacesOf(es))
           /\ Before(PlacesOf(es), 0) = {}
           /\ Before(PlacesOf(es), Len(es)) = PlacesOf(es)
           /\ Len(MarkersOf(es)) = Cardinality(PlacesOf(es))
           /\ DOMAIN MarkersOf(es) = 1..Cardinality(PlacesOf(es))
           /\ \A i \in PlacesOf(es) :
                 MarkersOf(es)[Cardinality(Before(PlacesOf(es), i))] = es[i]
<1> DEFINE K == PlacesOf(es)
           n == Cardinality(K)
<1>1. Len(es) \in Nat /\ DOMAIN es = 1..Len(es)
  BY LenProperties
<1>2. K \in SUBSET (1..Len(es)) /\ IsFiniteSet(1..Len(es))
  BY <1>1, FS_Interval DEF PlacesOf
<1>3. K \in SUBSET Nat /\ IsFiniteSet(K)
  <2>1. K \in SUBSET Nat
    BY <1>1, <1>2
  <2> HIDE DEF K
  <2>2. IsFiniteSet(K)
    BY <1>2, FS_Subset
  <2> QED
    BY <2>1, <2>2
<1>4. n \in Nat
  BY <1>3, FS_CardinalityType
<1>5. MarkersOf(es) = [k \in 1..n |-> es[Place(K, k)]]
  BY DEF MarkersOf, Picked, PlacesOf, MarkerOps
<1>6. Before(K, 0) = {} /\ Before(K, Len(es)) = K
  <2>1. \A j \in K : j \in Nat /\ 1 <= j /\ j <= Len(es)
    BY <1>1, <1>2
  <2> HIDE DEF K
  <2> QED
    BY <2>1 DEF Before
<1> HIDE DEF K
<1>7. Len(MarkersOf(es)) = n /\ DOMAIN MarkersOf(es) = 1..n
  <2> HIDE DEF n
  <2> QED
    BY <1>4, <1>5
<1>8. ASSUME NEW i \in K PROVE MarkersOf(es)[Cardinality(Before(K, i))] = es[i]
  <2>1. Cardinality(Before(K, i)) \in 1..n /\ Place(K, Cardinality(Before(K, i))) = i
    BY <1>3, PlaceOf DEF Before
  <2> HIDE DEF n
  <2> QED
    BY <1>5, <2>1
<1> QED
  BY <1>3, <1>6, <1>7, <1>8 DEF K

LEMMA NothingPendingOK == ASSUME NEW ms PROVE PendingOK(NothingPending, ms)
<1> DEFINE p == NothingPending
<1>1. /\ DOMAIN p = Parts /\ p.ordinal = 1 /\ p.count = 0 /\ p.valid = {}
      /\ p.pairs = << >> /\ p.weak = << >> /\ p.queues = [c \in Classes |-> << >>]
  BY DEF NothingPending, Parts
<1> HIDE DEF p
<1>2. 1..(p.ordinal - 1) = {} /\ p.ordinal \in Nat \ {0}
  BY <1>1
<1>3. Len(<< >>) = 0 /\ DOMAIN << >> = {} /\ \A S : << >> \in Seq(S)
  OBVIOUS
<1>4. 1..Len(<< >>) = {}
  BY <1>3
<1>5. QueuesOK(p, ms)
  BY <1>1, <1>3, <1>4 DEF QueuesOK
<1>6. WeakOK(p, ms)
  BY <1>1, <1>3, <1>4 DEF WeakOK
<1>7. PairsOK(p, ms)
  BY <1>1, <1>3 DEF PairsOK
<1>8. CountOK(p)
  <2>1. Counts(p) = {}
    BY <1>2 DEF Counts
  <2> QED
    BY <1>1, <2>1, FS_EmptySet, InlineScopesAssumption DEF CountOK
<1>9. CapOK(p, ms)
  BY <1>1, <1>2 DEF CapOK
<1> QED
  BY <1>1, <1>2, <1>5, <1>6, <1>7, <1>8, <1>9 DEF PendingOK, p

\* The elements are counted one by one.
Counting(f, es, n) ==
    f = [i \in 0..n |-> IF i = 0 THEN NothingPending ELSE Counted(f[i - 1], es[i])]

LEMMA CountingSteps ==
    ASSUME NEW es, NEW n \in Nat
    PROVE  \E f : Counting(f, es, n)
<1> DEFINE G(p, i) == Counted(p, es[i])
           B(f, i) == IF i = 0 THEN NothingPending ELSE G(f[i - 1], i)
           S == {m \in Nat : \E f : \A i \in 0..n : i <= m => f[i] = B(f, i)}
<1>1. /\ \A f : B(f, 0) = NothingPending
      /\ \A f : \A i \in 1..n : i # 0 /\ B(f, i) = G(f[i - 1], i)
  <2> HIDE DEF G
  <2>1. \A i \in 1..n : i # 0
    OBVIOUS
  <2> QED
    BY <2>1
<1>2. \A i \in 0..n : i = 0 \/ i \in 1..n
  OBVIOUS
<1> HIDE DEF G, B
<1>3. 0 \in S
  <2> DEFINE g == [i \in 0..n |-> NothingPending]
  <2>1. ASSUME NEW i \in 0..n, i <= 0 PROVE g[i] = B(g, i)
    <3>1. i = 0
      BY <2>1
    <3>2. g[i] = NothingPending
      OBVIOUS
    <3> HIDE DEF g
    <3> QED
      BY <1>1, <3>1, <3>2
  <2> HIDE DEF g
  <2> QED
    BY <2>1
<1>4. ASSUME NEW m \in S PROVE m + 1 \in S
  <2>1. PICK f : \A i \in 0..n : i <= m => f[i] = B(f, i)
    OBVIOUS
  <2> DEFINE g == [i \in 0..n |-> IF i <= m THEN f[i] ELSE B(f, i)]
  <2>2. \A i \in 0..n : g[i] = B(f, i)
    BY <2>1
  <2>3. \A i \in 0..n : i <= m => g[i] = f[i]
    OBVIOUS
  <2> HIDE DEF g
  <2>4. ASSUME NEW i \in 0..n, i <= m + 1 PROVE g[i] = B(g, i)
    <3>1. CASE i = 0
      BY <1>1, <2>2, <3>1
    <3>2. CASE i \in 1..n
      <4>1. i - 1 \in 0..n /\ i - 1 <= m
        BY <2>4, <3>2
      <4>2. g[i - 1] = f[i - 1]
        BY <2>3, <4>1
      <4>3. B(f, i) = G(f[i - 1], i) /\ B(g, i) = G(g[i - 1], i)
        BY <1>1, <3>2
      <4> QED
        BY <2>2, <4>2, <4>3
    <3> QED
      BY <1>2, <3>1, <3>2
  <2>5. m + 1 \in Nat
    OBVIOUS
  <2> QED
    BY <2>4, <2>5
<1>5. PICK f : \A i \in 0..n : f[i] = B(f, i)
  <2>1. S \in SUBSET Nat
    OBVIOUS
  <2>2. \A m \in S : m + 1 \in S
    BY <1>4
  <2>3. S = Nat
    <3> HIDE DEF S
    <3> QED
      BY <1>3, <2>1, <2>2, Induct
  <2>4. n \in S
    BY <2>3
  <2>5. PICK f : \A i \in 0..n : i <= n => f[i] = B(f, i)
    BY <2>4
  <2>6. \A i \in 0..n : i <= n
    OBVIOUS
  <2> QED
    BY <2>5, <2>6
<1>6. \E g : g = [i \in 0..n |-> B(g, i)]
  <2> DEFINE g == [i \in 0..n |-> f[i]]
  <2>1. \A i \in 0..n : B(g, i) = B(f, i)
    <3> SUFFICES ASSUME NEW i \in 0..n PROVE B(g, i) = B(f, i)
      OBVIOUS
    <3>1. CASE i = 0
      BY <1>1, <3>1
    <3>2. CASE i \in 1..n
      <4>1. i - 1 \in 0..n
        BY <3>2
      <4>2. g[i - 1] = f[i - 1]
        BY <4>1
      <4> HIDE DEF g
      <4> QED
        BY <1>1, <3>2, <4>2
    <3> QED
      BY <1>2, <3>1, <3>2
  <2>2. g = [i \in 0..n |-> B(g, i)]
    BY <1>5, <2>1
  <2> HIDE DEF g
  <2> QED
    BY <2>2
<1> QED
  BY <1>6 DEF Counting, B, G

LEMMA CollectedOK ==
    ASSUME NEW es \in Seq(Events)
    PROVE  /\ PendingOK(Collected(es), MarkersOf(es))
           /\ Collected(es).ordinal = Len(MarkersOf(es)) + 1
           /\ Len(MarkersOf(es)) \in Nat /\ DOMAIN MarkersOf(es) = 1..Len(MarkersOf(es))
<1> DEFINE n == Len(es)
           K == PlacesOf(es)
           ms == MarkersOf(es)
           B(i) == Cardinality(Before(K, i))
           up == CHOOSE f : f = [i \in 0..n |->
                    IF i = 0 THEN NothingPending ELSE Counted(f[i - 1], es[i])]
           P(i) == PendingOK(up[i], ms) /\ up[i].ordinal = B(i) + 1
           S == {i \in Nat : i <= n => P(i)}
<1>1. n \in Nat /\ DOMAIN es = 1..n
  BY LenProperties
<1>2. /\ up[0] = NothingPending
      /\ \A i \in 1..n : up[i] = Counted(up[i - 1], es[i])
  <2>1. \E f : Counting(f, es, n)
    <3> HIDE DEF n
    <3> QED
      BY <1>1, CountingSteps
  <2>2. Counting(up, es, n)
    <3>1. up = CHOOSE f : Counting(f, es, n)
      BY DEF Counting
    <3> HIDE DEF up
    <3> QED
      BY <2>1, <3>1
  <2> HIDE DEF up
  <2>3. 0 \in 0..n /\ \A i \in 1..n : i \in 0..n /\ i # 0
    BY <1>1
  <2> HIDE DEF n
  <2> QED
    BY <2>2, <2>3 DEF Counting
<1>3. Collected(es) = up[n]
  BY DEF Collected
<1> HIDE DEF up
<1>4. /\ K \in SUBSET Nat /\ IsFiniteSet(K) /\ Before(K, 0) = {} /\ Before(K, n) = K
      /\ Len(ms) = Cardinality(K) /\ DOMAIN ms = 1..Cardinality(K)
      /\ \A i \in K : ms[Cardinality(Before(K, i))] = es[i]
  BY MarkersAre
<1>5. \A i \in 1..n : i \in K <=> es[i].op \in MarkerOps
  BY <1>1 DEF PlacesOf
<1> HIDE DEF n, K, ms
<1>6. P(0)
  <2>1. B(0) = 0
    BY <1>4, FS_EmptySet
  <2>2. NothingPending.ordinal = 1
    BY DEF NothingPending
  <2>3. PendingOK(NothingPending, ms)
    BY NothingPendingOK
  <2> QED
    BY <1>2, <2>1, <2>2, <2>3
<1>7. ASSUME NEW i \in Nat, i + 1 <= n, P(i) PROVE P(i + 1)
  <2> DEFINE p == up[i]
             e == es[i + 1]
             q == up[i + 1]
  <2>1. i + 1 \in 1..n /\ (i + 1) - 1 = i
    BY <1>1, <1>7
  <2>2. q = Counted(p, e) /\ e \in Events
    BY <1>1, <1>2, <2>1, ElementOfSeq DEF n
  <2>3. PendingOK(p, ms) /\ p.ordinal = B(i) + 1
    BY <1>7
  <2>4. /\ B(i) \in Nat
        /\ B(i + 1) = IF i + 1 \in K THEN B(i) + 1 ELSE B(i)
    BY <1>4, OneMore
  <2>5. (i + 1 \in K) <=> e.op \in MarkerOps
    BY <1>5, <2>1
  <2>6. i + 1 \in K => ms[B(i + 1)] = e
    BY <1>4
  <2> HIDE DEF p, e, q, B
  <2>7. e.op \in {"open", "close", "synth"} => ms[p.ordinal] = e
    BY <2>3, <2>4, <2>5, <2>6 DEF MarkerOps
  <2>8. /\ PendingOK(q, ms)
        /\ q.ordinal = IF e.op \in {"open", "close", "synth"} THEN p.ordinal + 1 ELSE p.ordinal
    BY <2>2, <2>3, <2>7, CountedOK
  <2>9. q.ordinal = B(i + 1) + 1
    BY <2>3, <2>4, <2>5, <2>8 DEF MarkerOps
  <2> QED
    BY <2>8, <2>9 DEF q
<1> HIDE DEF P
<1>8. n \in S
  <2>1. S \in SUBSET Nat /\ 0 \in S
    BY <1>6
  <2>2. ASSUME NEW i \in S PROVE i + 1 \in S
    <3>1. i + 1 <= n => P(i)
      BY <1>1
    <3>2. i + 1 <= n => P(i + 1)
      BY <1>7, <3>1
    <3> QED
      BY <3>2
  <2> HIDE DEF S
  <2>3. S = Nat
    BY <2>1, <2>2, Induct
  <2> QED
    BY <1>1, <2>3
<1>9. P(n)
  BY <1>1, <1>8
<1>10. Cardinality(K) \in Nat
  BY <1>4, FS_CardinalityType
<1> QED
  BY <1>3, <1>4, <1>9, <1>10 DEF P, ms

\* What PairsCapped says of the pairs, once they are all there.
Pairing(v, prs, ms) ==
    /\ v = DOMAIN prs \cup Range(prs)
    /\ \A c \in DOMAIN prs :
          /\ c \in DOMAIN ms /\ prs[c] \in 1..(c - 1)
          /\ ms[c].class = ms[prs[c]].class
          /\ ms[c].op # "open" /\ ms[prs[c]].op = "open"
          /\ \A d \in DOMAIN prs : prs[d] = prs[c] => c = d
    /\ (\A i \in DOMAIN ms : ms[i].op # "synth") =>
          \A n \in DOMAIN ms : Cardinality({c \in DOMAIN prs : prs[c] <= n /\ n < c}) <= MaxScopes

\* As many pairs are around a marker as openers that were open behind it.
LEMMA AroundIsOver ==
    ASSUME NEW ms, NEW p, PendingOK(p, ms), NEW n \in Nat
    PROVE  LET C == {c \in DOMAIN p.pairs : p.pairs[c] <= n /\ n < c}
           IN  /\ Cardinality(C) \in Nat /\ Cardinality(Over(p, n)) \in Nat
               /\ Cardinality(C) <= Cardinality(Over(p, n))
<1> DEFINE C == {c \in DOMAIN p.pairs : p.pairs[c] <= n /\ n < c}
           T == Over(p, n)
           f == [c \in C |-> p.pairs[c]]
<1>1. /\ p.ordinal \in Nat
      /\ \A x \in DOMAIN p.pairs :
            /\ x \in 1..(p.ordinal - 1) /\ p.pairs[x] \in 1..(x - 1)
            /\ \A y \in DOMAIN p.pairs : p.pairs[y] = p.pairs[x] => y = x
  BY DEF PendingOK, PairsOK
<1>2. IsFiniteSet(T)
  <2>1. \A o \in T : o \in 1..n
    <3>1. \A o \in Counts(p) : o \in 1..(p.ordinal - 1)
      BY DEF Counts
    <3> QED
      BY <1>1, <3>1 DEF Over
  <2> HIDE DEF T
  <2>2. T \in SUBSET (1..n) /\ IsFiniteSet(1..n)
    BY <2>1, FS_Interval
  <2> QED
    BY <2>2, FS_Subset
<1>3. f \in [C -> T]
  <2>1. \A c \in C : p.pairs[c] \in T
    BY DEF Over
  <2> HIDE DEF C, T
  <2> QED
    BY <2>1
<1>4. \A c, d \in C : f[c] = f[d] => c = d
  BY <1>1
<1> HIDE DEF f, C, T
<1>5. f \in Injection(C, T)
  BY <1>3, <1>4 DEF Injection, IsInjective
<1>6. IsFiniteSet(C) /\ Cardinality(C) <= Cardinality(T)
  BY <1>2, <1>5, FS_Injection
<1>7. Cardinality(C) \in Nat /\ Cardinality(T) \in Nat
  BY <1>2, <1>6, FS_CardinalityType
<1> QED
  BY <1>6, <1>7 DEF C, T

\* The pairs that were not broken join the others.
LEMMA FinishedOK ==
    ASSUME NEW ms, NEW p, PendingOK(p, ms), DOMAIN ms = 1..(p.ordinal - 1)
    PROVE  Pairing(FinishedQueues(p).valid, FinishedQueues(p).pairs, ms)
<1> DEFINE w == p.weak
           closers == {w[i].close : i \in DOMAIN w}
           opens == {w[i].open : i \in DOMAIN w}
           Of(c) == CHOOSE i \in DOMAIN w : w[i].close = c
           prs == FinishedQueues(p).pairs
           v == FinishedQueues(p).valid
<1>1. /\ DOMAIN p = Parts /\ p.ordinal \in Nat \ {0} /\ Rest(p, ms) /\ CapOK(p, ms)
      /\ DOMAIN w = 1..Len(w) /\ Len(w) \in Nat
  <2>1. DOMAIN p = Parts /\ p.ordinal \in Nat \ {0} /\ Rest(p, ms) /\ CapOK(p, ms)
    BY DEF PendingOK, Rest
  <2>2. w \in Seq(Partners)
    BY <2>1 DEF Rest, WeakOK
  <2> QED
    BY <2>1, <2>2, LenProperties
<1>2. /\ v = p.valid \cup closers \cup opens
      /\ prs = [c \in DOMAIN p.pairs \cup closers |->
                   IF c \in closers THEN w[Of(c)].open ELSE p.pairs[c]]
  BY <1>1 DEF FinishedQueues, Parts
<1>3. \A i \in DOMAIN w :
         /\ w[i].close \in 1..(p.ordinal - 1)
         /\ w[i].open \in 1..(w[i].close - 1)
         /\ ms[w[i].open].op = "open" /\ ms[w[i].open].class = w[i].class
         /\ ms[w[i].close].op = "synth" /\ ms[w[i].close].class = w[i].class
         /\ \A j \in DOMAIN w : w[j].open = w[i].open \/ w[j].close = w[i].close => j = i
  BY <1>1 DEF Rest, WeakOK, OpenerOf
<1>4. /\ p.valid = DOMAIN p.pairs \cup {p.pairs[x] : x \in DOMAIN p.pairs}
      /\ \A x \in DOMAIN p.pairs :
            /\ x \in 1..(p.ordinal - 1) /\ p.pairs[x] \in 1..(x - 1)
            /\ ms[p.pairs[x]].op = "open" /\ ms[x].op # "open"
            /\ ms[x].class = ms[p.pairs[x]].class
            /\ \A y \in DOMAIN p.pairs : p.pairs[y] = p.pairs[x] => y = x
            /\ \A i \in DOMAIN w : w[i].open # p.pairs[x] /\ w[i].close # x
  BY <1>1 DEF Rest, PairsOK
<1>5. \A i \in DOMAIN w : w[i].close \in closers /\ Of(w[i].close) = i
  BY <1>3
<1>6. \A c \in closers : \E i \in DOMAIN w : c = w[i].close
  OBVIOUS
<1> HIDE DEF w, Of, v, prs
<1>7. /\ DOMAIN prs = DOMAIN p.pairs \cup closers
      /\ \A i \in DOMAIN w : prs[w[i].close] = w[i].open
      /\ \A x \in DOMAIN p.pairs : prs[x] = p.pairs[x]
  <2> HIDE DEF closers
  <2>1. DOMAIN prs = DOMAIN p.pairs \cup closers
    BY <1>2
  <2>2. \A i \in DOMAIN w : prs[w[i].close] = w[i].open
    BY <1>2, <1>5
  <2>3. \A x \in DOMAIN p.pairs : x \notin closers
    BY <1>4, <1>6
  <2>4. \A x \in DOMAIN p.pairs : prs[x] = p.pairs[x]
    BY <1>2, <2>3
  <2> QED
    BY <2>1, <2>2, <2>4
<1>8. \A c \in DOMAIN prs : c \in DOMAIN p.pairs \/ \E i \in DOMAIN w : c = w[i].close
  BY <1>6, <1>7
<1>9. v = DOMAIN prs \cup Range(prs)
  <2>1. Range(prs) = {p.pairs[x] : x \in DOMAIN p.pairs} \cup opens
    <3>1. ASSUME NEW c \in DOMAIN prs
          PROVE  prs[c] \in {p.pairs[x] : x \in DOMAIN p.pairs} \cup opens
      BY <1>7, <1>8
    <3>2. ASSUME NEW x \in DOMAIN p.pairs PROVE p.pairs[x] \in Range(prs)
      BY <1>7 DEF Range
    <3>3. ASSUME NEW i \in DOMAIN w PROVE w[i].open \in Range(prs)
      BY <1>5, <1>7 DEF Range
    <3>4. \A o \in Range(prs) : o \in {p.pairs[x] : x \in DOMAIN p.pairs} \cup opens
      BY <3>1 DEF Range
    <3>5. \A o \in {p.pairs[x] : x \in DOMAIN p.pairs} \cup opens : o \in Range(prs)
      BY <3>2, <3>3
    <3> QED
      BY ONLY <3>4, <3>5
  <2> HIDE DEF closers, opens
  <2> QED
    BY <1>2, <1>4, <1>7, <2>1
<1>10. ASSUME NEW c \in DOMAIN prs
       PROVE  /\ c \in DOMAIN ms /\ prs[c] \in 1..(c - 1)
              /\ ms[c].class = ms[prs[c]].class
              /\ ms[c].op # "open" /\ ms[prs[c]].op = "open"
              /\ \A d \in DOMAIN prs : prs[d] = prs[c] => c = d
  <2>1. CASE c \in DOMAIN p.pairs
    <3>1. prs[c] = p.pairs[c]
      BY <1>7, <2>1
    <3>2. ASSUME NEW d \in DOMAIN prs, prs[d] = prs[c] PROVE c = d
      <4>1. CASE d \in DOMAIN p.pairs
        BY <1>4, <1>7, <2>1, <3>2, <4>1
      <4>2. CASE \E i \in DOMAIN w : d = w[i].close
        BY <1>4, <1>7, <2>1, <3>2, <4>2
      <4> QED
        BY <1>8, <4>1, <4>2
    <3> QED
      BY <1>4, <2>1, <3>1, <3>2
  <2>2. CASE \E i \in DOMAIN w : c = w[i].close
    <3>1. PICK i \in DOMAIN w : c = w[i].close
      BY <2>2
    <3>2. prs[c] = w[i].open
      BY <1>7, <3>1
    <3>3. ASSUME NEW d \in DOMAIN prs, prs[d] = prs[c] PROVE c = d
      <4>1. CASE d \in DOMAIN p.pairs
        BY <1>4, <1>7, <3>2, <3>3, <4>1
      <4>2. CASE \E j \in DOMAIN w : d = w[j].close
        BY <1>3, <1>7, <3>1, <3>2, <3>3, <4>2
      <4> QED
        BY <1>8, <4>1, <4>2
    <3> QED
      BY <1>3, <3>1, <3>2, <3>3
  <2> QED
    BY <1>8, <2>1, <2>2
<1>11. ASSUME \A i \in DOMAIN ms : ms[i].op # "synth", NEW n \in DOMAIN ms
       PROVE  Cardinality({c \in DOMAIN prs : prs[c] <= n /\ n < c}) <= MaxScopes
  <2>1. FromSource(p, ms)
    BY <1>11 DEF FromSource
  <2>2. w = << >> /\ Cardinality(Over(p, n)) <= MaxScopes
    BY <1>1, <1>11, <2>1 DEF CapOK, w
  <2>3. DOMAIN prs = DOMAIN p.pairs /\ \A x \in DOMAIN prs : prs[x] = p.pairs[x]
    <3>1. DOMAIN w = {}
      BY <2>2
    <3> QED
      BY <1>7, <3>1
  <2>4. {c \in DOMAIN prs : prs[c] <= n /\ n < c}
           = {c \in DOMAIN p.pairs : p.pairs[c] <= n /\ n < c}
    BY <2>3
  <2>5. n \in Nat
    BY <1>1
  <2>6. LET C == {c \in DOMAIN p.pairs : p.pairs[c] <= n /\ n < c}
        IN  /\ Cardinality(C) \in Nat /\ Cardinality(Over(p, n)) \in Nat
            /\ Cardinality(C) <= Cardinality(Over(p, n))
    BY <2>5, AroundIsOver
  <2> DEFINE C == {c \in DOMAIN p.pairs : p.pairs[c] <= n /\ n < c}
  <2>7. /\ Cardinality(C) \in Nat /\ Cardinality(Over(p, n)) \in Nat
        /\ Cardinality(C) <= Cardinality(Over(p, n))
    BY <2>6
  <2> HIDE DEF C
  <2>8. Cardinality(C) <= MaxScopes
    BY <2>2, <2>7, InlineScopesAssumption
  <2> QED
    BY <2>4, <2>8 DEF C
<1> QED
  BY <1>9, <1>10, <1>11 DEF Pairing, v, prs

\* However markers cross and closers take openers back, each has one partner at most,
\* and no more pairs overlap than PendingScopes accepts at once.
THEOREM PairsKept == ScopesSpec => []PairsCapped
<1> DEFINE P == mode # "collect" => Pairing(valid, pairs, MarkersOf(stream))
<1>1. PairsCapped <=> P
  BY DEF PairsCapped, Pairing
<1>2. ScopesInit => P
  BY DEF ScopesInit, Unread
<1>3. ASSUME IInv, P, [ScopesNext]_scopesVars PROVE P'
  <2>1. CASE Collect
    <3> DEFINE q == Collected(stream)
               p == FinishedQueues(q)
    <3>1. stream' = stream /\ valid' = p.valid /\ pairs' = p.pairs
      BY <2>1 DEF Collect
    <3>2. PendingOK(q, MarkersOf(stream)) /\ DOMAIN MarkersOf(stream) = 1..(q.ordinal - 1)
      <4>1. stream \in Seq(Events)
        BY <1>3 DEF IInv
      <4>2. /\ PendingOK(q, MarkersOf(stream)) /\ q.ordinal = Len(MarkersOf(stream)) + 1
            /\ Len(MarkersOf(stream)) \in Nat /\ DOMAIN MarkersOf(stream) = 1..Len(MarkersOf(stream))
        BY <4>1, CollectedOK
      <4> HIDE DEF q
      <4> QED
        BY <4>2
    <3> HIDE DEF q
    <3>3. Pairing(p.valid, p.pairs, MarkersOf(stream))
      BY <3>2, FinishedOK
    <3> HIDE DEF p
    <3> QED
      BY <3>1, <3>3
  <2>2. CASE ~Collect
    <3>1. mode # "collect" \/ UNCHANGED scopesVars
      BY <1>3, <2>2 DEF ScopesNext, OpenScope, CloseAsText, CloseScope, CloseSpan, CloseAnchorScope,
            Closer, Event, KeepWhole, StartParagraph, StartInner, EnterBlock, LeaveBlock,
            TidyLast, TidyCrossed, TidyNone, TidyReopen
    <3>2. stream' = stream /\ valid' = valid /\ pairs' = pairs
      BY <1>3, <2>2 DEF ScopesNext, OpenScope, CloseAsText, CloseScope, CloseSpan, CloseAnchorScope,
            Closer, Event, KeepWhole, StartParagraph, StartInner, EnterBlock, LeaveBlock,
            TidyLast, TidyCrossed, TidyNone, TidyReopen, scopesVars
    <3>3. Pairing(valid', pairs', MarkersOf(stream')) <=> Pairing(valid, pairs, MarkersOf(stream))
      BY <3>2
    <3>4. mode' # "collect" => mode # "collect"
      BY <3>1 DEF scopesVars
    <3> QED
      BY <1>3, <3>3, <3>4
  <2> QED
    BY <2>1, <2>2
<1>4. IInv /\ P /\ [ScopesNext]_scopesVars => P'
  BY <1>3
<1>5. ScopesSpec => []P
  BY <1>2, <1>4, Invariance, PTL DEF ScopesSpec
<1> QED
  BY <1>1, <1>5, PTL

-----------------------------------------------------------------------------
(* The scopes nest as InlineStack says *)

\* InlineStack has the operators on sequences that InlineScopes has.
LEMMA SameOperators ==
    /\ \A s, t : Stack!Contains(s, t) <=> Contains(s, t)
    /\ \A s : Stack!Front(s) = Front(s) /\ Stack!Last(s) = Last(s)
    /\ \A s, is : Stack!Picked(s, is) = Picked(s, is)
    /\ \A s : Stack!Popped(s) = PopLast(s)
<1>1. \A s : Stack!Front(s) = Front(s)
  BY DEF Stack!Front, Front
<1>0. \A is : Stack!Cardinality(is) = Cardinality(is)
  BY DEF Stack!Cardinality, Cardinality
<1>4. \A is, k : Stack!Place(is, k) = Place(is, k)
  BY <1>0 DEF Stack!Place, Place
<1>2. ASSUME NEW s, NEW is PROVE Stack!Picked(s, is) = Picked(s, is)
  <2>1. Stack!Picked(s, is)
           = [k \in 1..Stack!Cardinality(is) |-> s[Stack!Place(is, k)]]
    BY DEF Stack!Picked
  <2>2. Picked(s, is) = [k \in 1..Cardinality(is) |-> s[Place(is, k)]]
    BY DEF Picked
  <2> QED
    BY ONLY <2>1, <2>2, <1>0, <1>4
<1>3. \A s : Stack!Popped(s) = PopLast(s)
  BY <1>1 DEF Stack!Popped, PopLast
<1> QED
  BY <1>1, <1>2, <1>3 DEF Stack!Contains, Contains, Stack!Last, Last

LEMMA Mapped ==
    ASSUME stream' = stream
    PROVE  /\ Plain' = Plain
           /\ AsOpen'  = IF Plain THEN TagsOf(active') ELSE << >>
           /\ AsStack' = IF Plain THEN StackTags(active') ELSE << >>
           /\ AsClose' = IF Plain /\ mode' = "close" THEN closing'.tag ELSE "none"
           /\ AsSlot'  = IF Plain THEN closing'.slot ELSE 0
           /\ AsMode'  = IF Plain /\ mode' \in {"close", "reopen"} THEN mode' ELSE "read"
  BY DEF Plain, AsOpen, AsStack, AsClose, AsSlot, AsMode, TagsOf, StackTags, Tag

\* With anchors or block frames nothing is said.
LEMMA OtherwiseIdle ==
    ASSUME stream' = stream, ~Plain
    PROVE  UNCHANGED Stack!vars
<1>1. /\ AsOpen' = AsOpen /\ AsStack' = AsStack /\ AsClose' = AsClose
      /\ AsSlot' = AsSlot /\ AsMode' = AsMode
  BY Mapped DEF AsOpen, AsStack, AsClose, AsSlot, AsMode
<1> QED
  BY <1>1 DEF Stack!vars

LEMMA Idle ==
    ASSUME stream' = stream, TagsOf(active') = TagsOf(active),
           StackTags(active') = StackTags(active), closing' = closing,
           mode' = mode \/ (mode \in {"collect", "read"} /\ mode' \in {"collect", "read"})
    PROVE  UNCHANGED Stack!vars
<1>1. /\ AsOpen' = AsOpen /\ AsStack' = AsStack /\ AsSlot' = AsSlot
  BY Mapped DEF AsOpen, AsStack, AsSlot
<1>2. AsClose' = AsClose /\ AsMode' = AsMode
  BY Mapped DEF AsClose, AsMode
<1> QED
  BY <1>1, <1>2 DEF Stack!vars

\* What a step starts from when it reads an element.
LEMMA Reading ==
    ASSUME IInv, Plain, mode = "read"
    PROVE  /\ AsOpen = TagsOf(active) /\ AsStack = StackTags(active)
           /\ AsClose = "none" /\ AsSlot = 0 /\ AsMode = "read"
  BY DEF IInv, ClosingOK, NotClosing, AsOpen, AsStack, AsClose, AsSlot, AsMode

\* What it leaves if it goes on reading.
LEMMA ReadsOn ==
    ASSUME IInv, Plain, mode = "read", stream' = stream, mode' = mode, closing' = closing
    PROVE  /\ AsOpen' = TagsOf(active') /\ AsStack' = StackTags(active')
           /\ AsClose' = AsClose /\ AsSlot' = AsSlot /\ AsMode' = AsMode
  BY Reading, Mapped DEF IInv, ClosingOK, NotClosing

LEMMA InitStack == ScopesInit => Stack!Init
<1> SUFFICES ASSUME ScopesInit PROVE Stack!Init
  OBVIOUS
<1>1. /\ active = [scopes |-> << >>, chain |-> << >>, istack |-> << >>, opened |-> << >>,
                   watches |-> << >>]
      /\ closing.slot = 0 /\ mode = "collect"
  BY DEF ScopesInit, Unread, NothingActive, NotClosing
<1>2. active.chain = << >> /\ active.istack = << >>
  BY <1>1
<1>3. TagsOf(active) = << >> /\ StackTags(active) = << >>
  BY <1>2 DEF TagsOf, StackTags
<1> QED
  BY <1>1, <1>3 DEF Stack!Init, AsOpen, AsStack, AsClose, AsSlot, AsMode

LEMMA OpenScopeStack ==
    ASSUME IInv, Plain, OpenScope
    PROVE  [Stack!MarkerStep]_Stack!vars
<1>1. /\ stream' = stream /\ mode = "read" /\ closing' = closing /\ mode' = mode
      /\ Class # "anchor" /\ Class \in Classes
  BY EventIs DEF OpenScope
<1>2. CASE ordinal \notin valid
  <2>1. active' = active
    BY <1>2, OpenIs
  <2> QED
    BY <1>1, <2>1, Idle
<1>3. CASE ordinal \in valid
  <2> DEFINE t == TagOf[Class]
  <2>1. t \in Tags
    BY <1>1 DEF Tags
  <2>2. /\ TagsOf(active') = Append(TagsOf(active), t)
        /\ StackTags(active') = IF IsStacked(active, t) THEN StackTags(active)
                                ELSE Append(StackTags(active), t)
    BY <1>1, <1>3, OpenIs DEF OpensTo
  <2>3. IsStacked(active, t) <=> Contains(StackTags(active), t)
    BY Stacked DEF IInv
  <2> HIDE DEF t
  <2>4. Stack!Stacked(t) = IF Contains(AsStack, t) THEN AsStack ELSE Append(AsStack, t)
    BY SameOperators DEF Stack!Stacked
  <2>5. Stack!Open(t)
    BY <1>1, <2>2, <2>3, <2>4, Reading, ReadsOn DEF Stack!Open
  <2> QED
    BY <2>1, <2>5 DEF Stack!MarkerStep
<1> QED
  BY <1>2, <1>3

LEMMA NoAnchorAbove ==
    ASSUME IInv, Plain, NEW p
    PROVE  ~HasAnchorAbove(active, p)
<1>1. /\ DOMAIN active.chain = 1..Len(active.chain)
      /\ \A i \in 1..Len(active.chain) : active.chain[i] \in 1..Len(active.scopes)
      /\ \A i \in 1..Len(active.scopes) : active.scopes[i].class # "anchor"
  BY TagsAre DEF IInv, ActiveOK, NoAnchors
<1> QED
  BY <1>1 DEF HasAnchorAbove, IsAnchor

LEMMA CloserStack ==
    ASSUME IInv, Plain, CloseAsText \/ CloseScope \/ CloseSpan \/ CloseAnchorScope
    PROVE  [Stack!MarkerStep]_Stack!vars
<1>1. Closer
  BY DEF CloseAsText, CloseScope, CloseSpan, CloseAnchorScope
<1>2. /\ TagOf[Class] \in Tags /\ mode = "read" /\ stream' = stream
      /\ ActiveOK(active) /\ closing = NotClosing /\ Class # "anchor"
  BY <1>1, CloserIs DEF IInv, ClosingOK
<1>3. ASSUME active' = active, UNCHANGED <<closing, mode>> PROVE UNCHANGED Stack!vars
  BY <1>2, <1>3, Idle
<1>4. ASSUME active' = active, active.chain # << >>, ClosesAs(TagOf[Class])
      PROVE  Stack!MarkerStep
  <2> DEFINE t == TagOf[Class]
  <2>1. /\ closing'.tag = t /\ closing'.slot = 0 /\ mode' = "close"
    BY <1>4 DEF ClosesAs, NotClosing
  <2>2. /\ AsOpen' = AsOpen /\ AsStack' = AsStack /\ AsClose' = t /\ AsSlot' = AsSlot
        /\ AsMode' = "close" /\ AsMode = "read"
    BY <1>2, <1>4, <2>1, Reading, Mapped
  <2>3. AsOpen # << >>
    <3>1. Len(TagsOf(active)) = Len(active.chain) /\ active.chain \in Seq(Nat)
      BY <1>2, TagsAre DEF ActiveOK
    <3>2. Len(active.chain) # 0
      BY <1>4, <3>1, EmptySeq
    <3>3. TagsOf(active) # << >>
      BY <3>1, <3>2
    <3> QED
      BY <1>2, <3>3, Reading
  <2>4. Stack!Close(t)
    BY <2>2, <2>3 DEF Stack!Close
  <2> QED
    BY <1>2, <2>4 DEF Stack!MarkerStep
<1>5. \A number, t : ResolveClose(active, number, t) # 0 => active.chain # << >>
  BY <1>2, ResolvedIs
<1>6. CASE CloseAsText
  BY <1>3, <1>6 DEF CloseAsText
<1>7. CASE CloseScope
  <2> DEFINE p == ResolveClose(active, ordinal, TagOf[Class])
  <2>1. ~HasAnchorAbove(active, p)
    BY NoAnchorAbove
  <2>2. p # 0 => active.chain # << >>
    BY <1>5
  <2>3. /\ active' = active
        /\ IF p # 0 \/ (Class = "size" /\ active.chain # << >>)
             THEN ClosesAs(TagOf[Class])
             ELSE UNCHANGED <<closing, mode>>
    BY <1>7, <2>1 DEF CloseScope
  <2> HIDE DEF p
  <2> QED
    BY <1>3, <1>4, <2>2, <2>3
<1>8. CASE CloseSpan
  <2>1. ~HasAnchorAbove(active, ResolveClose(active, ordinal, TagOf[Class]))
    BY NoAnchorAbove
  <2>2. /\ active' = active
        /\ IF active.chain # << >> THEN ClosesAs(TagOf[Class])
           ELSE UNCHANGED <<closing, mode>>
    BY <1>8, <2>1 DEF CloseSpan
  <2> QED
    BY <1>3, <1>4, <2>2
<1>9. CASE CloseAnchorScope
  BY <1>2, <1>9 DEF CloseAnchorScope
<1> QED
  BY <1>6, <1>7, <1>8, <1>9

LEMMA KeepWholeStack ==
    ASSUME IInv, Plain, KeepWhole
    PROVE  Stack!MarkerStep
<1> DEFINE t == TagOf[Class]
           s == StackTags(active)
<1>1. /\ stream' = stream /\ mode = "read" /\ closing' = closing /\ mode' = mode
      /\ Class \in Classes
  BY EventIs DEF KeepWhole
<1>2. t \in Tags
  BY <1>1 DEF Tags
<1>3. ActiveOK(active) /\ s \in Seq(Tags)
  BY TagsAre DEF IInv
<1>4. /\ TagsOf(active') = TagsOf(active)
      /\ StackTags(active') = IF IsStacked(active, t) THEN PopLast(s) ELSE s
  BY <1>3, WholePoppingIs DEF KeepWhole
<1>5. IsStacked(active, t) <=> Contains(s, t)
  BY <1>3, Stacked
<1> HIDE DEF t
<1>6. /\ AsOpen = TagsOf(active) /\ AsStack = s /\ AsMode = "read"
      /\ AsOpen' = TagsOf(active') /\ AsStack' = StackTags(active')
      /\ AsClose' = AsClose /\ AsSlot' = AsSlot /\ AsMode' = AsMode
  BY <1>1, Reading, ReadsOn
<1> HIDE DEF s
<1>7. StackTags(active') = Stack!Popped(Stack!Stacked(t))
  <2>1. CASE Contains(s, t)
    BY <1>4, <1>5, <1>6, <2>1, SameOperators DEF Stack!Stacked
  <2>2. CASE ~Contains(s, t)
    <3>1. Stack!Stacked(t) = Append(s, t)
      BY <1>6, <2>2, SameOperators DEF Stack!Stacked
    <3>2. Append(s, t) # << >> /\ Front(Append(s, t)) = s
      <4>1. /\ Append(s, t) \in Seq(Tags) /\ Len(Append(s, t)) = Len(s) + 1
            /\ Len(s) \in Nat /\ \A k \in 1..Len(s) : Append(s, t)[k] = s[k]
        BY <1>2, <1>3, AppendProperties, LenProperties
      <4>2. Append(s, t) # << >>
        BY <4>1
      <4>3. Front(Append(s, t)) = SubSeq(Append(s, t), 1, Len(s))
        BY <4>1 DEF Front
      <4>4. /\ SubSeq(Append(s, t), 1, Len(s)) \in Seq(Tags)
            /\ Len(SubSeq(Append(s, t), 1, Len(s))) = Len(s)
            /\ \A k \in 1..Len(s) : SubSeq(Append(s, t), 1, Len(s))[k] = s[k]
        BY <4>1, ElementOfSeq
      <4>5. SubSeq(Append(s, t), 1, Len(s)) = s
        BY <1>3, <4>4, SeqEqual
      <4> QED
        BY <4>2, <4>3, <4>5
    <3> QED
      BY <1>4, <1>5, <2>2, <3>1, <3>2, SameOperators DEF PopLast
  <2> QED
    BY <2>1, <2>2
<1>8. Stack!Whole(t)
  BY <1>4, <1>6, <1>7 DEF Stack!Whole
<1> QED
  BY <1>2, <1>8 DEF Stack!MarkerStep

LEMMA StartParagraphStack ==
    ASSUME IInv, Plain, StartParagraph
    PROVE  Stack!LoweredNext
<1> DEFINE s == TagsOf(active)
<1>1. /\ stream' = stream /\ mode = "read" /\ closing' = closing /\ mode' = mode
      /\ active' = Synced(active)
  BY EventIs DEF StartParagraph
<1>2. ActiveOK(active) /\ NoAnchors(active)
  BY DEF IInv
<1>3. /\ StackTags(active') = StackTags(active)
      /\ TagsOf(active') = Picked(s, {i \in DOMAIN s : /\ Contains(StackTags(active), s[i])
                                                       /\ \A j \in 1..(i - 1) : s[j] # s[i]})
  BY <1>1, <1>2, SyncedIs
<1> HIDE DEF s
<1>4. /\ AsOpen = s /\ AsStack = StackTags(active) /\ AsMode = "read"
      /\ AsOpen' = TagsOf(active') /\ AsStack' = StackTags(active')
      /\ AsClose' = AsClose /\ AsSlot' = AsSlot /\ AsMode' = AsMode
  BY <1>1, Reading, ReadsOn DEF s
<1>5. AsOpen' = Picked(AsOpen, {i \in DOMAIN AsOpen : /\ Contains(AsStack, AsOpen[i])
                                                      /\ \A j \in 1..(i - 1) : AsOpen[j] # AsOpen[i]})
  BY <1>3, <1>4
<1>6. Stack!OutermostStay
  <2>1. \A i : Stack!Stays(i) <=> /\ Contains(AsStack, AsOpen[i])
                                  /\ \A j \in 1..(i - 1) : AsOpen[j] # AsOpen[i]
    BY SameOperators DEF Stack!Stays
  <2>2. AsOpen' = Stack!Picked(AsOpen, {i \in DOMAIN AsOpen : Stack!Stays(i)})
    <3>1. {i \in DOMAIN AsOpen : Stack!Stays(i)}
             = {i \in DOMAIN AsOpen : /\ Contains(AsStack, AsOpen[i])
                                      /\ \A j \in 1..(i - 1) : AsOpen[j] # AsOpen[i]}
      BY <2>1
    <3> QED
      BY <1>5, <3>1, SameOperators
  <2> QED
    BY <1>3, <1>4, <2>2 DEF Stack!OutermostStay
<1> QED
  BY <1>6 DEF Stack!LoweredNext

\* What a close works on, and what it leaves.
LEMMA Closing ==
    ASSUME IInv, Plain, mode \in {"close", "reopen"}
    PROVE  /\ AsOpen = TagsOf(active) /\ AsStack = StackTags(active)
           /\ AsClose = IF mode = "close" THEN closing.tag ELSE "none"
           /\ AsSlot = closing.slot /\ AsMode = mode
           /\ ActiveOK(active)
           /\ AsOpen \in Seq(Tags) /\ AsStack \in Seq(Tags)
           /\ DOMAIN AsStack = 1..Len(active.istack)
           /\ active.chain # << >> <=> AsOpen # << >>
           /\ active.chain # << >> => Tag(active, TopScope) = Last(AsOpen)
<1>1. /\ AsOpen = TagsOf(active) /\ AsStack = StackTags(active)
      /\ AsClose = IF mode = "close" THEN closing.tag ELSE "none"
      /\ AsSlot = closing.slot /\ AsMode = mode
  BY DEF AsOpen, AsStack, AsClose, AsSlot, AsMode
<1>2. ActiveOK(active) /\ active.chain \in Seq(Nat)
  BY DEF IInv, ActiveOK
<1>3. /\ AsOpen \in Seq(Tags) /\ AsStack \in Seq(Tags)
      /\ Len(AsOpen) = Len(active.chain) /\ Len(AsStack) = Len(active.istack)
  BY <1>1, <1>2, TagsAre
<1>4. active.chain # << >> <=> AsOpen # << >>
  <2>1. active.chain # << >> <=> Len(active.chain) # 0
    BY <1>2, EmptySeq
  <2>2. AsOpen # << >> <=> Len(AsOpen) # 0
    BY <1>3, EmptySeq
  <2> QED
    BY <1>3, <2>1, <2>2
<1>5. active.chain # << >> => Tag(active, TopScope) = Last(AsOpen)
  BY <1>1, <1>2, LastInChain DEF TopScope
<1>6. DOMAIN AsStack = 1..Len(active.istack)
  BY <1>3
<1> QED
  BY <1>1, <1>2, <1>3, <1>4, <1>5, <1>6

LEMMA TidyLastStack ==
    ASSUME IInv, Plain, TidyLast
    PROVE  Stack!MarkerStep
<1>1. /\ stream' = stream /\ mode = "close" /\ active.chain # << >>
  BY DEF TidyLast
<1>2. /\ AsOpen' = Front(AsOpen) /\ AsStack' = PopLast(AsStack)
  BY <1>1, Closing, Mapped, TopEndsTo
<1>3. AsOpen # << >> /\ AsMode = "close" /\ AsSlot = closing.slot
  BY <1>1, Closing
<1>4. Last(AsOpen) = AsClose \/ ~Stack!Crosses(AsClose)
  <2>1. \/ Last(AsOpen) = AsClose
        \/ ~\E i, j \in DOMAIN active.istack : CrossAt(i, j)
    BY <1>1, Closing DEF TidyLast
  <2>2. ASSUME Stack!Crosses(AsClose) PROVE \E i, j \in DOMAIN active.istack : CrossAt(i, j)
    <3>1. PICK i \in DOMAIN AsStack, j \in DOMAIN AsStack :
             i < j /\ AsStack[i] = AsClose /\ AsStack[j] = Last(AsOpen)
      BY <2>2, SameOperators DEF Stack!Crosses
    <3>2. /\ DOMAIN AsStack = DOMAIN active.istack
          /\ \A k \in DOMAIN AsStack : AsStack[k] = TagOf[active.istack[k].class]
      BY <1>1, Closing DEF StackTags
    <3>3. CrossAt(i, j)
      BY <1>1, <3>1, <3>2, Closing DEF CrossAt
    <3> QED
      BY <3>2, <3>3
  <2> QED
    BY <2>1, <2>2
<1>5. AsSlot' = AsSlot /\ Stack!Closed
  <2>1. CASE closing.slot = 0
    <3>1. closing'.slot = 0 /\ mode' = "read"
      BY <2>1 DEF TidyLast, NotClosing
    <3> QED
      BY <1>1, <1>3, <2>1, <3>1, Mapped DEF Stack!Closed
  <2>2. CASE closing.slot # 0
    <3>1. /\ closing' = [closing EXCEPT !.ended = closing.ended \cup {TopScope}]
          /\ mode' = "reopen"
      BY <2>2 DEF TidyLast
    <3>2. closing'.slot = closing.slot
      BY <3>1 DEF IInv, ClosingOK
    <3> QED
      BY <1>1, <1>3, <2>2, <3>1, <3>2, Mapped DEF Stack!Closed
  <2> QED
    BY <2>1, <2>2
<1>6. Stack!CloseLast
  BY <1>2, <1>3, <1>4, <1>5, SameOperators DEF Stack!CloseLast
<1> QED
  BY <1>6 DEF Stack!MarkerStep

LEMMA TidyCrossedStack ==
    ASSUME IInv, Plain, TidyCrossed
    PROVE  Stack!MarkerStep
<1>1. /\ stream' = stream /\ mode = "close" /\ mode' = mode /\ active.chain # << >>
      /\ Tag(active, TopScope) # closing.tag
  BY DEF TidyCrossed
<1>2. PICK i, j : CrossedTo(i, j)
  BY CrossedToIs
<1>3. /\ AsOpen # << >> /\ AsMode = "close" /\ Last(AsOpen) # AsClose
      /\ DOMAIN AsStack = 1..Len(active.istack)
      /\ AsClose = closing.tag
  BY <1>1, Closing
<1>4. closing'.slot = i /\ closing'.tag = closing.tag
  BY <1>2 DEF CrossedTo, IInv, ClosingOK
<1>5. /\ i \in DOMAIN AsStack /\ j \in DOMAIN AsStack /\ i < j
      /\ AsStack[i] = AsClose /\ AsStack[j] = Last(AsOpen)
      /\ AsStack' = [AsStack EXCEPT ![i] = AsStack[j], ![j] = AsStack[i]]
      /\ AsOpen' = Front(AsOpen)
  BY <1>1, <1>2, <1>3, Closing, Mapped DEF CrossedTo
<1>6. AsSlot' = i /\ AsClose' = AsClose /\ AsMode' = AsMode
  BY <1>1, <1>3, <1>4, Mapped
<1>7. Stack!CloseCrossed
  BY <1>3, <1>5, <1>6, SameOperators DEF Stack!CloseCrossed
<1> QED
  BY <1>7 DEF Stack!MarkerStep

LEMMA TidyNoneStack ==
    ASSUME IInv, Plain, TidyNone
    PROVE  Stack!MarkerStep
<1>1. /\ stream' = stream /\ mode = "close" /\ mode' = "reopen" /\ active.chain = << >>
      /\ active' = active /\ closing' = closing
  BY DEF TidyNone
<1>2. /\ AsOpen = << >> /\ AsMode = "close"
      /\ AsOpen' = AsOpen /\ AsStack' = AsStack /\ AsSlot' = AsSlot
      /\ AsClose' = "none" /\ AsMode' = "reopen"
  BY <1>1, Closing, Mapped
<1>3. Stack!NoneLeft
  BY <1>2 DEF Stack!NoneLeft
<1> QED
  BY <1>3 DEF Stack!MarkerStep

LEMMA TidyReopenStack ==
    ASSUME IInv, Plain, TidyReopen
    PROVE  Stack!MarkerStep
<1>1. /\ stream' = stream /\ mode = "reopen" /\ mode' = "read"
      /\ closing'.slot = 0
  BY DEF TidyReopen, NotClosing
<1>2. /\ AsMode = "reopen" /\ AsSlot = closing.slot /\ AsClose = "none"
      /\ AsMode' = "read" /\ AsSlot' = 0 /\ AsClose' = "none"
  BY <1>1, Closing, Mapped
<1>3. AsStack' = AsStack /\ AsOpen' = AsOpen \o SubSeq(AsStack, AsSlot, Len(AsStack))
  BY <1>1, <1>2, Closing, Mapped, ReopensTo
<1>4. Stack!Reopen
  BY <1>2, <1>3 DEF Stack!Reopen
<1> QED
  BY <1>4 DEF Stack!MarkerStep

\* The step at the end of a paragraph aside.
LEMMA MarkersStack ==
    IInv /\ [ScopesNext]_scopesVars /\ [~StartParagraph]_scopesVars => [Stack!MarkerStep]_Stack!vars
<1> SUFFICES ASSUME IInv, [ScopesNext]_scopesVars, [~StartParagraph]_scopesVars
             PROVE  [Stack!MarkerStep]_Stack!vars
  OBVIOUS
<1>0. ScopesNext \/ UNCHANGED scopesVars
  OBVIOUS
<1>1. stream' = stream
  <2>1. ASSUME NEW op, Event(op) PROVE stream' = stream
    BY <2>1 DEF Event
  <2> QED
    BY <1>0, <2>1 DEF ScopesNext, scopesVars, Collect, OpenScope, CloseAsText, CloseScope, CloseSpan,
                CloseAnchorScope, Closer, KeepWhole, StartParagraph, StartInner, EnterBlock,
                LeaveBlock, TidyLast, TidyCrossed, TidyNone, TidyReopen
<1>2. CASE ~Plain
  BY <1>1, <1>2, OtherwiseIdle
<1>3. CASE Plain
  <2>1. CASE Collect
    BY <1>1, <2>1, Idle DEF Collect
  <2>2. CASE OpenScope
    BY <1>3, <2>2, OpenScopeStack
  <2>3. CASE CloseAsText \/ CloseScope \/ CloseSpan \/ CloseAnchorScope
    BY <1>3, <2>3, CloserStack
  <2>4. CASE KeepWhole
    BY <1>3, <2>4, KeepWholeStack
  <2>5. CASE StartParagraph
    <3>1. UNCHANGED scopesVars
      BY <2>5
    <3> QED
      BY <3>1, Idle DEF scopesVars
  <2>6. CASE StartInner \/ EnterBlock \/ LeaveBlock
    BY <1>3, <2>6, EventIs DEF StartInner, EnterBlock, LeaveBlock
  <2>7. CASE TidyLast
    BY <1>3, <2>7, TidyLastStack
  <2>8. CASE TidyCrossed
    BY <1>3, <2>8, TidyCrossedStack
  <2>9. CASE TidyNone
    BY <1>3, <2>9, TidyNoneStack
  <2>10. CASE TidyReopen
    BY <1>3, <2>10, TidyReopenStack
  <2>11. CASE UNCHANGED scopesVars
    BY <2>11, Idle DEF scopesVars
  <2> QED
    BY <1>0, <2>1, <2>2, <2>3, <2>4, <2>5, <2>6, <2>7, <2>8, <2>9, <2>10, <2>11 DEF ScopesNext
<1> QED
  BY <1>2, <1>3

LEMMA NextStack == IInv /\ [ScopesNext]_scopesVars => [Stack!LoweredNext]_Stack!vars
<1> SUFFICES ASSUME IInv, [ScopesNext]_scopesVars PROVE [Stack!LoweredNext]_Stack!vars
  OBVIOUS
<1>1. CASE StartParagraph /\ Plain
  BY <1>1, StartParagraphStack
<1>2. CASE StartParagraph /\ ~Plain
  BY <1>2, OtherwiseIdle DEF StartParagraph, Event
<1>3. CASE ~StartParagraph
  <2>1. [Stack!MarkerStep]_Stack!vars
    BY <1>3, MarkersStack
  <2> QED
    BY <2>1 DEF Stack!LoweredNext
<1> QED
  BY <1>1, <1>2, <1>3

\* Between the ends of paragraphs the lowering keeps to the document: as long as no other
\* paragraph begins, the open scopes and the stack of a page without anchors and block
\* frames go through what its rules allow, step by step (tidy_close).
THEOREM DocumentBetweenParagraphs ==
    ScopesSpec /\ [][~StartParagraph]_scopesVars => Stack!Spec
<1>1. [Stack!MarkerStep]_Stack!vars => [Stack!Next]_Stack!vars
  BY DEF Stack!Next
<1> QED
  BY <1>1, InitStack, MarkersStack, Invariance, PTL DEF ScopesSpec, Stack!Spec

\* Where a paragraph ends it does not, and what it does there is known: of the open
\* elements that the stack holds the outermost of each name stays, and nothing reopens.
\* With this step for the document's, the open scopes and the stack of every page without
\* anchors and block frames go through what the rules allow (sync_chain_to_istack).
THEOREM Refinement == ScopesSpec => Implements
<1>1. ScopesSpec => Stack!LoweredSpec
  BY InitStack, NextStack, Invariance, PTL DEF ScopesSpec, Stack!LoweredSpec
<1> QED
  BY <1>1 DEF Implements

=============================================================================
