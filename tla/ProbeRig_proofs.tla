-------------------------- MODULE ProbeRig_proofs --------------------------
(***************************************************************************)
(* The scripts keep their promises however many of their commands fail.     *)
(***************************************************************************)
EXTENDS ProbeAnalysis, SequenceTheorems, WellFoundedInduction, TLAPS

-----------------------------------------------------------------------------
(* Numbers and stacks *)

LEMMA LeastNatural ==
  ASSUME NEW S, S \subseteq Nat, S # {}
  PROVE  \E m \in S : \A k \in S : m <= k
<1>1. \E m \in S : \A k \in S : <<k, m>> \notin OpToRel(<, Nat)
  BY NatLessThanWellFounded, WFMin, Zenon
<1>2. ASSUME NEW m \in S, \A k \in S : <<k, m>> \notin OpToRel(<, Nat)
      PROVE  \A k \in S : m <= k
  <2>1. \A k \in S : ~(k < m)
    BY <1>2, Zenon DEF OpToRel
  <2> QED
    BY <2>1
<1> QED
  BY <1>1, <1>2

(* What a script still has to do: items of its blocks, and marks.             *)
MarkKinds == {"except", "cleanup", "end_cleanup"}
StackItems(blocks) ==
  Items(blocks) \cup [do : MarkKinds, of : SUBSET Kinds(blocks), body : {{}}, after : blocks]
Stacks(blocks) == Seq(StackItems(blocks))

Fences == {"cleanup", "end_cleanup"}
CleaningIn(stack) ==
  \E i \in 1..Len(stack) : /\ stack[i].do = "end_cleanup"
                           /\ \A j \in 1..Len(stack) : stack[j].do \in Fences => i <= j

LEMMA CleaningBoolean ==
  ASSUME NEW stack
  PROVE  CleaningIn(stack) \in BOOLEAN
BY DEF CleaningIn

LEMMA CleaningBehind ==
  ASSUME NEW S, NEW s \in Seq(S), NEW r \in Seq(S), \A i \in 1..Len(s) : s[i].do \notin Fences
  PROVE  CleaningIn(s \o r) = CleaningIn(r)
<1> DEFINE t == s \o r
<1>1. /\ Len(t) = Len(s) + Len(r)
      /\ \A i \in 1..Len(s) : t[i] = s[i]
      /\ \A i \in 1..Len(r) : t[i + Len(s)] = r[i]
      /\ Len(s) \in Nat /\ Len(r) \in Nat
  BY ConcatProperties, LenProperties
<1> HIDE DEF t
<1>2. ASSUME CleaningIn(r) PROVE CleaningIn(t)
  <2>1. PICK i \in 1..Len(r) : r[i].do = "end_cleanup" /\ \A j \in 1..Len(r) : r[j].do \in Fences => i <= j
    BY <1>2 DEF CleaningIn
  <2>2. ASSUME NEW j \in 1..Len(t), t[j].do \in Fences PROVE i + Len(s) <= j
    <3>1. ~(j <= Len(s))
      BY <1>1, <2>2
    <3>2. j - Len(s) \in 1..Len(r) /\ t[j - Len(s) + Len(s)] = r[j - Len(s)]
      BY <3>1, <1>1
    <3>3. j - Len(s) + Len(s) = j
      BY <1>1
    <3>4. r[j - Len(s)].do \in Fences
      BY <3>2, <3>3, <2>2
    <3>5. i <= j - Len(s)
      BY <3>2, <3>4, <2>1
    <3> QED
      BY <3>5, <1>1
  <2>3. i + Len(s) \in 1..Len(t) /\ t[i + Len(s)].do = "end_cleanup"
    BY <2>1, <1>1
  <2> QED
    BY <2>2, <2>3 DEF CleaningIn
<1>3. ASSUME CleaningIn(t) PROVE CleaningIn(r)
  <2>1. PICK i \in 1..Len(t) : t[i].do = "end_cleanup" /\ \A j \in 1..Len(t) : t[j].do \in Fences => i <= j
    BY <1>3 DEF CleaningIn
  <2>2. ~(i <= Len(s))
    BY <2>1, <1>1 DEF Fences
  <2> DEFINE k == i - Len(s)
  <2>3. k \in 1..Len(r) /\ i = k + Len(s)
    BY <2>2, <1>1
  <2>4. r[k].do = "end_cleanup"
    <3>1. t[k + Len(s)] = r[k]
      BY <2>3, <1>1
    <3> QED
      BY <2>1, <2>3, <3>1
  <2>5. ASSUME NEW j \in 1..Len(r), r[j].do \in Fences PROVE k <= j
    <3>1. j + Len(s) \in 1..Len(t) /\ t[j + Len(s)].do \in Fences
      BY <2>5, <1>1
    <3>2. i <= j + Len(s)
      BY <3>1, <2>1
    <3> QED
      BY <3>2, <2>3, <1>1
  <2> HIDE DEF k
  <2> QED
    BY <2>3, <2>4, <2>5 DEF CleaningIn
<1> QED
  BY <1>2, <1>3, CleaningBoolean DEF t

LEMMA CleaningAtFence ==
  ASSUME NEW S, NEW m \in S, NEW r \in Seq(S), m.do \in Fences
  PROVE  CleaningIn(<<m>> \o r) = (m.do = "end_cleanup")
<1> DEFINE t == <<m>> \o r
<1>1. /\ Len(t) = 1 + Len(r)
      /\ t[1] = m
      /\ Len(r) \in Nat
  BY ConcatProperties, LenProperties
<1> HIDE DEF t
<1>2. 1 \in 1..Len(t) /\ \A j \in 1..Len(t) : 1 <= j
  BY <1>1
<1>3. ASSUME m.do = "end_cleanup" PROVE CleaningIn(t)
  BY <1>1, <1>2, <1>3 DEF CleaningIn
<1>4. ASSUME CleaningIn(t) PROVE m.do = "end_cleanup"
  <2>1. PICK i \in 1..Len(t) : t[i].do = "end_cleanup" /\ \A j \in 1..Len(t) : t[j].do \in Fences => i <= j
    BY <1>4 DEF CleaningIn
  <2>2. i = 1
    BY <2>1, <1>1, <1>2
  <2> QED
    BY <2>1, <2>2, <1>1
<1> QED
  BY <1>3, <1>4, CleaningBoolean DEF t

-----------------------------------------------------------------------------
(* Where an exception goes *)

Handling(mark, kind) == IF mark.do = "cleanup" THEN Cleanup(mark.after, {kind}) ELSE mark.after
Takers(stack, kind) == {i \in DOMAIN stack : Takes(stack[i], kind)}

LEMMA UnwoundByFirst ==
  ASSUME NEW S, NEW stack \in Seq(S), NEW kind,
         NEW i \in Takers(stack, kind), \A j \in Takers(stack, kind) : i <= j
  PROVE  Unwound(kind, stack) = Handling(stack[i], kind) \o SubSeq(stack, i + 1, Len(stack))
<1> DEFINE T == Takers(stack, kind)
           first == CHOOSE k \in T : \A j \in T : k <= j
<1>1. T \subseteq Nat
  BY LenProperties DEF Takers
<1>2. first \in T /\ \A j \in T : first <= j
  BY Zenon
<1> HIDE DEF first
<1>3. first = i
  BY <1>1, <1>2
<1>4. T # {}
  OBVIOUS
<1> QED
  BY <1>3, <1>4, Zenon DEF Unwound, Handling, Takers, first

LEMMA UnwoundEmpty ==
  ASSUME NEW kind
  PROVE  Unwound(kind, <<>>) = <<>>
BY DEF Unwound

LEMMA UnwoundHere ==
  ASSUME NEW S, NEW stack \in Seq(S), stack # <<>>, NEW kind, Takes(Head(stack), kind)
  PROVE  Unwound(kind, stack) = Handling(Head(stack), kind) \o Tail(stack)
<1>1. Len(stack) \in Nat \ {0} /\ DOMAIN stack = 1..Len(stack) /\ Head(stack) = stack[1]
  BY EmptySeq, LenProperties
<1>2. 1 \in Takers(stack, kind) /\ \A j \in Takers(stack, kind) : 1 <= j
  BY <1>1 DEF Takers
<1>3. Unwound(kind, stack) = Handling(stack[1], kind) \o SubSeq(stack, 1 + 1, Len(stack))
  BY <1>2, UnwoundByFirst
<1>4. 1 + 1 = 2 /\ Tail(stack) = SubSeq(stack, 2, Len(stack))
  BY TailIsSubSeq
<1> QED
  BY <1>1, <1>3, <1>4

LEMMA UnwoundFurther ==
  ASSUME NEW S, NEW stack \in Seq(S), stack # <<>>, NEW kind, ~Takes(Head(stack), kind)
  PROVE  Unwound(kind, stack) = Unwound(kind, Tail(stack))
<1> DEFINE r == Tail(stack)
<1>1. /\ Len(stack) \in Nat \ {0} /\ DOMAIN stack = 1..Len(stack) /\ Head(stack) = stack[1]
      /\ r \in Seq(S) /\ Len(r) = Len(stack) - 1 /\ \A i \in 1..Len(r) : r[i] = stack[i + 1]
      /\ DOMAIN r = 1..Len(r)
  BY EmptySeq, LenProperties, HeadTailProperties
<1> HIDE DEF r
<1>2. \A i \in Takers(r, kind) : i \in Nat /\ i + 1 \in Takers(stack, kind)
  BY <1>1 DEF Takers
<1>3. \A i \in Takers(stack, kind) : i - 1 \in Takers(r, kind)
  <2> TAKE i \in Takers(stack, kind)
  <2>1. i \in 1..Len(stack) /\ i # 1 /\ Takes(stack[i], kind)
    BY <1>1 DEF Takers
  <2>2. i - 1 \in 1..Len(r) /\ i - 1 + 1 = i
    BY <2>1, <1>1
  <2>3. r[i - 1] = stack[i]
    BY <2>2, <1>1
  <2> QED
    BY <2>1, <2>2, <2>3, <1>1 DEF Takers
<1>4. CASE Takers(r, kind) = {}
  <2>1. Takers(stack, kind) = {}
    BY <1>3, <1>4
  <2> QED
    BY <2>1, <1>4, Zenon DEF Unwound, Takers, r
<1>5. CASE Takers(r, kind) # {}
  <2>1. PICK m \in Takers(r, kind) : \A j \in Takers(r, kind) : m <= j
    <3>1. Takers(r, kind) \subseteq Nat
      BY <1>2
    <3> QED
      BY <3>1, <1>5, LeastNatural, Zenon
  <2>2. m \in 1..Len(r) /\ m + 1 \in Takers(stack, kind)
    BY <2>1, <1>1, <1>2 DEF Takers
  <2>3. \A j \in Takers(stack, kind) : m + 1 <= j
    <3> TAKE j \in Takers(stack, kind)
    <3>1. m <= j - 1
      BY <1>3, <2>1
    <3>2. j \in Nat
      BY <1>1 DEF Takers
    <3> QED
      BY <3>1, <3>2, <2>2, <1>1
  <2>4. r[m] = stack[m + 1]
    BY <2>2, <1>1
  <2>5. SubSeq(r, m + 1, Len(r)) = SubSeq(stack, m + 1 + 1, Len(stack))
    <3> DEFINE a == SubSeq(r, m + 1, Len(r))
               b == SubSeq(stack, m + 1 + 1, Len(stack))
    <3>1. \A i \in m + 1 .. Len(r) : r[i] \in S
      BY <1>1, <2>2, ElementOfSeq
    <3>2. \A i \in m + 1 + 1 .. Len(stack) : stack[i] \in S
      BY <1>1, <2>2, ElementOfSeq
    <3>3. m + 1 \in Int /\ m + 1 + 1 \in Int /\ Len(r) \in Int /\ Len(stack) \in Int
      BY <1>1, <2>2
    <3>4. /\ a \in Seq(S)
          /\ Len(a) = IF m + 1 <= Len(r) THEN Len(r) - (m + 1) + 1 ELSE 0
          /\ \A i \in 1 .. Len(r) - (m + 1) + 1 : a[i] = r[m + 1 + i - 1]
      BY <3>1, <3>3, SubSeqProperties
    <3>5. /\ b \in Seq(S)
          /\ Len(b) = IF m + 1 + 1 <= Len(stack) THEN Len(stack) - (m + 1 + 1) + 1 ELSE 0
          /\ \A i \in 1 .. Len(stack) - (m + 1 + 1) + 1 : b[i] = stack[m + 1 + 1 + i - 1]
      BY <3>2, <3>3, SubSeqProperties
    <3> HIDE DEF a, b
    <3>6. Len(a) = Len(b) /\ Len(a) = Len(r) - m
      <4>1. Len(r) \in Nat /\ Len(stack) = Len(r) + 1 /\ m \in Nat /\ m <= Len(r)
        BY <1>1, <2>2
      <4>2. Len(a) = IF m + 1 <= Len(r) THEN Len(r) - (m + 1) + 1 ELSE 0
        BY <3>4
      <4>3. Len(b) = IF m + 1 + 1 <= Len(stack) THEN Len(stack) - (m + 1 + 1) + 1 ELSE 0
        BY <3>5
      <4> QED
        BY <4>1, <4>2, <4>3
    <3>7. \A i \in 1..Len(a) : a[i] = b[i]
      <4> TAKE i \in 1..Len(a)
      <4>1. a[i] = r[m + i]
        BY <3>4, <3>6, <1>1, <2>2
      <4>2. b[i] = stack[m + 1 + i]
        BY <3>5, <3>6, <1>1, <2>2
      <4>3. m + i \in 1..Len(r) /\ m + i + 1 = m + 1 + i
        BY <3>6, <1>1, <2>2
      <4> QED
        BY <4>1, <4>2, <4>3, <1>1
    <3>8. a = b
      BY <3>4, <3>5, <3>6, <3>7, SeqEqual
    <3> QED
      BY <3>8 DEF a, b
  <2>6. Unwound(kind, r) = Handling(r[m], kind) \o SubSeq(r, m + 1, Len(r))
    BY <2>1, <1>1, UnwoundByFirst
  <2>7. Unwound(kind, stack) = Handling(stack[m + 1], kind) \o SubSeq(stack, m + 1 + 1, Len(stack))
    BY <2>2, <2>3, UnwoundByFirst
  <2> QED
    BY <2>4, <2>5, <2>6, <2>7 DEF r
<1> QED
  BY <1>4, <1>5

-----------------------------------------------------------------------------
(* Stacks that end well *)

(* Pairs of a stack and of how control arrives at it.  A set of them is closed *)
(* when all that may come next is in it, and nothing is left disturbed at the *)
(* end; a stack is covered when it is in such a set, however it is arrived at. *)
Facts(blocks) == Stacks(blocks) \X Arrivals(blocks)
Settled(blocks, ends, goal, R) ==
  \A stack \in Stacks(blocks), x \in Arrivals(blocks) :
    <<stack, x>> \in R =>
      /\ stack = <<>> => ~x[2].left
      /\ stack # <<>> => \A y \in Through(ends, goal, CleaningIn(stack), Head(stack), x[1], x[2]) :
                           <<Tail(stack), y>> \in R
Covered(blocks, ends, goal, stack, X) ==
  \E R \in SUBSET Facts(blocks) : Settled(blocks, ends, goal, R) /\ \A x \in X : <<stack, x>> \in R

LEMMA CoveredLess ==
  ASSUME NEW blocks, NEW ends, NEW goal, NEW stack, NEW X, NEW Y,
         Covered(blocks, ends, goal, stack, X), Y \subseteq X
  PROVE  Covered(blocks, ends, goal, stack, Y)
BY DEF Covered

(* Whatever the stack's first item may lead to, the rest is covered.          *)
LEMMA Pop ==
  ASSUME NEW blocks, NEW ends, NEW goal, NEW stack \in Stacks(blocks), stack # <<>>, NEW x \in Arrivals(blocks),
         Covered(blocks, ends, goal, stack, {x})
  PROVE  Covered(blocks, ends, goal, Tail(stack), Through(ends, goal, CleaningIn(stack), Head(stack), x[1], x[2]))
<1>1. PICK R \in SUBSET Facts(blocks) : Settled(blocks, ends, goal, R) /\ <<stack, x>> \in R
  BY DEF Covered
<1>2. \A y \in Through(ends, goal, CleaningIn(stack), Head(stack), x[1], x[2]) : <<Tail(stack), y>> \in R
  BY <1>1 DEF Settled
<1> QED
  BY <1>1, <1>2 DEF Covered

LEMMA FirstOfStack ==
  ASSUME NEW S, NEW m \in S, NEW r \in Seq(S)
  PROVE  /\ <<m>> \o r \in Seq(S) /\ <<m>> \o r # <<>>
         /\ Head(<<m>> \o r) = m /\ Tail(<<m>> \o r) = r
<1> DEFINE t == <<m>> \o r
<1>1. <<m>> \in Seq(S) /\ Len(<<m>>) = 1 /\ <<m>>[1] = m
  OBVIOUS
<1>2. /\ t \in Seq(S) /\ Len(t) = 1 + Len(r) /\ Len(r) \in Nat
      /\ \A i \in 1..1 + Len(r) : t[i] = IF i <= 1 THEN m ELSE r[i - 1]
  BY <1>1, ConcatProperties, LenProperties
<1> HIDE DEF t
<1>3. t # <<>> /\ t[1] = m
  BY <1>2
<1>4. Head(t) = t[1]
  BY <1>2, <1>3
<1>5. Tail(t) \in Seq(S) /\ Len(Tail(t)) = Len(t) - 1 /\ \A i \in 1..Len(Tail(t)) : Tail(t)[i] = t[i + 1]
  BY <1>2, <1>3, HeadTailProperties
<1>6. \A i \in 1..Len(r) : t[i + 1] = r[i]
  BY <1>2
<1>7. Tail(t) = r
  <2>1. Len(Tail(t)) = Len(r)
    BY <1>2, <1>5
  <2> QED
    BY <1>5, <1>6, <2>1, SeqEqual
<1> QED
  BY <1>2, <1>3, <1>4, <1>7 DEF t

(* A mark may be put before a stack that covers what it lets through.          *)
LEMMA Cons ==
  ASSUME NEW blocks, NEW ends, NEW goal, NEW m \in StackItems(blocks), NEW r \in Stacks(blocks),
         NEW X \in SUBSET Arrivals(blocks), NEW Y, Covered(blocks, ends, goal, r, Y),
         \A x \in X : Through(ends, goal, CleaningIn(<<m>> \o r), m, x[1], x[2]) \subseteq Y
  PROVE  Covered(blocks, ends, goal, <<m>> \o r, X)
<1> DEFINE t == <<m>> \o r
<1>1. t \in Stacks(blocks) /\ t # <<>> /\ Head(t) = m /\ Tail(t) = r
  BY FirstOfStack DEF Stacks
<1>2. PICK R \in SUBSET Facts(blocks) : Settled(blocks, ends, goal, R) /\ \A y \in Y : <<r, y>> \in R
  BY DEF Covered
<1>3. \A x \in X : \A y \in Through(ends, goal, CleaningIn(t), m, x[1], x[2]) : <<r, y>> \in R
  BY <1>2
<1> HIDE DEF t
<1> DEFINE R2 == R \cup {<<t, x>> : x \in X}
<1>4. R2 \in SUBSET Facts(blocks)
  BY <1>1, <1>2 DEF Facts
<1>5. ASSUME NEW stack \in Stacks(blocks), NEW x \in Arrivals(blocks), <<stack, x>> \in R2
      PROVE  /\ stack = <<>> => ~x[2].left
             /\ stack # <<>> => \A y \in Through(ends, goal, CleaningIn(stack), Head(stack), x[1], x[2]) :
                                  <<Tail(stack), y>> \in R2
  <2>1. CASE <<stack, x>> \in R
    BY <1>2, <2>1 DEF Settled
  <2>2. CASE stack = t /\ x \in X
    BY <1>1, <1>3, <2>2
  <2> QED
    BY <1>5, <2>1, <2>2
<1>6. Settled(blocks, ends, goal, R2)
  BY <1>5, Zenon DEF Settled
<1>7. \A x \in X : <<t, x>> \in R2
  OBVIOUS
<1> QED
  BY <1>4, <1>6, <1>7 DEF Covered, t

-----------------------------------------------------------------------------
(* What an item leads to *)

Sound(blocks, ends, goal) == Closed(blocks) /\ Consistent(blocks, ends, goal)

LEMMA EndsArrive ==
  ASSUME NEW blocks, NEW ends, NEW goal, Sound(blocks, ends, goal),
         NEW c \in BOOLEAN, NEW block \in blocks, NEW a \in States(blocks)
  PROVE  ends[c][block][a] \subseteq Arrivals(blocks)
BY DEF Sound, Consistent

LEMMA ItemFacts ==
  ASSUME NEW blocks, Closed(blocks), NEW item \in Items(blocks)
  PROVE  /\ item.do \in Simple \cup Compound
         /\ item.body \subseteq blocks /\ item.after \in blocks
         /\ item.do \in {"raise", "try"} => item.of \subseteq Kinds(blocks)
         /\ item.do = "note" => item.of \subseteq Notes(blocks)
         /\ item.do = "use" => item.of = {}
         /\ item.do = "many" => <<item>> \in blocks /\ item \in ItemsOf(blocks, {"many"})
         /\ item.do \in Awaited => item \in ItemsOf(blocks, Awaited)
<1>1. /\ item.do \in Simple \cup Compound
      /\ item.body \subseteq blocks /\ item.after \in blocks
      /\ item.do = "use" => item.of = {}
      /\ item.do = "many" => <<item>> \in blocks
  BY DEF Closed
<1>2. item.do \in {"raise", "try"} => item.of \subseteq Kinds(blocks)
  <2>1. item.do \in {"raise", "try"} => item \in ItemsOf(blocks, {"raise", "try"})
    BY DEF ItemsOf
  <2> QED
    BY <2>1 DEF Kinds
<1>3. item.do = "note" => item.of \subseteq Notes(blocks)
  <2>1. item.do = "note" => item \in ItemsOf(blocks, {"note"})
    BY DEF ItemsOf
  <2> QED
    BY <2>1 DEF Notes
<1> QED
  BY <1>1, <1>2, <1>3 DEF ItemsOf

LEMMA StackItemFacts ==
  ASSUME NEW blocks, Closed(blocks), NEW m \in StackItems(blocks)
  PROVE  /\ m.do \in MarkKinds \cup Simple \cup Compound
         /\ m.do \in Simple \cup Compound => m \in Items(blocks)
         /\ m.do \in MarkKinds => m.of \subseteq Kinds(blocks) /\ m.after \in blocks
<1>1. CASE m \in Items(blocks)
  <2>1. m.do \in Simple \cup Compound
    BY <1>1, ItemFacts
  <2> QED
    BY <1>1, <2>1 DEF Simple, Compound, MarkKinds
<1>2. CASE m \in [do : MarkKinds, of : SUBSET Kinds(blocks), body : {{}}, after : blocks]
  <2>1. m.do \in MarkKinds /\ m.of \subseteq Kinds(blocks) /\ m.after \in blocks
    BY <1>2
  <2> QED
    BY <2>1 DEF Simple, Compound, MarkKinds
<1> QED
  BY <1>1, <1>2 DEF StackItems

LEMMA MarkFacts ==
  ASSUME NEW blocks, Closed(blocks), NEW do \in MarkKinds, NEW of \in SUBSET Kinds(blocks), NEW after \in blocks
  PROVE  \E m \in StackItems(blocks) : /\ Mark(do, of, after) = <<m>>
                                       /\ m.do = do /\ m.of = of /\ m.after = after
<1> DEFINE m == [do |-> do, of |-> of, body |-> {}, after |-> after]
<1>1. m \in StackItems(blocks)
  BY DEF StackItems
<1>2. Mark(do, of, after) = <<m>> /\ m.do = do /\ m.of = of /\ m.after = after
  BY DEF Mark, Item
<1> QED
  BY <1>1, <1>2

LEMMA KindsFacts ==
  ASSUME NEW blocks
  PROVE  Errors \cup {"interrupt"} \subseteq Kinds(blocks)
BY DEF Kinds

LEMMA PastMarkArrives ==
  ASSUME NEW blocks, NEW ends, NEW goal, Sound(blocks, ends, goal),
         NEW c \in BOOLEAN, NEW m \in StackItems(blocks), m.do \in {"except", "cleanup"},
         NEW e \in Kinds(blocks) \cup {"end"}, NEW a \in States(blocks)
  PROVE  PastMark(ends, c, m, e, a) \subseteq Arrivals(blocks)
<1>1. m.after \in blocks
  BY StackItemFacts DEF Sound, MarkKinds
<1>2. ends[c][m.after][a] \subseteq Arrivals(blocks) /\ ends[TRUE][m.after][a] \subseteq Arrivals(blocks)
  BY <1>1, EndsArrive
<1>3. CASE m.do = "except" /\ e \in m.of
  BY <1>2, <1>3 DEF PastMark
<1>4. CASE m.do = "cleanup"
  <2>1. PastMark(ends, c, m, e, a) = {<<IF x[1] = "end" THEN e ELSE x[1], x[2]>> : x \in ends[TRUE][m.after][a]}
    BY <1>4 DEF PastMark
  <2>2. \A x \in Arrivals(blocks) : <<IF x[1] = "end" THEN e ELSE x[1], x[2]>> \in Arrivals(blocks)
    BY DEF Arrivals
  <2> QED
    BY <2>1, <2>2, <1>2
<1>5. CASE m.do = "except" /\ e \notin m.of
  <2>1. PastMark(ends, c, m, e, a) = {<<e, a>>}
    BY <1>5 DEF PastMark
  <2> QED
    BY <2>1 DEF Arrivals
<1> QED
  BY <1>3, <1>4, <1>5

LEMMA ClosingMark ==
  ASSUME NEW blocks, Closed(blocks), NEW item \in Items(blocks), item.do \in {"try", "finally"}
  PROVE  \E m \in StackItems(blocks) :
           /\ Closing(item) = <<m>> /\ Head(Closing(item)) = m
           /\ m.do = IF item.do = "try" THEN "except" ELSE "cleanup"
           /\ m.of = IF item.do = "try" THEN item.of ELSE {}
           /\ m.after = item.after
<1>1. item.after \in blocks /\ (item.do = "try" => item.of \subseteq Kinds(blocks))
  BY ItemFacts
<1>2. CASE item.do = "try"
  <2>1. Closing(item) = Mark("except", item.of, item.after)
    BY <1>2 DEF Closing
  <2>2. PICK m \in StackItems(blocks) : /\ Mark("except", item.of, item.after) = <<m>>
                                        /\ m.do = "except" /\ m.of = item.of /\ m.after = item.after
    BY <1>1, <1>2, MarkFacts DEF MarkKinds
  <2> QED
    BY <1>2, <2>1, <2>2
<1>3. CASE item.do = "finally"
  <2>1. Closing(item) = Mark("cleanup", {}, item.after)
    BY <1>3 DEF Closing
  <2>2. PICK m \in StackItems(blocks) : /\ Mark("cleanup", {}, item.after) = <<m>>
                                        /\ m.do = "cleanup" /\ m.of = {} /\ m.after = item.after
    BY <1>1, MarkFacts DEF MarkKinds
  <2> QED
    BY <1>3, <2>1, <2>2
<1> QED
  BY <1>2, <1>3

LEMMA ThroughArrives ==
  ASSUME NEW blocks, NEW ends, NEW goal, Sound(blocks, ends, goal),
         NEW c \in BOOLEAN, NEW item \in Items(blocks), NEW a \in States(blocks)
  PROVE  Through(ends, goal, c, item, "end", a) \subseteq Arrivals(blocks)
<1> DEFINE T == Through(ends, goal, c, item, "end", a)
<1> USE DEF Simple, Compound, Awaited
<1>1. Closed(blocks)
  BY DEF Sound
<1>2. \A d \in BOOLEAN, block \in blocks : ends[d][block][a] \subseteq Arrivals(blocks)
  BY EndsArrive
<1>3. item.do \in Simple \cup Compound /\ item.body \subseteq blocks
  BY <1>1, ItemFacts
<1>4. a.left \in BOOLEAN /\ a.noted \subseteq Notes(blocks)
  BY DEF States
<1>5. \A left \in BOOLEAN : [a EXCEPT !.left = left] \in States(blocks)
  BY DEF States
<1>6. \A notes \in SUBSET Notes(blocks) : [a EXCEPT !.noted = notes] \in States(blocks)
  BY DEF States
<1>7. CASE item.do \in Awaited
  <2>1. T = Commanded(goal, c, item, a)
    BY <1>7 DEF Through
  <2>2. LeftIfSent(goal, item, a.left) \in BOOLEAN /\ LeftIfLost(goal, item, a.left) \in BOOLEAN
    BY <1>4 DEF LeftIfSent, LeftIfLost
  <2>3. Unexcused(goal.promise, c) \subseteq Kinds(blocks)
    BY KindsFacts DEF Unexcused
  <2> QED
    BY <2>1, <2>2, <2>3, <1>5 DEF Commanded, Arrivals
<1>8. CASE item.do = "note"
  <2>1. T = {<<"end", [a EXCEPT !.noted = a.noted \cup item.of]>>}
    BY <1>8 DEF Through
  <2>2. a.noted \cup item.of \subseteq Notes(blocks)
    BY <1>1, <1>4, <1>8, ItemFacts
  <2> QED
    BY <2>1, <2>2, <1>6 DEF Arrivals
<1>9. CASE item.do = "forget"
  <2>1. T = {<<"end", [a EXCEPT !.noted = a.noted \ item.of]>>}
    BY <1>9 DEF Through
  <2>2. PICK notes \in SUBSET Notes(blocks) : notes = a.noted \ item.of
    BY <1>4
  <2>3. T = {<<"end", [a EXCEPT !.noted = notes]>>}
    BY <2>1, <2>2
  <2> QED
    BY <2>3, <1>6 DEF Arrivals
<1>10. CASE item.do = "raise"
  <2>1. T = {<<kind, a>> : kind \in item.of}
    BY <1>10 DEF Through
  <2>2. item.of \subseteq Kinds(blocks)
    BY <1>1, <1>10, ItemFacts
  <2> QED
    BY <2>1, <2>2 DEF Arrivals
<1>11. CASE item.do \in {"try", "finally"}
  <2>1. T = ThroughGuard(ends, c, item, a)
    BY <1>11 DEF Through
  <2>2. PICK m \in StackItems(blocks) :
           /\ Head(Closing(item)) = m
           /\ m.do = IF item.do = "try" THEN "except" ELSE "cleanup"
    BY <1>1, <1>11, ClosingMark
  <2>3. m.do \in {"except", "cleanup"}
    BY <2>2
  <2>4. \A e \in Kinds(blocks) \cup {"end"}, s \in States(blocks) : PastMark(ends, c, m, e, s) \subseteq Arrivals(blocks)
    BY <2>3, PastMarkArrives
  <2>5. PICK d \in BOOLEAN : d = (c /\ item.do = "try")
    BY Zenon
  <2>6. T = UNION {PastMark(ends, c, m, x[1], x[2]) : x \in BodyEnds(ends, d, item, a)}
    BY <2>1, <2>2, <2>5 DEF ThroughGuard
  <2>7. BodyEnds(ends, d, item, a) \subseteq Arrivals(blocks)
    BY <1>2, <1>3 DEF BodyEnds
  <2> QED
    BY <2>4, <2>6, <2>7 DEF Arrivals
<1>12. CASE item.do = "choose"
  <2>1. T = BodyEnds(ends, c, item, a)
    BY <1>12 DEF Through
  <2> QED
    BY <2>1, <1>2, <1>3 DEF BodyEnds
<1>13. CASE item.do = "many"
  <2>1. T = ends[c][<<item>>][a]
    BY <1>13 DEF Through
  <2>2. <<item>> \in blocks
    BY <1>1, <1>13, ItemFacts
  <2> QED
    BY <2>1, <2>2, <1>2
<1>14. CASE item.do = "if_noted"
  <2>1. T = IF item.of \subseteq a.noted THEN BodyEnds(ends, c, item, a) ELSE {<<"end", a>>}
    BY <1>14 DEF Through
  <2>2. BodyEnds(ends, c, item, a) \subseteq Arrivals(blocks)
    BY <1>2, <1>3 DEF BodyEnds
  <2> QED
    BY <2>1, <2>2 DEF Arrivals
<1> QED
  BY <1>3, <1>7, <1>8, <1>9, <1>10, <1>11, <1>12, <1>13, <1>14

-----------------------------------------------------------------------------
(* A block before a stack *)

LEMMA BlockOnStack ==
  ASSUME NEW blocks, Closed(blocks), NEW block \in blocks, NEW r \in Stacks(blocks)
  PROVE  /\ block \in Stacks(blocks) /\ block \o r \in Stacks(blocks)
         /\ CleaningIn(block \o r) = CleaningIn(r)
<1>1. block \in Seq(Items(blocks))
  BY DEF Closed
<1>2. block \in Seq(StackItems(blocks))
  BY <1>1, SeqMonotonic DEF StackItems
<1>3. \A i \in 1..Len(block) : block[i] \in Items(blocks)
  BY <1>1, ElementOfSeq
<1>4. \A i \in 1..Len(block) : block[i].do \notin Fences
  BY <1>3, ItemFacts DEF Simple, Compound, Fences
<1> QED
  BY <1>2, <1>4, CleaningBehind, ConcatProperties DEF Stacks

LEMMA BlockParts ==
  ASSUME NEW blocks, Closed(blocks), NEW block \in blocks, block # <<>>, NEW r \in Stacks(blocks)
  PROVE  /\ block \o r # <<>>
         /\ Head(block) \in Items(blocks) /\ Head(block \o r) = Head(block)
         /\ Tail(block) \in blocks /\ Tail(block \o r) = Tail(block) \o r
<1> DEFINE S == StackItems(blocks)
<1>1. block \in Seq(Items(blocks)) /\ Tail(block) \in blocks
  BY DEF Closed
<1>2. block \in Seq(S) /\ r \in Seq(S)
  BY BlockOnStack DEF Stacks
<1>3. Head(block) \in Items(blocks)
  BY <1>1, HeadTailProperties
<1>4. /\ Len(block) \in Nat \ {0} /\ Len(r) \in Nat /\ Head(block) = block[1]
      /\ Tail(block) \in Seq(S) /\ Len(Tail(block)) = Len(block) - 1
      /\ \A i \in 1..Len(Tail(block)) : Tail(block)[i] = block[i + 1]
  BY <1>2, EmptySeq, LenProperties, HeadTailProperties
<1> DEFINE t == block \o r
           u == Tail(block) \o r
<1>5. /\ t \in Seq(S) /\ Len(t) = Len(block) + Len(r)
      /\ \A i \in 1..Len(block) + Len(r) : t[i] = IF i <= Len(block) THEN block[i] ELSE r[i - Len(block)]
  BY <1>2, ConcatProperties
<1>6. /\ u \in Seq(S) /\ Len(u) = Len(Tail(block)) + Len(r)
      /\ \A i \in 1..Len(Tail(block)) + Len(r) :
           u[i] = IF i <= Len(Tail(block)) THEN Tail(block)[i] ELSE r[i - Len(Tail(block))]
  BY <1>2, <1>4, ConcatProperties
<1> HIDE DEF t, u
<1>7. t # <<>>
  BY <1>4, <1>5
<1>8. Head(t) = Head(block)
  <2>1. Head(t) = t[1]
    BY <1>5, <1>7
  <2>2. t[1] = block[1]
    BY <1>4, <1>5
  <2> QED
    BY <2>1, <2>2, <1>4
<1>9. Tail(t) \in Seq(S) /\ Len(Tail(t)) = Len(t) - 1 /\ \A i \in 1..Len(Tail(t)) : Tail(t)[i] = t[i + 1]
  BY <1>5, <1>7, HeadTailProperties
<1>10. Tail(t) = u
  <2> DEFINE b == Len(Tail(block))
  <2>1. b \in Nat /\ Len(block) = b + 1
    BY <1>4
  <2> HIDE DEF b
  <2>2. PICK k \in Nat : k = Len(r)
    BY <1>4
  <2>3. Len(Tail(t)) = b + k /\ Len(u) = b + k
    BY <1>5, <1>6, <1>9, <2>1, <2>2 DEF b
  <2>4. \A i \in 1..(b + k) : Tail(t)[i] = u[i]
    <3> TAKE i \in 1..(b + k)
    <3>1. Tail(t)[i] = t[i + 1]
      BY <1>9, <2>3
    <3>2. i + 1 \in 1..Len(block) + Len(r)
      BY <2>1, <2>2
    <3>3. t[i + 1] = IF i + 1 <= b + 1 THEN block[i + 1] ELSE r[i + 1 - (b + 1)]
      BY <1>5, <2>1, <3>2
    <3>4. u[i] = IF i <= b THEN Tail(block)[i] ELSE r[i - b]
      BY <1>6, <2>1, <2>2 DEF b
    <3>5. i <= b => Tail(block)[i] = block[i + 1]
      BY <1>4, <2>1 DEF b
    <3>6. CASE i <= b
      <4>1. i + 1 <= b + 1
        BY <2>1, <3>6
      <4> QED
        BY <3>1, <3>3, <3>4, <3>5, <3>6, <4>1
    <3>7. CASE ~(i <= b)
      <4>1. i + 1 - (b + 1) = i - b /\ ~(i + 1 <= b + 1)
        BY <2>1, <3>7
      <4> QED
        BY <3>1, <3>3, <3>4, <3>7, <4>1
    <3> QED
      BY <3>6, <3>7
  <2> QED
    BY <2>3, <2>4, <1>6, <1>9, SeqEqual
<1> QED
  BY <1>1, <1>3, <1>7, <1>8, <1>10 DEF t, u

LEMMA ItemPassed ==
  ASSUME NEW blocks, Closed(blocks), NEW ends, NEW goal, NEW c, NEW item \in Items(blocks),
         NEW e, e # "end", NEW a
  PROVE  Through(ends, goal, c, item, e, a) = {<<e, a>>}
<1>1. item.do \in Simple \cup Compound
  BY ItemFacts
<1>2. PastMark(ends, c, item, e, a) = {<<e, a>>}
  BY <1>1 DEF PastMark, Simple, Compound
<1> QED
  BY <1>2 DEF Through

(* A block may be put before a stack that covers where the block may end.      *)
LEMMA Push ==
  ASSUME NEW blocks, NEW ends, NEW goal, Sound(blocks, ends, goal),
         NEW r \in Stacks(blocks), NEW block \in blocks, NEW a \in States(blocks),
         NEW c \in BOOLEAN, c = CleaningIn(r),
         Covered(blocks, ends, goal, r, ends[c][block][a])
  PROVE  Covered(blocks, ends, goal, block \o r, {<<"end", a>>})
<1>1. Closed(blocks) /\ Consistent(blocks, ends, goal)
  BY DEF Sound
<1>2. PICK R \in SUBSET Facts(blocks) : /\ Settled(blocks, ends, goal, R)
                                        /\ \A y \in ends[c][block][a] : <<r, y>> \in R
  BY DEF Covered
<1> DEFINE Ready(s, x) == IF x[1] = "end" THEN \A y \in ends[c][s][x[2]] : <<r, y>> \in R ELSE <<r, x>> \in R
           R2 == R \cup {f \in Facts(blocks) : \E s \in blocks : f[1] = s \o r /\ Ready(s, f[2])}
<1>3. \A s \in blocks, x \in Arrivals(blocks) : Ready(s, x) => <<s \o r, x>> \in R2
  <2> TAKE s \in blocks, x \in Arrivals(blocks)
  <2>1. <<s \o r, x>> \in Facts(blocks)
    BY <1>1, BlockOnStack DEF Facts
  <2> QED
    BY <2>1
<1>4. ASSUME NEW stack \in Stacks(blocks), NEW x \in Arrivals(blocks), <<stack, x>> \in R
      PROVE  /\ stack = <<>> => ~x[2].left
             /\ stack # <<>> => \A y \in Through(ends, goal, CleaningIn(stack), Head(stack), x[1], x[2]) :
                                  <<Tail(stack), y>> \in R2
  BY <1>2, <1>4 DEF Settled
<1>5. ASSUME NEW x \in Arrivals(blocks), Ready(<<>>, x)
      PROVE  <<r, x>> \in R
  <2>1. CASE x[1] = "end"
    <3>1. x[2] \in States(blocks) /\ x = <<"end", x[2]>>
      BY <2>1 DEF Arrivals
    <3>2. <<>> \in blocks
      BY <1>1 DEF Closed
    <3>3. <<"end", x[2]>> \in ends[c][<<>>][x[2]]
      BY <1>1, <3>1, <3>2 DEF Consistent
    <3> QED
      BY <1>5, <2>1, <3>1, <3>3
  <2>2. CASE x[1] # "end"
    BY <1>5, <2>2
  <2> QED
    BY <2>1, <2>2
<1>6. ASSUME NEW s \in blocks, s # <<>>, NEW x \in Arrivals(blocks), Ready(s, x),
             NEW y \in Through(ends, goal, c, Head(s), x[1], x[2])
      PROVE  y \in Arrivals(blocks) /\ Ready(Tail(s), y)
  <2>1. Head(s) \in Items(blocks)
    BY <1>1, <1>6, BlockParts
  <2>2. CASE x[1] # "end"
    <3>1. Closed(blocks) /\ x[1] # "end"
      BY <1>1, <2>2
    <3> HIDE DEF Ready, R2
    <3>2. Through(ends, goal, c, Head(s), x[1], x[2]) = {<<x[1], x[2]>>}
      BY <2>1, <3>1, ItemPassed
    <3>3. y = x
      BY <3>2 DEF Arrivals
    <3> QED
      BY <1>6, <2>2, <3>3 DEF Ready
  <2>3. CASE x[1] = "end"
    <3>1. x[2] \in States(blocks)
      BY DEF Arrivals
    <3>2. y \in Through(ends, goal, c, Head(s), "end", x[2])
      BY <1>6, <2>3
    <3>3. y \in Arrivals(blocks)
      BY <2>1, <3>1, <3>2, ThroughArrives
    <3>4. Follows(ends, c, s, x[2], y, Tail(s))
      BY <1>1, <1>6, <3>1, <3>2, Zenon DEF Consistent
    <3>5. \A z \in ends[c][s][x[2]] : <<r, z>> \in R
      BY <1>6, <2>3
    <3> QED
      BY <3>3, <3>4, <3>5 DEF Follows
  <2> QED
    BY <2>2, <2>3
<1>7. ASSUME NEW s \in blocks, NEW x \in Arrivals(blocks), Ready(s, x)
      PROVE  /\ s \o r = <<>> => ~x[2].left
             /\ s \o r # <<>> => \A y \in Through(ends, goal, CleaningIn(s \o r), Head(s \o r), x[1], x[2]) :
                                   <<Tail(s \o r), y>> \in R2
  <2>1. CASE s = <<>>
    <3>1. s \o r = r
      BY <2>1, ConcatEmptySeq DEF Stacks
    <3>2. <<r, x>> \in R
      BY <1>5, <1>7, <2>1
    <3> QED
      BY <1>4, <3>1, <3>2
  <2>2. CASE s # <<>>
    <3>1. /\ s \o r # <<>> /\ Head(s \o r) = Head(s)
          /\ Tail(s) \in blocks /\ Tail(s \o r) = Tail(s) \o r
      BY <1>1, <2>2, BlockParts
    <3>2. c = CleaningIn(s \o r)
      BY <1>1, BlockOnStack
    <3>3. \A y \in Through(ends, goal, c, Head(s), x[1], x[2]) : <<Tail(s) \o r, y>> \in R2
      <4> TAKE y \in Through(ends, goal, c, Head(s), x[1], x[2])
      <4>1. y \in Arrivals(blocks) /\ Ready(Tail(s), y)
        BY <1>6, <1>7, <2>2, Zenon
      <4> QED
        BY <1>3, <3>1, <4>1, Zenon
    <3> HIDE DEF R2, Ready
    <3> QED
      BY <3>1, <3>2, <3>3
  <2> QED
    BY <2>1, <2>2
<1>8. Ready(block, <<"end", a>>) /\ <<"end", a>> \in Arrivals(blocks)
  BY <1>2 DEF Arrivals
<1> HIDE DEF Ready
<1>9. ASSUME NEW stack \in Stacks(blocks), NEW x \in Arrivals(blocks), <<stack, x>> \in R2
      PROVE  /\ stack = <<>> => ~x[2].left
             /\ stack # <<>> => \A y \in Through(ends, goal, CleaningIn(stack), Head(stack), x[1], x[2]) :
                                  <<Tail(stack), y>> \in R2
  <2>1. CASE <<stack, x>> \in R
    BY <1>4, <2>1
  <2>2. CASE \E s \in blocks : stack = s \o r /\ Ready(s, x)
    BY <1>7, <2>2
  <2> QED
    BY <1>9, <2>1, <2>2
<1>10. R2 \in SUBSET Facts(blocks) /\ <<block \o r, <<"end", a>>>> \in R2
  BY <1>2, <1>3, <1>8
<1> HIDE DEF R2
<1>11. Settled(blocks, ends, goal, R2)
  BY <1>9, Zenon DEF Settled
<1> QED
  BY <1>10, <1>11 DEF Covered

-----------------------------------------------------------------------------
(* Cleanups and exceptions *)

LEMMA HeadOnTail ==
  ASSUME NEW S, NEW stack \in Seq(S), stack # <<>>
  PROVE  /\ Head(stack) \in S /\ Tail(stack) \in Seq(S) /\ stack = <<Head(stack)>> \o Tail(stack)
         /\ Head(stack).do \notin Fences => CleaningIn(Tail(stack)) = CleaningIn(stack)
<1>1. Head(stack) \in S /\ Tail(stack) \in Seq(S)
  BY HeadTailProperties
<1>2. stack = <<Head(stack)>> \o Tail(stack)
  <2>1. Len(stack) \in Nat \ {0} /\ Head(stack) = stack[1]
    BY EmptySeq
  <2>2. 1 \in 1..Len(stack) /\ Len(stack) \in 1..Len(stack) /\ 1 + 1 = 2
    BY <2>1
  <2>3. SubSeq(stack, 1, Len(stack)) = <<stack[1]>> \o SubSeq(stack, 1 + 1, Len(stack))
    BY <2>2, SubSeqRecursiveFirst
  <2>4. SubSeq(stack, 1, Len(stack)) = stack /\ Tail(stack) = SubSeq(stack, 2, Len(stack))
    BY SubSeqFull, TailIsSubSeq
  <2> QED
    BY <2>1, <2>2, <2>3, <2>4
<1>3. ASSUME Head(stack).do \notin Fences PROVE CleaningIn(Tail(stack)) = CleaningIn(stack)
  <2> DEFINE s == <<Head(stack)>>
  <2>1. s \in Seq(S) /\ \A i \in 1..Len(s) : s[i].do \notin Fences
    BY <1>1, <1>3
  <2> HIDE DEF s
  <2>2. CleaningIn(s \o Tail(stack)) = CleaningIn(Tail(stack))
    BY <1>1, <2>1, CleaningBehind
  <2> QED
    BY <1>2, <2>2 DEF s
<1> QED
  BY <1>1, <1>2, <1>3

(* The exception, if any, that is pending when a cleanup begins.              *)
Carried(pending) == IF pending = {} THEN "end" ELSE CHOOSE kind \in pending : TRUE

LEMMA CleanupOnStack ==
  ASSUME NEW blocks, NEW ends, NEW goal, Sound(blocks, ends, goal),
         NEW r \in Stacks(blocks), NEW after \in blocks, NEW pending \in SUBSET Kinds(blocks),
         NEW a \in States(blocks),
         Covered(blocks, ends, goal, r,
                 {<<IF x[1] = "end" THEN Carried(pending) ELSE x[1], x[2]>> : x \in ends[TRUE][after][a]})
  PROVE  /\ Cleanup(after, pending) \o r \in Stacks(blocks)
         /\ Covered(blocks, ends, goal, Cleanup(after, pending) \o r, {<<"end", a>>})
<1> DEFINE X == ends[TRUE][after][a]
           Y == {<<IF x[1] = "end" THEN Carried(pending) ELSE x[1], x[2]>> : x \in X}
<1>1. Closed(blocks) /\ <<>> \in blocks
  BY DEF Sound, Closed
<1>2. PICK m \in StackItems(blocks) : /\ Mark("end_cleanup", pending, <<>>) = <<m>>
                                      /\ m.do = "end_cleanup" /\ m.of = pending /\ m.after = <<>>
  BY <1>1, MarkFacts DEF MarkKinds
<1>3. <<m>> \o r \in Stacks(blocks) /\ CleaningIn(<<m>> \o r) = TRUE
  BY <1>2, FirstOfStack, CleaningAtFence DEF Stacks, Fences
<1>4. X \in SUBSET Arrivals(blocks)
  BY EndsArrive
<1>5. ASSUME NEW x \in X, NEW c
      PROVE  Through(ends, goal, c, m, x[1], x[2]) \subseteq Y
  <2>1. Through(ends, goal, c, m, x[1], x[2]) = PastMark(ends, c, m, x[1], x[2])
    BY <1>2 DEF Through, Simple, Compound
  <2>2. PastMark(ends, c, m, x[1], x[2]) = {<<IF x[1] = "end" THEN Carried(pending) ELSE x[1], x[2]>>}
    BY <1>2 DEF PastMark, Carried
  <2> QED
    BY <2>1, <2>2
<1>6. Covered(blocks, ends, goal, <<m>> \o r, X)
  <2>1. \A x \in X : Through(ends, goal, CleaningIn(<<m>> \o r), m, x[1], x[2]) \subseteq Y
    BY <1>5
  <2>2. Covered(blocks, ends, goal, r, Y)
    OBVIOUS
  <2> HIDE DEF X, Y
  <2> QED
    BY <1>4, <2>1, <2>2, Cons
<1>7. Covered(blocks, ends, goal, after \o (<<m>> \o r), {<<"end", a>>}) /\ after \o (<<m>> \o r) \in Stacks(blocks)
  BY <1>1, <1>3, <1>6, Push, BlockOnStack
<1>8. Cleanup(after, pending) \o r = after \o (<<m>> \o r)
  <2>1. after \in Seq(StackItems(blocks)) /\ r \in Seq(StackItems(blocks)) /\ <<m>> \in Seq(StackItems(blocks))
    BY <1>1, BlockOnStack DEF Stacks
  <2>2. (after \o <<m>>) \o r = after \o (<<m>> \o r)
    BY <2>1, ConcatAssociative
  <2> QED
    BY <1>2, <2>2 DEF Cleanup
<1> QED
  BY <1>7, <1>8

LEMMA UnwoundIsStack ==
  ASSUME NEW blocks, Closed(blocks), NEW stack \in Stacks(blocks), NEW kind \in Kinds(blocks)
  PROVE  Unwound(kind, stack) \in Stacks(blocks)
<1> DEFINE S == StackItems(blocks)
           T == Takers(stack, kind)
<1>1. stack \in Seq(S) /\ DOMAIN stack = 1..Len(stack) /\ Len(stack) \in Nat
  BY LenProperties DEF Stacks
<1>2. CASE T = {}
  <2>1. Unwound(kind, stack) = <<>>
    BY <1>2, Zenon DEF Unwound, Takers
  <2> QED
    BY <2>1, EmptySeq DEF Stacks
<1>3. CASE T # {}
  <2>1. T \subseteq Nat
    BY <1>1 DEF Takers
  <2>2. PICK i \in T : \A j \in T : i <= j
    BY <1>3, <2>1, LeastNatural, Zenon
  <2>3. Unwound(kind, stack) = Handling(stack[i], kind) \o SubSeq(stack, i + 1, Len(stack))
    BY <1>1, <2>2, UnwoundByFirst
  <2>4. i \in 1..Len(stack) /\ stack[i] \in S /\ Takes(stack[i], kind)
    BY <1>1, <2>2, ElementOfSeq DEF Takers
  <2>5. SubSeq(stack, i + 1, Len(stack)) \in Seq(S)
    <3>1. \A j \in i + 1 .. Len(stack) : stack[j] \in S
      BY <1>1, <2>4, ElementOfSeq
    <3>2. i + 1 \in Int /\ Len(stack) \in Int
      BY <1>1, <2>4
    <3> QED
      BY <3>1, <3>2, SubSeqProperties
  <2>6. stack[i].after \in blocks /\ stack[i].after \in Seq(S)
    <3>1. stack[i].do \in MarkKinds
      BY <2>4 DEF Takes, MarkKinds
    <3> QED
      BY <2>4, <3>1, StackItemFacts, BlockOnStack DEF Stacks
  <2>7. Handling(stack[i], kind) \in Seq(S)
    <3>1. <<>> \in blocks /\ {kind} \in SUBSET Kinds(blocks)
      BY DEF Closed
    <3>2. PICK m \in S : Mark("end_cleanup", {kind}, <<>>) = <<m>>
      BY <3>1, MarkFacts DEF MarkKinds
    <3>3. <<m>> \in Seq(S)
      OBVIOUS
    <3>4. stack[i].after \o <<m>> \in Seq(S)
      BY <2>6, <3>3, ConcatProperties
    <3> QED
      BY <2>6, <3>2, <3>4 DEF Handling, Cleanup
  <2> QED
    BY <2>3, <2>5, <2>7, ConcatProperties DEF Stacks
<1> QED
  BY <1>2, <1>3

(* The mark that takes the exception leads to its handler.                    *)
LEMMA Land ==
  ASSUME NEW blocks, NEW ends, NEW goal, Sound(blocks, ends, goal),
         NEW stack \in Stacks(blocks), stack # <<>>, NEW kind \in Kinds(blocks), NEW a \in States(blocks),
         Takes(Head(stack), kind), Covered(blocks, ends, goal, stack, {<<kind, a>>})
  PROVE  Covered(blocks, ends, goal, Unwound(kind, stack), {<<"end", a>>})
<1> DEFINE m == Head(stack)
           r == Tail(stack)
<1>1. Closed(blocks) /\ kind # "end" /\ <<kind, a>> \in Arrivals(blocks)
  BY DEF Sound, Closed, Arrivals
<1>2. m \in StackItems(blocks) /\ r \in Stacks(blocks) /\ (m.do \notin Fences => CleaningIn(r) = CleaningIn(stack))
  BY HeadOnTail DEF Stacks
<1>3. m.do \in MarkKinds /\ m.after \in blocks
  <2>1. m.do \in MarkKinds
    BY DEF Takes, MarkKinds
  <2> QED
    BY <1>1, <1>2, <2>1, StackItemFacts
<1>4. Unwound(kind, stack) = Handling(m, kind) \o r
  BY UnwoundHere DEF Stacks
<1>5. PICK c \in BOOLEAN : c = CleaningIn(stack)
  BY CleaningBoolean
<1>6. Covered(blocks, ends, goal, r, PastMark(ends, c, m, kind, a))
  <2>1. Covered(blocks, ends, goal, r, Through(ends, goal, CleaningIn(stack), m, <<kind, a>>[1], <<kind, a>>[2]))
    BY <1>1, Pop, Zenon
  <2>2. Through(ends, goal, c, m, kind, a) = PastMark(ends, c, m, kind, a)
    BY <1>1 DEF Through
  <2> QED
    BY <1>5, <2>1, <2>2
<1> HIDE DEF m, r
<1>7. CASE m.do = "cleanup"
  <2>1. Carried({kind}) = kind
    BY DEF Carried
  <2>2. PastMark(ends, c, m, kind, a) = {<<IF x[1] = "end" THEN kind ELSE x[1], x[2]>> : x \in ends[TRUE][m.after][a]}
    BY <1>7 DEF PastMark
  <2>3. Covered(blocks, ends, goal, r,
                {<<IF x[1] = "end" THEN Carried({kind}) ELSE x[1], x[2]>> : x \in ends[TRUE][m.after][a]})
    BY <1>6, <2>1, <2>2
  <2>4. {kind} \in SUBSET Kinds(blocks)
    OBVIOUS
  <2>5. Covered(blocks, ends, goal, Cleanup(m.after, {kind}) \o r, {<<"end", a>>})
    BY <1>2, <1>3, <2>3, <2>4, CleanupOnStack
  <2> QED
    BY <1>4, <1>7, <2>5 DEF Handling
<1>8. CASE m.do = "except" /\ kind \in m.of
  <2>1. PastMark(ends, c, m, kind, a) = ends[c][m.after][a]
    BY <1>8 DEF PastMark
  <2>2. c = CleaningIn(r)
    BY <1>2, <1>5, <1>8 DEF Fences
  <2>3. Covered(blocks, ends, goal, m.after \o r, {<<"end", a>>})
    BY <1>2, <1>3, <1>6, <2>1, <2>2, Push
  <2> QED
    BY <1>4, <1>8, <2>3 DEF Handling
<1> QED
  BY <1>7, <1>8 DEF Takes, m

(* An exception goes where the analysis says.                                 *)
LEMMA Jump ==
  ASSUME NEW blocks, NEW ends, NEW goal, Sound(blocks, ends, goal),
         NEW stack \in Stacks(blocks), NEW kind \in Kinds(blocks), NEW a \in States(blocks),
         Covered(blocks, ends, goal, stack, {<<kind, a>>})
  PROVE  Covered(blocks, ends, goal, Unwound(kind, stack), {<<"end", a>>})
<1> DEFINE Lands(s) == Covered(blocks, ends, goal, Unwound(kind, s), {<<"end", a>>})
           Arrived(s) == Covered(blocks, ends, goal, s, {<<kind, a>>})
           Bad == {s \in Stacks(blocks) : Arrived(s) /\ ~Lands(s)}
<1>1. Closed(blocks) /\ kind # "end" /\ <<kind, a>> \in Arrivals(blocks) /\ <<"end", a>> \in Arrivals(blocks)
  BY DEF Sound, Closed, Arrivals
<1>2. ASSUME Arrived(<<>>) PROVE Lands(<<>>)
  <2>1. PICK R \in SUBSET Facts(blocks) : Settled(blocks, ends, goal, R) /\ <<<<>>, <<kind, a>>>> \in R
    BY <1>2 DEF Covered
  <2>2. <<>> \in Stacks(blocks)
    BY EmptySeq DEF Stacks
  <2>3. ~a.left
    BY <1>1, <2>1, <2>2 DEF Settled
  <2> DEFINE R2 == {<<<<>>, <<"end", a>>>>}
  <2>4. R2 \in SUBSET Facts(blocks)
    BY <1>1, <2>2 DEF Facts
  <2>5. Settled(blocks, ends, goal, R2)
    BY <2>3 DEF Settled
  <2>6. Covered(blocks, ends, goal, <<>>, {<<"end", a>>})
    BY <2>4, <2>5 DEF Covered
  <2> QED
    BY <2>6, UnwoundEmpty
<1>3. ASSUME NEW s \in Bad
      PROVE  s # <<>> /\ Tail(s) \in Bad /\ Len(Tail(s)) < Len(s) /\ Len(s) \in Nat
  <2>1. s # <<>>
    BY <1>2
  <2>2. ~Takes(Head(s), kind)
    BY <2>1, Land
  <2>3. Unwound(kind, s) = Unwound(kind, Tail(s))
    BY <2>1, <2>2, UnwoundFurther DEF Stacks
  <2>4. Tail(s) \in Stacks(blocks) /\ Head(s) \in StackItems(blocks)
    BY <2>1, HeadOnTail DEF Stacks
  <2>5. Arrived(Tail(s))
    <3>1. Covered(blocks, ends, goal, Tail(s), Through(ends, goal, CleaningIn(s), Head(s), <<kind, a>>[1], <<kind, a>>[2]))
      BY <1>1, <2>1, Pop, Zenon
    <3>2. Through(ends, goal, CleaningIn(s), Head(s), kind, a) = PastMark(ends, CleaningIn(s), Head(s), kind, a)
      BY <1>1 DEF Through
    <3>3. PastMark(ends, CleaningIn(s), Head(s), kind, a) = {<<kind, a>>}
      BY <1>1, <2>2 DEF PastMark, Takes
    <3> QED
      BY <3>1, <3>2, <3>3
  <2>6. Len(Tail(s)) < Len(s) /\ Len(s) \in Nat
    BY <2>1, HeadTailProperties, LenProperties DEF Stacks
  <2> QED
    BY <2>1, <2>3, <2>4, <2>5, <2>6
<1> HIDE DEF Bad
<1>4. Bad = {}
  <2>1. SUFFICES ASSUME Bad # {} PROVE FALSE
    OBVIOUS
  <2> DEFINE Lens == {Len(s) : s \in Bad}
  <2>2. Lens \subseteq Nat /\ Lens # {}
    BY <1>3, <2>1
  <2>3. PICK k \in Lens : \A j \in Lens : k <= j
    BY <2>2, LeastNatural, Zenon
  <2>4. PICK s \in Bad : k = Len(s)
    BY <2>3
  <2>5. Tail(s) \in Bad /\ Len(Tail(s)) < Len(s) /\ Len(s) \in Nat /\ Len(Tail(s)) \in Nat
    BY <1>3
  <2>6. Len(Tail(s)) \in Lens
    BY <2>5
  <2> QED
    BY <2>3, <2>4, <2>5, <2>6
<1> QED
  BY <1>4 DEF Bad

-----------------------------------------------------------------------------
(* Entering and leaving blocks *)

LEMMA ItemOnStack ==
  ASSUME NEW blocks, Closed(blocks), NEW item \in Items(blocks), NEW r \in Stacks(blocks)
  PROVE  /\ item \in StackItems(blocks) /\ <<item>> \o r \in Stacks(blocks)
         /\ CleaningIn(<<item>> \o r) = CleaningIn(r)
<1>1. item \in StackItems(blocks) /\ item.do \notin Fences
  BY ItemFacts DEF StackItems, Simple, Compound, Fences
<1>2. /\ <<item>> \o r \in Stacks(blocks) /\ <<item>> \o r # <<>>
      /\ Head(<<item>> \o r) = item /\ Tail(<<item>> \o r) = r
  BY <1>1, FirstOfStack DEF Stacks
<1>3. Head(<<item>> \o r).do \notin Fences => CleaningIn(Tail(<<item>> \o r)) = CleaningIn(<<item>> \o r)
  BY <1>2, HeadOnTail DEF Stacks
<1> QED
  BY <1>1, <1>2, <1>3

LEMMA MarkOnStack ==
  ASSUME NEW blocks, NEW m \in StackItems(blocks), m.do \in {"except", "cleanup"}, NEW r \in Stacks(blocks)
  PROVE  CleaningIn(<<m>> \o r) = (CleaningIn(r) /\ m.do = "except")
<1>1. CASE m.do = "cleanup"
  <2>1. CleaningIn(<<m>> \o r) = (m.do = "end_cleanup")
    BY <1>1, CleaningAtFence DEF Stacks, Fences
  <2> QED
    BY <1>1, <2>1
<1>2. CASE m.do = "except"
  <2>1. /\ <<m>> \o r \in Stacks(blocks) /\ <<m>> \o r # <<>>
        /\ Head(<<m>> \o r) = m /\ Tail(<<m>> \o r) = r
    BY FirstOfStack DEF Stacks
  <2>2. Head(<<m>> \o r).do \notin Fences => CleaningIn(Tail(<<m>> \o r)) = CleaningIn(<<m>> \o r)
    BY <2>1, HeadOnTail DEF Stacks
  <2>3. CleaningIn(r) = CleaningIn(<<m>> \o r)
    BY <1>2, <2>1, <2>2 DEF Fences
  <2> QED
    BY <1>2, <2>3, CleaningBoolean
<1> QED
  BY <1>1, <1>2

(* The body of a block is entered with the block's closing behind it.          *)
LEMMA EnterStack ==
  ASSUME NEW blocks, Closed(blocks), NEW item \in Items(blocks),
         item.do \in {"try", "finally", "choose", "many"}, NEW body \in item.body, NEW r \in Stacks(blocks)
  PROVE  /\ body \in blocks
         /\ Closing(item) \o r \in Stacks(blocks)
         /\ body \o Closing(item) \o r = body \o (Closing(item) \o r)
         /\ body \o Closing(item) \o r \in Stacks(blocks)
<1> DEFINE S == StackItems(blocks)
<1>1. body \in blocks
  BY ItemFacts
<1>2. body \in Seq(S) /\ r \in Seq(S)
  BY <1>1, BlockOnStack DEF Stacks
<1>3. Closing(item) \in Seq(S)
  <2>1. CASE item.do \in {"try", "finally"}
    <3>1. PICK m \in S : Closing(item) = <<m>>
      BY <2>1, ClosingMark
    <3> QED
      BY <3>1
  <2>2. CASE item.do = "choose"
    <3>1. Closing(item) = <<>>
      BY <2>2 DEF Closing
    <3> QED
      BY <3>1, EmptySeq
  <2>3. CASE item.do = "many"
    <3>1. Closing(item) = <<item>> /\ item \in S
      BY <2>3, ItemOnStack DEF Closing
    <3> QED
      BY <3>1
  <2> QED
    BY <2>1, <2>2, <2>3
<1>4. Closing(item) \o r \in Seq(S)
  BY <1>2, <1>3, ConcatProperties
<1>5. (body \o Closing(item)) \o r = body \o (Closing(item) \o r)
  BY <1>2, <1>3, ConcatAssociative
<1>6. body \o (Closing(item) \o r) \in Seq(S)
  BY <1>2, <1>4, ConcatProperties
<1> QED
  BY <1>1, <1>4, <1>5, <1>6 DEF Stacks

LEMMA GuardedBody ==
  ASSUME NEW blocks, NEW ends, NEW goal, Sound(blocks, ends, goal),
         NEW item \in Items(blocks), item.do \in {"try", "finally"}, NEW body \in item.body,
         NEW r \in Stacks(blocks), NEW a \in States(blocks), NEW c \in BOOLEAN, c = CleaningIn(r),
         Covered(blocks, ends, goal, r, Through(ends, goal, c, item, "end", a))
  PROVE  Covered(blocks, ends, goal, body \o (Closing(item) \o r), {<<"end", a>>})
<1>1. Closed(blocks) /\ body \in blocks
  BY ItemFacts DEF Sound
<1>2. PICK m \in StackItems(blocks) :
        /\ Closing(item) = <<m>> /\ Head(Closing(item)) = m
        /\ m.do = IF item.do = "try" THEN "except" ELSE "cleanup"
  BY <1>1, ClosingMark
<1>3. PICK d \in BOOLEAN : d = (c /\ item.do = "try")
  BY Zenon
<1>4. d = CleaningIn(<<m>> \o r) /\ <<m>> \o r \in Stacks(blocks)
  <2>1. CleaningIn(<<m>> \o r) = (CleaningIn(r) /\ m.do = "except")
    BY <1>2, MarkOnStack
  <2>2. (m.do = "except") = (item.do = "try")
    BY <1>2
  <2>3. <<m>> \o r \in Stacks(blocks)
    BY FirstOfStack DEF Stacks
  <2> QED
    BY <1>3, <2>1, <2>2, <2>3
<1> DEFINE T == Through(ends, goal, c, item, "end", a)
           X == ends[d][body][a]
<1>5. T = UNION {PastMark(ends, c, m, x[1], x[2]) : x \in BodyEnds(ends, d, item, a)}
  BY <1>2, <1>3 DEF Through, ThroughGuard, Simple, Compound, Awaited
<1>6. X \subseteq BodyEnds(ends, d, item, a) /\ X \in SUBSET Arrivals(blocks)
  BY <1>1, EndsArrive DEF BodyEnds
<1>7. \A x \in X : Through(ends, goal, d, m, x[1], x[2]) \subseteq T
  <2> TAKE x \in X
  <2>1. Through(ends, goal, d, m, x[1], x[2]) = PastMark(ends, d, m, x[1], x[2])
    BY <1>2 DEF Through, Simple, Compound
  <2>2. PastMark(ends, d, m, x[1], x[2]) = PastMark(ends, c, m, x[1], x[2])
    <3>1. CASE item.do = "try"
      <4>1. d = c
        BY <1>3, <3>1
      <4> QED
        BY <4>1
    <3>2. CASE item.do # "try"
      <4>1. m.do = "cleanup"
        BY <1>2, <3>2
      <4> QED
        BY <4>1 DEF PastMark
    <3> QED
      BY <3>1, <3>2
  <2>3. PastMark(ends, c, m, x[1], x[2]) \subseteq T
    BY <1>5, <1>6
  <2> QED
    BY <2>1, <2>2, <2>3
<1>8. Covered(blocks, ends, goal, r, T)
  OBVIOUS
<1> HIDE DEF T, X
<1>9. Covered(blocks, ends, goal, <<m>> \o r, X)
  <2>1. \A x \in X : Through(ends, goal, CleaningIn(<<m>> \o r), m, x[1], x[2]) \subseteq T
    BY <1>4, <1>7
  <2> QED
    BY <1>6, <1>8, <2>1, Cons
<1> QED
  BY <1>1, <1>2, <1>4, <1>9, Push DEF X

LEMMA LoopBody ==
  ASSUME NEW blocks, NEW ends, NEW goal, Sound(blocks, ends, goal),
         NEW item \in Items(blocks), item.do = "many", NEW body \in item.body,
         NEW r \in Stacks(blocks), NEW a \in States(blocks), NEW c \in BOOLEAN, c = CleaningIn(r),
         Covered(blocks, ends, goal, r, Through(ends, goal, c, item, "end", a))
  PROVE  /\ Covered(blocks, ends, goal, body \o (Closing(item) \o r), {<<"end", a>>})
         /\ Covered(blocks, ends, goal, r, {<<"end", a>>})
<1>1. Closed(blocks) /\ Consistent(blocks, ends, goal) /\ body \in blocks
  BY ItemFacts DEF Sound
<1>2. item \in ItemsOf(blocks, {"many"}) /\ <<item>> \in blocks
  BY <1>1, ItemFacts
<1>3. Closing(item) = <<item>>
  BY DEF Closing
<1>4. item \in StackItems(blocks) /\ <<item>> \o r \in Stacks(blocks) /\ c = CleaningIn(<<item>> \o r)
  BY <1>1, ItemOnStack
<1> DEFINE Y == ends[c][<<item>>][a]
           X == ends[c][body][a]
<1>5. \A s \in States(blocks) : Through(ends, goal, c, item, "end", s) = ends[c][<<item>>][s]
  BY DEF Through, Simple, Compound, Awaited
<1>6. Covered(blocks, ends, goal, r, Y)
  BY <1>5
<1>7. <<"end", a>> \in Y /\ \A x \in BodyEnds(ends, c, item, a) : Follows(ends, c, <<item>>, a, x, <<item>>)
  BY <1>1, <1>2, Zenon DEF Consistent
<1>8. X \subseteq BodyEnds(ends, c, item, a) /\ X \in SUBSET Arrivals(blocks)
  BY <1>1, EndsArrive DEF BodyEnds
<1>9. \A x \in X : Through(ends, goal, c, item, x[1], x[2]) \subseteq Y
  <2> TAKE x \in X
  <2>1. x \in Arrivals(blocks) /\ Follows(ends, c, <<item>>, a, x, <<item>>)
    BY <1>7, <1>8
  <2>2. x[2] \in States(blocks) /\ x = <<x[1], x[2]>>
    BY <2>1 DEF Arrivals
  <2>3. CASE x[1] = "end"
    <3>1. ends[c][<<item>>][x[2]] \subseteq Y
      BY <2>1, <2>3 DEF Follows
    <3> QED
      BY <1>5, <2>2, <2>3, <3>1
  <2>4. CASE x[1] # "end"
    <3>1. x \in Y
      BY <2>1, <2>4 DEF Follows
    <3>2. Through(ends, goal, c, item, x[1], x[2]) = {<<x[1], x[2]>>}
      BY <1>1, <2>4, ItemPassed
    <3> QED
      BY <2>2, <3>1, <3>2
  <2> QED
    BY <2>3, <2>4
<1> HIDE DEF X, Y
<1>10. Covered(blocks, ends, goal, <<item>> \o r, X)
  <2>1. \A x \in X : Through(ends, goal, CleaningIn(<<item>> \o r), item, x[1], x[2]) \subseteq Y
    BY <1>4, <1>9
  <2> QED
    BY <1>4, <1>6, <1>8, <2>1, Cons
<1>11. Covered(blocks, ends, goal, body \o (<<item>> \o r), {<<"end", a>>})
  BY <1>1, <1>4, <1>10, Push DEF X
<1>12. {<<"end", a>>} \subseteq Y
  BY <1>7
<1>13. Covered(blocks, ends, goal, r, {<<"end", a>>})
  BY <1>6, <1>12, CoveredLess
<1> QED
  BY <1>3, <1>11, <1>13

(* One of the bodies of a block that has no closing.                          *)
LEMMA OpenBody ==
  ASSUME NEW blocks, NEW ends, NEW goal, Sound(blocks, ends, goal),
         NEW item \in Items(blocks), NEW body \in item.body,
         NEW r \in Stacks(blocks), NEW a \in States(blocks), NEW c \in BOOLEAN, c = CleaningIn(r),
         Covered(blocks, ends, goal, r, BodyEnds(ends, c, item, a))
  PROVE  Covered(blocks, ends, goal, body \o r, {<<"end", a>>})
<1>1. body \in blocks
  BY ItemFacts DEF Sound
<1>2. ends[c][body][a] \subseteq BodyEnds(ends, c, item, a)
  BY DEF BodyEnds
<1>3. Covered(blocks, ends, goal, r, ends[c][body][a])
  BY <1>2, CoveredLess
<1> QED
  BY <1>1, <1>3, Push

-----------------------------------------------------------------------------
(* The inductive invariant *)

(* What the analysis sees of the panel and the host, for one goal.            *)
Blamed(goal) == goal.of \in disturbed /\ ~(ExcusesLost(goal.promise) /\ goal.of \in lost)
Seen(goal) == [left |-> Blamed(goal), noted |-> noted]

(* The script is no longer held to a promise once a failure that excuses it    *)
(* has happened; until then what is left to do is covered.                    *)
Forgiven(promise) ==
  \/ promise = "always" /\ cut
  \/ promise = "cleanup" /\ hurt
  \/ promise = "errors" /\ interrupted
  \/ promise = "clean" /\ faults # 0
OnTrack(goal) ==
  Forgiven(goal.promise) \/ Covered(Blocks[script], Ends[script][goal], goal, todo, {<<"end", Seen(goal)>>})

RigTypes ==
  /\ script \in DOMAIN Scripts
  /\ todo \in Stacks(Blocks[script])
  /\ noted \subseteq Notes(Blocks[script])
  /\ disturbed \subseteq Settings /\ lost \subseteq Settings
  /\ faults \in 0..MaxFaults
  /\ interrupted \in BOOLEAN /\ hurt \in BOOLEAN /\ cut \in BOOLEAN

RigInv == RigTypes /\ \A goal \in Goals(Scripts[script]) : OnTrack(goal)

LEMMA SeenIsState ==
  ASSUME RigTypes, NEW goal
  PROVE  Seen(goal) \in States(Blocks[script])
<1>1. Blamed(goal) \in BOOLEAN
  BY DEF Blamed
<1> QED
  BY <1>1 DEF Seen, States, RigTypes

LEMMA SoundHere ==
  ASSUME RigTypes
  PROVE  /\ Closed(Blocks[script])
         /\ \A goal \in Goals(Scripts[script]) : Sound(Blocks[script], Ends[script][goal], goal)
BY BlocksAssumption, EndsAssumption DEF RigTypes, Sound

LEMMA StackHere ==
  ASSUME RigTypes, todo # <<>>
  PROVE  /\ Head(todo) \in StackItems(Blocks[script]) /\ Rest \in Stacks(Blocks[script])
         /\ Head(todo).do \in Simple \cup Compound =>
              Head(todo) \in Items(Blocks[script]) /\ CleaningIn(Rest) = CleaningIn(todo)
         /\ Head(todo).do = "except" => CleaningIn(Rest) = CleaningIn(todo)
<1>1. todo \in Seq(StackItems(Blocks[script]))
  BY DEF RigTypes, Stacks
<1>2. Head(todo) \in StackItems(Blocks[script]) /\ Rest \in Stacks(Blocks[script])
  BY <1>1, HeadTailProperties DEF Stacks, Rest
<1>3. Head(todo).do \notin Fences => CleaningIn(Rest) = CleaningIn(todo)
  BY <1>1, HeadOnTail DEF Rest
<1>4. Head(todo).do \in Simple \cup Compound => Head(todo) \in Items(Blocks[script])
  BY <1>2, SoundHere, StackItemFacts
<1>5. Head(todo).do \in Simple \cup Compound => Head(todo).do \notin Fences
  BY DEF Simple, Compound, Fences
<1>6. Head(todo).do = "except" => Head(todo).do \notin Fences
  BY DEF Fences
<1> QED
  BY <1>2, <1>3, <1>4, <1>5, <1>6

(* The rest of the stack covers whatever its first item leads to.             *)
LEMMA GoalHere ==
  ASSUME RigInv, todo # <<>>, NEW goal \in Goals(Scripts[script]), ~Forgiven(goal.promise),
         NEW c \in BOOLEAN, c = CleaningIn(todo)
  PROVE  Covered(Blocks[script], Ends[script][goal], goal, Rest,
                 Through(Ends[script][goal], goal, c, Head(todo), "end", Seen(goal)))
<1> DEFINE blocks == Blocks[script]
           ends == Ends[script][goal]
           x == <<"end", Seen(goal)>>
<1>1. Covered(blocks, ends, goal, todo, {x}) /\ todo \in Stacks(blocks) /\ Seen(goal) \in States(blocks)
  BY SeenIsState DEF RigInv, OnTrack, RigTypes
<1>2. x \in Arrivals(blocks) /\ x[1] = "end" /\ x[2] = Seen(goal)
  BY <1>1 DEF Arrivals
<1> HIDE DEF blocks, ends, x
<1>3. Covered(blocks, ends, goal, Tail(todo), Through(ends, goal, CleaningIn(todo), Head(todo), x[1], x[2]))
  BY <1>1, <1>2, Pop
<1> QED
  BY <1>2, <1>3 DEF blocks, ends, Rest

(* A step that only moves through the script.                                 *)
LEMMA Moved ==
  ASSUME RigInv, UNCHANGED <<script, disturbed, noted, history>>,
         todo' \in Stacks(Blocks[script]),
         \A goal \in Goals(Scripts[script]) :
           ~Forgiven(goal.promise) =>
             Covered(Blocks[script], Ends[script][goal], goal, todo', {<<"end", Seen(goal)>>})
  PROVE  RigInv'
<1>1. RigTypes'
  BY DEF RigInv, RigTypes, history
<1>2. ASSUME NEW goal \in Goals(Scripts[script]) PROVE OnTrack(goal)'
  <2>1. Forgiven(goal.promise)' <=> Forgiven(goal.promise)
    BY DEF Forgiven, history
  <2>2. Seen(goal)' = Seen(goal)
    BY DEF Seen, Blamed, history
  <2>3. script' = script
    OBVIOUS
  <2> QED
    BY <2>1, <2>2, <2>3 DEF OnTrack
<1> QED
  BY <1>1, <1>2 DEF RigInv

-----------------------------------------------------------------------------
(* The steps *)

LEMMA EnterStep ==
  ASSUME RigInv, Enter
  PROVE  RigInv'
<1> DEFINE item == Head(todo)
<1>1. /\ RigTypes /\ todo # <<>> /\ item.do \in {"try", "finally", "choose", "many"}
      /\ UNCHANGED <<script, disturbed, noted, history>>
  BY DEF RigInv, Enter, At
<1>2. /\ item \in Items(Blocks[script]) /\ Rest \in Stacks(Blocks[script])
      /\ CleaningIn(Rest) = CleaningIn(todo) /\ Closed(Blocks[script])
  BY <1>1, StackHere, SoundHere DEF Simple, Compound
<1>3. PICK c \in BOOLEAN : c = CleaningIn(todo) /\ c = CleaningIn(Rest)
  BY <1>2, CleaningBoolean
<1>4. \A goal \in Goals(Scripts[script]) :
        /\ Sound(Blocks[script], Ends[script][goal], goal) /\ Seen(goal) \in States(Blocks[script])
        /\ ~Forgiven(goal.promise) =>
             Covered(Blocks[script], Ends[script][goal], goal, Rest,
                     Through(Ends[script][goal], goal, c, item, "end", Seen(goal)))
  BY <1>1, <1>3, SeenIsState, SoundHere, GoalHere
<1>5. ASSUME NEW body \in item.body, todo' = body \o Closing(item) \o Rest
      PROVE  RigInv'
  <2>1. /\ Closing(item) \o Rest \in Stacks(Blocks[script])
        /\ todo' = body \o (Closing(item) \o Rest) /\ todo' \in Stacks(Blocks[script])
    BY <1>1, <1>2, <1>5, EnterStack
  <2>2. ASSUME NEW goal \in Goals(Scripts[script]), ~Forgiven(goal.promise)
        PROVE  Covered(Blocks[script], Ends[script][goal], goal, body \o (Closing(item) \o Rest), {<<"end", Seen(goal)>>})
    <3> HIDE DEF item
    <3>1. CASE item.do \in {"try", "finally"}
      BY <1>2, <1>3, <1>4, <2>2, <3>1, GuardedBody
    <3>2. CASE item.do = "many"
      BY <1>2, <1>3, <1>4, <2>2, <3>2, LoopBody
    <3>3. CASE item.do = "choose"
      <4>1. Closing(item) \o Rest = Rest
        <5>1. Closing(item) = <<>>
          BY <3>3 DEF Closing
        <5> QED
          BY <1>2, <5>1, ConcatEmptySeq DEF Stacks
      <4>2. Through(Ends[script][goal], goal, c, item, "end", Seen(goal)) = BodyEnds(Ends[script][goal], c, item, Seen(goal))
        BY <3>3 DEF Through, Simple, Compound, Awaited
      <4>3. Covered(Blocks[script], Ends[script][goal], goal, Rest, BodyEnds(Ends[script][goal], c, item, Seen(goal)))
        BY <1>4, <2>2, <4>2
      <4> QED
        BY <1>2, <1>3, <1>4, <4>1, <4>3, OpenBody
    <3> QED
      BY <1>1, <3>1, <3>2, <3>3
  <2> QED
    BY <1>1, <2>1, <2>2, Moved
<1>6. ASSUME item.do = "many", todo' = Rest
      PROVE  RigInv'
  <2>1. ASSUME NEW goal \in Goals(Scripts[script]), ~Forgiven(goal.promise)
        PROVE  Covered(Blocks[script], Ends[script][goal], goal, Rest, {<<"end", Seen(goal)>>})
    <3>1. Through(Ends[script][goal], goal, c, item, "end", Seen(goal)) = Ends[script][goal][c][<<item>>][Seen(goal)]
      BY <1>6 DEF Through, Simple, Compound, Awaited
    <3>2. item \in ItemsOf(Blocks[script], {"many"})
      BY <1>2, <1>6, ItemFacts
    <3>3. <<"end", Seen(goal)>> \in Ends[script][goal][c][<<item>>][Seen(goal)]
      BY <1>4, <3>2 DEF Sound, Consistent
    <3> QED
      BY <1>4, <2>1, <3>1, <3>3, CoveredLess
  <2> QED
    BY <1>1, <1>2, <1>6, <2>1, Moved
<1>7. \/ \E body \in item.body : todo' = body \o Closing(item) \o Rest
      \/ item.do = "many" /\ todo' = Rest
  BY DEF Enter, At
<1> QED
  BY <1>5, <1>6, <1>7

LEMMA EnterIfNotedStep ==
  ASSUME RigInv, EnterIfNoted
  PROVE  RigInv'
<1> DEFINE item == Head(todo)
<1>1. /\ RigTypes /\ todo # <<>> /\ item.do = "if_noted"
      /\ UNCHANGED <<script, disturbed, noted, history>>
  BY DEF RigInv, EnterIfNoted, At
<1>2. /\ item \in Items(Blocks[script]) /\ Rest \in Stacks(Blocks[script])
      /\ CleaningIn(Rest) = CleaningIn(todo) /\ Closed(Blocks[script])
  BY <1>1, StackHere, SoundHere DEF Simple, Compound
<1>3. PICK c \in BOOLEAN : c = CleaningIn(todo) /\ c = CleaningIn(Rest)
  BY <1>2, CleaningBoolean
<1>4. \A goal \in Goals(Scripts[script]) :
        /\ Sound(Blocks[script], Ends[script][goal], goal) /\ Seen(goal) \in States(Blocks[script])
        /\ ~Forgiven(goal.promise) =>
             Covered(Blocks[script], Ends[script][goal], goal, Rest,
                     Through(Ends[script][goal], goal, c, item, "end", Seen(goal)))
  BY <1>1, <1>3, SeenIsState, SoundHere, GoalHere
<1>5. \A goal \in Goals(Scripts[script]) :
        Through(Ends[script][goal], goal, c, item, "end", Seen(goal)) =
          IF item.of \subseteq noted THEN BodyEnds(Ends[script][goal], c, item, Seen(goal)) ELSE {<<"end", Seen(goal)>>}
  BY <1>1 DEF Through, Simple, Compound, Awaited, Seen
<1>6. PICK body \in item.body : todo' = (IF item.of \subseteq noted THEN body ELSE <<>>) \o Rest
  BY DEF EnterIfNoted
<1>7. CASE item.of \subseteq noted
  <2>1. todo' = body \o Rest
    BY <1>6, <1>7
  <2>2. body \in Blocks[script]
    BY <1>2, ItemFacts
  <2>3. todo' \in Stacks(Blocks[script])
    BY <1>2, <2>1, <2>2, BlockOnStack
  <2>4. ASSUME NEW goal \in Goals(Scripts[script]), ~Forgiven(goal.promise)
        PROVE  Covered(Blocks[script], Ends[script][goal], goal, body \o Rest, {<<"end", Seen(goal)>>})
    <3> HIDE DEF item
    <3>1. Covered(Blocks[script], Ends[script][goal], goal, Rest, BodyEnds(Ends[script][goal], c, item, Seen(goal)))
      BY <1>4, <1>5, <1>7, <2>4
    <3> QED
      BY <1>2, <1>3, <1>4, <3>1, OpenBody
  <2> QED
    BY <1>1, <2>1, <2>3, <2>4, Moved
<1>8. CASE ~(item.of \subseteq noted)
  <2>1. todo' = Rest
    <3>1. todo' = <<>> \o Rest
      BY <1>6, <1>8
    <3> QED
      BY <1>2, <3>1, ConcatEmptySeq DEF Stacks
  <2>2. ASSUME NEW goal \in Goals(Scripts[script]), ~Forgiven(goal.promise)
        PROVE  Covered(Blocks[script], Ends[script][goal], goal, Rest, {<<"end", Seen(goal)>>})
    BY <1>4, <1>5, <1>8, <2>2
  <2> QED
    BY <1>1, <1>2, <2>1, <2>2, Moved
<1> QED
  BY <1>7, <1>8

(* What a mark lets through when the block ends well.                         *)
LEMMA MarkHere ==
  ASSUME RigInv, todo # <<>>, Head(todo).do \in MarkKinds
  PROVE  /\ \A goal \in Goals(Scripts[script]) :
              ~Forgiven(goal.promise) =>
                \E c \in BOOLEAN : Covered(Blocks[script], Ends[script][goal], goal, Rest,
                                           PastMark(Ends[script][goal], c, Head(todo), "end", Seen(goal)))
         /\ Head(todo).of \subseteq Kinds(Blocks[script]) /\ Head(todo).after \in Blocks[script]
         /\ "end" \notin Head(todo).of /\ Rest \in Stacks(Blocks[script])
<1>1. RigTypes /\ Closed(Blocks[script])
  BY SoundHere DEF RigInv
<1>2. Head(todo).of \subseteq Kinds(Blocks[script]) /\ Head(todo).after \in Blocks[script] /\ Rest \in Stacks(Blocks[script])
  BY <1>1, StackHere, StackItemFacts
<1>3. "end" \notin Head(todo).of
  BY <1>1, <1>2 DEF Closed
<1>4. PICK c \in BOOLEAN : c = CleaningIn(todo)
  BY CleaningBoolean
<1>5. ASSUME NEW goal \in Goals(Scripts[script]), ~Forgiven(goal.promise)
      PROVE  Covered(Blocks[script], Ends[script][goal], goal, Rest,
                     PastMark(Ends[script][goal], c, Head(todo), "end", Seen(goal)))
  <2>1. Covered(Blocks[script], Ends[script][goal], goal, Rest,
                Through(Ends[script][goal], goal, c, Head(todo), "end", Seen(goal)))
    BY <1>4, <1>5, GoalHere
  <2>2. Through(Ends[script][goal], goal, c, Head(todo), "end", Seen(goal))
          = PastMark(Ends[script][goal], c, Head(todo), "end", Seen(goal))
    BY DEF Through, Simple, Compound, MarkKinds
  <2> QED
    BY <2>1, <2>2
<1> QED
  BY <1>2, <1>3, <1>5

LEMMA EndBlockStep ==
  ASSUME RigInv, EndBlock
  PROVE  RigInv'
<1> DEFINE m == Head(todo)
<1>1. /\ RigTypes /\ todo # <<>> /\ m.do \in {"except", "cleanup"}
      /\ UNCHANGED <<script, disturbed, noted, history>>
  BY DEF RigInv, EndBlock, At
<1>2. /\ \A goal \in Goals(Scripts[script]) :
           ~Forgiven(goal.promise) =>
             \E c \in BOOLEAN : Covered(Blocks[script], Ends[script][goal], goal, Rest,
                                        PastMark(Ends[script][goal], c, m, "end", Seen(goal)))
      /\ m.after \in Blocks[script] /\ "end" \notin m.of /\ Rest \in Stacks(Blocks[script])
  BY <1>1, MarkHere DEF MarkKinds
<1>3. /\ Closed(Blocks[script])
      /\ \A goal \in Goals(Scripts[script]) :
           Sound(Blocks[script], Ends[script][goal], goal) /\ Seen(goal) \in States(Blocks[script])
  BY <1>1, SoundHere, SeenIsState
<1>4. todo' = (IF m.do = "cleanup" THEN Cleanup(m.after, {}) ELSE <<>>) \o Rest
  BY <1>1 DEF EndBlock, At
<1> HIDE DEF m
<1>5. CASE m.do = "cleanup"
  <2>1. todo' = Cleanup(m.after, {}) \o Rest
    BY <1>4, <1>5
  <2>2. ASSUME NEW goal \in Goals(Scripts[script]), ~Forgiven(goal.promise)
        PROVE  Covered(Blocks[script], Ends[script][goal], goal, Cleanup(m.after, {}) \o Rest, {<<"end", Seen(goal)>>})
    <3>1. PICK c \in BOOLEAN : Covered(Blocks[script], Ends[script][goal], goal, Rest,
                                       PastMark(Ends[script][goal], c, m, "end", Seen(goal)))
      BY <1>2, <2>2
    <3>2. PastMark(Ends[script][goal], c, m, "end", Seen(goal)) =
            {<<IF x[1] = "end" THEN Carried({}) ELSE x[1], x[2]>> : x \in Ends[script][goal][TRUE][m.after][Seen(goal)]}
      BY <1>5 DEF PastMark, Carried
    <3>3. {} \in SUBSET Kinds(Blocks[script])
      OBVIOUS
    <3>4. Covered(Blocks[script], Ends[script][goal], goal, Rest,
            {<<IF x[1] = "end" THEN Carried({}) ELSE x[1], x[2]>> : x \in Ends[script][goal][TRUE][m.after][Seen(goal)]})
      BY <3>1, <3>2
    <3> QED
      BY <1>2, <1>3, <3>3, <3>4, CleanupOnStack
  <2>3. todo' \in Stacks(Blocks[script])
    <3>1. <<>> \in Blocks[script] /\ {} \in SUBSET Kinds(Blocks[script])
      BY <1>3 DEF Closed
    <3>2. PICK e \in StackItems(Blocks[script]) : Mark("end_cleanup", {}, <<>>) = <<e>>
      BY <1>3, <3>1, MarkFacts DEF MarkKinds
    <3>3. m.after \o <<e>> \in Stacks(Blocks[script])
      BY <1>2, <1>3, BlockOnStack, ConcatProperties DEF Stacks
    <3> QED
      BY <1>2, <2>1, <3>2, <3>3, ConcatProperties DEF Cleanup, Stacks
  <2> QED
    BY <1>1, <2>1, <2>2, <2>3, Moved
<1>6. CASE m.do = "except"
  <2>1. todo' = Rest
    <3>1. todo' = <<>> \o Rest
      BY <1>4, <1>6
    <3> QED
      BY <1>2, <3>1, ConcatEmptySeq DEF Stacks
  <2>2. ASSUME NEW goal \in Goals(Scripts[script]), ~Forgiven(goal.promise)
        PROVE  Covered(Blocks[script], Ends[script][goal], goal, Rest, {<<"end", Seen(goal)>>})
    <3>1. PICK c \in BOOLEAN : Covered(Blocks[script], Ends[script][goal], goal, Rest,
                                       PastMark(Ends[script][goal], c, m, "end", Seen(goal)))
      BY <1>2, <2>2
    <3>2. PastMark(Ends[script][goal], c, m, "end", Seen(goal)) = {<<"end", Seen(goal)>>}
      BY <1>2, <1>6 DEF PastMark
    <3> QED
      BY <3>1, <3>2
  <2> QED
    BY <1>1, <1>2, <2>1, <2>2, Moved
<1>7. m.do \in {"except", "cleanup"}
  BY <1>1 DEF m
<1> QED
  BY <1>5, <1>6, <1>7

LEMMA EndCleanupStep ==
  ASSUME RigInv, EndCleanup
  PROVE  RigInv'
<1> DEFINE m == Head(todo)
           kind == CHOOSE k \in m.of : TRUE
<1>1. /\ RigTypes /\ todo # <<>> /\ m.do = "end_cleanup"
      /\ UNCHANGED <<script, disturbed, noted, history>>
  BY DEF RigInv, EndCleanup, At
<1>2. /\ \A goal \in Goals(Scripts[script]) :
           ~Forgiven(goal.promise) =>
             \E c \in BOOLEAN : Covered(Blocks[script], Ends[script][goal], goal, Rest,
                                        PastMark(Ends[script][goal], c, m, "end", Seen(goal)))
      /\ m.of \subseteq Kinds(Blocks[script]) /\ Rest \in Stacks(Blocks[script])
  BY <1>1, MarkHere DEF MarkKinds
<1>3. /\ Closed(Blocks[script])
      /\ \A goal \in Goals(Scripts[script]) :
           Sound(Blocks[script], Ends[script][goal], goal) /\ Seen(goal) \in States(Blocks[script])
  BY <1>1, SoundHere, SeenIsState
<1>4. todo' = IF m.of = {} THEN Rest ELSE Unwound(kind, Rest)
  BY DEF EndCleanup, GoOn
<1>5. CASE m.of = {}
  <2>1. ASSUME NEW goal \in Goals(Scripts[script]), ~Forgiven(goal.promise)
        PROVE  Covered(Blocks[script], Ends[script][goal], goal, Rest, {<<"end", Seen(goal)>>})
    <3>1. PICK c \in BOOLEAN : Covered(Blocks[script], Ends[script][goal], goal, Rest,
                                       PastMark(Ends[script][goal], c, m, "end", Seen(goal)))
      BY <1>2, <2>1
    <3>2. PastMark(Ends[script][goal], c, m, "end", Seen(goal)) = {<<"end", Seen(goal)>>}
      BY <1>1, <1>5 DEF PastMark
    <3> QED
      BY <3>1, <3>2
  <2> QED
    BY <1>1, <1>2, <1>4, <1>5, <2>1, Moved
<1>6. CASE m.of # {}
  <2>1. kind \in m.of /\ kind \in Kinds(Blocks[script])
    <3>1. kind \in m.of
      BY <1>6
    <3> QED
      BY <1>2, <3>1
  <2>2. ASSUME NEW goal \in Goals(Scripts[script]), ~Forgiven(goal.promise)
        PROVE  Covered(Blocks[script], Ends[script][goal], goal, Unwound(kind, Rest), {<<"end", Seen(goal)>>})
    <3>1. PICK c \in BOOLEAN : Covered(Blocks[script], Ends[script][goal], goal, Rest,
                                       PastMark(Ends[script][goal], c, m, "end", Seen(goal)))
      BY <1>2, <2>2
    <3>2. PastMark(Ends[script][goal], c, m, "end", Seen(goal)) = {<<kind, Seen(goal)>>}
      BY <1>1, <1>6 DEF PastMark
    <3> HIDE DEF kind
    <3> QED
      BY <1>2, <1>3, <2>1, <3>1, <3>2, Jump
  <2>3. Unwound(kind, Rest) \in Stacks(Blocks[script])
    <3> HIDE DEF kind
    <3> QED
      BY <1>2, <1>3, <2>1, UnwoundIsStack
  <2> QED
    BY <1>1, <1>4, <1>6, <2>2, <2>3, Moved
<1> QED
  BY <1>5, <1>6

LEMMA RaiseStep ==
  ASSUME RigInv, RaiseAction
  PROVE  RigInv'
<1> DEFINE item == Head(todo)
<1>1. /\ RigTypes /\ todo # <<>> /\ item.do = "raise"
      /\ UNCHANGED <<script, disturbed, noted, history>>
  BY DEF RigInv, RaiseAction, At
<1>2. PICK kind \in item.of : todo' = Unwound(kind, Rest)
  BY DEF RaiseAction
<1>3. /\ item \in Items(Blocks[script]) /\ Rest \in Stacks(Blocks[script]) /\ Closed(Blocks[script])
  BY <1>1, StackHere, SoundHere DEF Simple, Compound
<1>4. kind \in Kinds(Blocks[script])
  BY <1>1, <1>3, ItemFacts
<1>5. PICK c \in BOOLEAN : c = CleaningIn(todo)
  BY CleaningBoolean
<1>6. ASSUME NEW goal \in Goals(Scripts[script]), ~Forgiven(goal.promise)
      PROVE  Covered(Blocks[script], Ends[script][goal], goal, Unwound(kind, Rest), {<<"end", Seen(goal)>>})
  <2>1. Sound(Blocks[script], Ends[script][goal], goal) /\ Seen(goal) \in States(Blocks[script])
    BY <1>1, SeenIsState, SoundHere
  <2>2. Covered(Blocks[script], Ends[script][goal], goal, Rest,
                Through(Ends[script][goal], goal, c, item, "end", Seen(goal)))
    BY <1>1, <1>5, <1>6, GoalHere
  <2>3. Through(Ends[script][goal], goal, c, item, "end", Seen(goal)) = {<<k, Seen(goal)>> : k \in item.of}
    BY <1>1 DEF Through, Simple, Compound, Awaited
  <2>4. {<<kind, Seen(goal)>>} \subseteq {<<k, Seen(goal)>> : k \in item.of}
    OBVIOUS
  <2>5. Covered(Blocks[script], Ends[script][goal], goal, Rest, {<<kind, Seen(goal)>>})
    BY <2>2, <2>3, <2>4, CoveredLess
  <2> QED
    BY <1>3, <1>4, <2>1, <2>5, Jump
<1> QED
  BY <1>1, <1>2, <1>3, <1>4, <1>6, UnwoundIsStack, Moved

LEMMA CommandHere ==
  ASSUME RigInv, KeepsPromises(script), At(Awaited), NEW c \in BOOLEAN, c = CleaningIn(todo)
  PROVE  /\ RigTypes /\ Closed(Blocks[script]) /\ Rest \in Stacks(Blocks[script])
         /\ Head(todo).do \in Awaited /\ Head(todo).of \subseteq Settings
         /\ Head(todo).do = "use" => Head(todo).of = {}
         /\ Cleaning = c
         /\ \A goal \in Goals(Scripts[script]) :
              /\ Sound(Blocks[script], Ends[script][goal], goal) /\ Seen(goal) \in States(Blocks[script])
              /\ ~Forgiven(goal.promise) =>
                   Covered(Blocks[script], Ends[script][goal], goal, Rest, Commanded(goal, c, Head(todo), Seen(goal)))
<1>1. RigTypes /\ todo # <<>> /\ Head(todo).do \in Awaited
  BY DEF RigInv, At
<1>2. Head(todo) \in Items(Blocks[script]) /\ Rest \in Stacks(Blocks[script]) /\ Closed(Blocks[script])
  BY <1>1, StackHere, SoundHere DEF Simple, Compound, Awaited
<1>3. Head(todo).of \subseteq Settings /\ (Head(todo).do = "use" => Head(todo).of = {})
  <2>1. Head(todo) \in ItemsOf(Blocks[script], Awaited)
    BY <1>1, <1>2, ItemFacts
  <2> QED
    BY <1>2, <2>1, ItemFacts DEF KeepsPromises
<1>4. Cleaning = c
  <2>1. DOMAIN todo = 1..Len(todo)
    BY <1>1, LenProperties DEF RigTypes, Stacks
  <2> QED
    BY <2>1 DEF Cleaning, Marks, CleaningIn, Fences
<1>5. ASSUME NEW goal \in Goals(Scripts[script])
      PROVE  Sound(Blocks[script], Ends[script][goal], goal) /\ Seen(goal) \in States(Blocks[script])
  BY <1>1, SoundHere, SeenIsState
<1>6. ASSUME NEW goal \in Goals(Scripts[script]), ~Forgiven(goal.promise)
      PROVE  Covered(Blocks[script], Ends[script][goal], goal, Rest, Commanded(goal, c, Head(todo), Seen(goal)))
  <2>1. Covered(Blocks[script], Ends[script][goal], goal, Rest,
                Through(Ends[script][goal], goal, c, Head(todo), "end", Seen(goal)))
    BY <1>1, <1>6, GoalHere
  <2>2. Through(Ends[script][goal], goal, c, Head(todo), "end", Seen(goal)) = Commanded(goal, c, Head(todo), Seen(goal))
    BY <1>1 DEF Through, Simple, Compound, Awaited
  <2> QED
    BY <2>1, <2>2
<1> QED
  BY <1>1, <1>2, <1>3, <1>4, <1>5, <1>6

LEMMA SeenAgain ==
  ASSUME NEW goal, noted' = noted, NEW left \in BOOLEAN, Blamed(goal)' <=> left
  PROVE  Seen(goal)' = [Seen(goal) EXCEPT !.left = left]
<1>1. Seen(goal)' = [left |-> Blamed(goal)', noted |-> noted]
  BY DEF Seen
<1>2. Blamed(goal)' = left
  BY DEF Blamed
<1> QED
  BY <1>1, <1>2 DEF Seen

LEMMA WorksStep ==
  ASSUME RigInv, KeepsPromises(script), Works
  PROVE  RigInv'
<1> DEFINE item == Head(todo)
<1>1. /\ At(Awaited) /\ disturbed' = Affected(item) /\ lost' = lost \ item.of /\ todo' = Rest
      /\ UNCHANGED <<script, noted, faults, interrupted, hurt, cut>>
  BY DEF Works
<1>2. PICK c \in BOOLEAN : c = CleaningIn(todo)
  BY CleaningBoolean
<1>3. /\ RigTypes /\ Rest \in Stacks(Blocks[script])
      /\ item.do \in Awaited /\ item.of \subseteq Settings /\ (item.do = "use" => item.of = {})
      /\ \A goal \in Goals(Scripts[script]) :
           ~Forgiven(goal.promise) =>
             Covered(Blocks[script], Ends[script][goal], goal, Rest, Commanded(goal, c, item, Seen(goal)))
  BY <1>1, <1>2, CommandHere
<1>4. RigTypes'
  <2>1. Affected(item) \subseteq Settings
    BY <1>3 DEF Affected, RigTypes
  <2> QED
    BY <1>1, <1>3, <2>1 DEF RigTypes
<1>5. ASSUME NEW goal \in Goals(Scripts[script]) PROVE OnTrack(goal)'
  <2>1. Forgiven(goal.promise)' <=> Forgiven(goal.promise)
    BY <1>1 DEF Forgiven
  <2>2. CASE ~Forgiven(goal.promise)
    <3> DEFINE left == LeftIfSent(goal, item, Seen(goal).left)
    <3>1. Seen(goal).left = Blamed(goal) /\ Blamed(goal) \in BOOLEAN
      BY DEF Seen, Blamed
    <3>2. left \in BOOLEAN
      BY <3>1 DEF LeftIfSent
    <3>3. Blamed(goal)' <=> left
      <4>1. CASE goal.of \in item.of
        <5>1. Blamed(goal)' <=> goal.of \in Affected(item)
          BY <1>1, <4>1 DEF Blamed
        <5>2. goal.of \in Affected(item) <=> item.do = "set"
          BY <1>3, <4>1 DEF Affected, Awaited
        <5> QED
          BY <4>1, <5>1, <5>2 DEF LeftIfSent
      <4>2. CASE goal.of \notin item.of
        <5>1. goal.of \in Affected(item) <=> goal.of \in disturbed
          BY <4>2 DEF Affected
        <5>2. Blamed(goal)' <=> Blamed(goal)
          BY <1>1, <4>2, <5>1 DEF Blamed
        <5> QED
          BY <3>1, <4>2, <5>2 DEF LeftIfSent
      <4> QED
        BY <4>1, <4>2
    <3>4. Seen(goal)' = [Seen(goal) EXCEPT !.left = left]
      BY <1>1, <3>2, <3>3, SeenAgain
    <3>5. {<<"end", Seen(goal)'>>} \subseteq Commanded(goal, c, item, Seen(goal))
      BY <3>4 DEF Commanded
    <3>6. Covered(Blocks[script], Ends[script][goal], goal, Rest, {<<"end", Seen(goal)'>>})
      BY <1>3, <2>2, <3>5, CoveredLess
    <3> QED
      BY <1>1, <3>6 DEF OnTrack
  <2> QED
    BY <2>1, <2>2 DEF OnTrack
<1> QED
  BY <1>1, <1>4, <1>5 DEF RigInv

LEMMA FailsStep ==
  ASSUME RigInv, KeepsPromises(script), NEW kind \in Errors \cup {"interrupt"}, NEW reached \in BOOLEAN,
         Fails(kind, reached)
  PROVE  RigInv'
<1> DEFINE item == Head(todo)
<1>1. /\ At(Awaited) /\ faults < MaxFaults
      /\ reached => item.of # {}
      /\ disturbed' = IF reached THEN Affected(item) ELSE disturbed
      /\ lost' = IF item.do = "reset" /\ ~reached THEN lost \cup item.of ELSE lost
      /\ faults' = faults + 1
      /\ todo' = Unwound(kind, Rest)
      /\ UNCHANGED <<script, noted>>
  BY DEF Fails, At
<1>2. /\ interrupted' = (interrupted \/ kind = "interrupt")
      /\ hurt' = (hurt \/ Cleaning)
      /\ cut' = (cut \/ (Cleaning /\ kind = "interrupt"))
  BY DEF Fails
<1>3. PICK c \in BOOLEAN : c = CleaningIn(todo)
  BY CleaningBoolean
<1>4. /\ RigTypes /\ Closed(Blocks[script]) /\ Rest \in Stacks(Blocks[script])
      /\ item.do \in Awaited /\ item.of \subseteq Settings /\ (item.do = "use" => item.of = {})
      /\ Cleaning = c
      /\ \A goal \in Goals(Scripts[script]) :
           /\ Sound(Blocks[script], Ends[script][goal], goal) /\ Seen(goal) \in States(Blocks[script])
           /\ ~Forgiven(goal.promise) =>
                Covered(Blocks[script], Ends[script][goal], goal, Rest, Commanded(goal, c, item, Seen(goal)))
  BY <1>1, <1>3, CommandHere
<1>5. kind \in Kinds(Blocks[script])
  BY KindsFacts
<1>6. RigTypes'
  <2>1. disturbed' \subseteq Settings /\ lost' \subseteq Settings
    BY <1>1, <1>4 DEF Affected, RigTypes
  <2>2. faults' \in 0..MaxFaults
    BY <1>1, <1>4, FaultsAssumption DEF RigTypes
  <2>3. todo' \in Stacks(Blocks[script])
    BY <1>1, <1>4, <1>5, UnwoundIsStack
  <2>4. interrupted' \in BOOLEAN /\ hurt' \in BOOLEAN /\ cut' \in BOOLEAN
    BY <1>2
  <2> QED
    BY <1>1, <1>4, <2>1, <2>2, <2>3, <2>4 DEF RigTypes
<1>7. ASSUME NEW goal \in Goals(Scripts[script]) PROVE OnTrack(goal)'
  <2>1. CASE Forgiven(goal.promise)'
    BY <2>1 DEF OnTrack
  <2>2. CASE ~Forgiven(goal.promise)'
    <3>1. faults \in Nat /\ faults' # 0
      BY <1>1, <1>4, FaultsAssumption DEF RigTypes
    <3>2. ~Forgiven(goal.promise)
      BY <1>2, <2>2, <3>1 DEF Forgiven
    <3>3. goal.promise \in Promises
      BY <1>4, ScriptsAssumption DEF Goals, RigTypes
    <3>4. kind \in Unexcused(goal.promise, c)
      <4>1. CASE goal.promise = "always"
        BY <1>2, <1>4, <2>2, <4>1 DEF Forgiven, Unexcused
      <4>2. CASE goal.promise = "cleanup"
        BY <1>2, <1>4, <2>2, <4>2 DEF Forgiven, Unexcused
      <4>3. CASE goal.promise = "errors"
        BY <1>2, <2>2, <4>3 DEF Forgiven, Unexcused
      <4>4. CASE goal.promise = "clean"
        BY <2>2, <3>1, <4>4 DEF Forgiven
      <4> QED
        BY <3>3, <4>1, <4>2, <4>3, <4>4 DEF Promises
    <3> DEFINE sent == LeftIfSent(goal, item, Seen(goal).left)
               missed == LeftIfLost(goal, item, Seen(goal).left)
    <3>5. Seen(goal).left = Blamed(goal) /\ Blamed(goal) \in BOOLEAN
      BY DEF Seen, Blamed
    <3>6. sent \in BOOLEAN /\ missed \in BOOLEAN
      BY <3>5 DEF LeftIfSent, LeftIfLost
    <3>7. (Blamed(goal)' <=> sent) \/ (Blamed(goal)' <=> missed)
      <4>1. CASE reached
        <5>1. disturbed' = Affected(item) /\ lost' = lost
          BY <1>1, <4>1
        <5>2. CASE goal.of \notin item.of
          <6>1. Blamed(goal)' <=> Blamed(goal)
            BY <5>1, <5>2 DEF Blamed, Affected
          <6> QED
            BY <3>5, <5>2, <6>1 DEF LeftIfSent
        <5>3. CASE goal.of \in item.of /\ item.do = "reset"
          <6>1. ~Blamed(goal)'
            BY <5>1, <5>3 DEF Blamed, Affected
          <6> QED
            BY <5>3, <6>1 DEF LeftIfSent
        <5>4. CASE goal.of \in item.of /\ item.do = "set"
          <6>1. Blamed(goal)' <=> ~(ExcusesLost(goal.promise) /\ goal.of \in lost)
            BY <5>1, <5>4 DEF Blamed, Affected
          <6>2. sent
            BY <5>4 DEF LeftIfSent
          <6>3. missed <=> Blamed(goal)
            BY <3>5, <5>4 DEF LeftIfLost
          <6> QED
            BY <6>1, <6>2, <6>3 DEF Blamed
        <5> QED
          BY <1>4, <5>2, <5>3, <5>4 DEF Awaited
      <4>2. CASE ~reached
        <5>1. disturbed' = disturbed
          BY <1>1, <4>2
        <5>2. CASE item.do = "reset" /\ goal.of \in item.of /\ ExcusesLost(goal.promise)
          <6>1. goal.of \in lost'
            BY <1>1, <4>2, <5>2
          <6>2. ~Blamed(goal)'
            BY <5>2, <6>1 DEF Blamed
          <6> QED
            BY <5>2, <6>2 DEF LeftIfLost
        <5>3. CASE ~(item.do = "reset" /\ goal.of \in item.of /\ ExcusesLost(goal.promise))
          <6>1. Blamed(goal)' <=> Blamed(goal)
            BY <1>1, <4>2, <5>1, <5>3 DEF Blamed
          <6> QED
            BY <3>5, <5>3, <6>1 DEF LeftIfLost
        <5> QED
          BY <5>2, <5>3
      <4> QED
        BY <4>1, <4>2
    <3>8. \/ Seen(goal)' = [Seen(goal) EXCEPT !.left = sent]
          \/ Seen(goal)' = [Seen(goal) EXCEPT !.left = missed]
      <4> HIDE DEF sent, missed
      <4> QED
        BY <1>1, <3>6, <3>7, SeenAgain
    <3>9. {<<kind, Seen(goal)'>>} \subseteq Commanded(goal, c, item, Seen(goal))
      BY <3>4, <3>8 DEF Commanded
    <3>10. Covered(Blocks[script], Ends[script][goal], goal, Rest, {<<kind, Seen(goal)'>>})
      BY <1>4, <3>2, <3>9, CoveredLess
    <3>11. Seen(goal)' \in States(Blocks[script])
      <4>1. \A left \in BOOLEAN : [Seen(goal) EXCEPT !.left = left] \in States(Blocks[script])
        BY <1>4 DEF States
      <4> QED
        BY <3>6, <3>8, <4>1
    <3>12. Covered(Blocks[script], Ends[script][goal], goal, Unwound(kind, Rest), {<<"end", Seen(goal)'>>})
      BY <1>4, <1>5, <3>10, <3>11, Jump
    <3> QED
      BY <1>1, <3>12 DEF OnTrack
  <2> QED
    BY <2>1, <2>2
<1> QED
  BY <1>1, <1>6, <1>7 DEF RigInv

LEMMA RemembersStep ==
  ASSUME RigInv, Remembers
  PROVE  RigInv'
<1> DEFINE item == Head(todo)
<1>1. /\ RigTypes /\ todo # <<>> /\ item.do \in {"note", "forget"} /\ todo' = Rest
      /\ noted' = IF item.do = "note" THEN noted \cup item.of ELSE noted \ item.of
      /\ UNCHANGED <<script, disturbed, history>>
  BY DEF RigInv, Remembers, At
<1>2. item \in Items(Blocks[script]) /\ Rest \in Stacks(Blocks[script]) /\ Closed(Blocks[script])
  BY <1>1, StackHere, SoundHere DEF Simple, Compound
<1>3. PICK c \in BOOLEAN : c = CleaningIn(todo)
  BY CleaningBoolean
<1>4. RigTypes'
  <2>1. item.do = "note" => item.of \subseteq Notes(Blocks[script])
    BY <1>2, ItemFacts
  <2>2. noted' \subseteq Notes(Blocks[script])
    BY <1>1, <2>1 DEF RigTypes
  <2> QED
    BY <1>1, <1>2, <2>2 DEF RigTypes, history
<1>5. ASSUME NEW goal \in Goals(Scripts[script]) PROVE OnTrack(goal)'
  <2>1. Forgiven(goal.promise)' <=> Forgiven(goal.promise)
    BY <1>1 DEF Forgiven, history
  <2>2. CASE ~Forgiven(goal.promise)
    <3>1. Covered(Blocks[script], Ends[script][goal], goal, Rest,
                  Through(Ends[script][goal], goal, c, item, "end", Seen(goal)))
      BY <1>1, <1>3, <2>2, GoalHere
    <3>2. Blamed(goal)' = Blamed(goal)
      BY <1>1 DEF Blamed, history
    <3>3. Seen(goal)' = [Seen(goal) EXCEPT !.noted = noted']
      BY <3>2 DEF Seen
    <3>4. Through(Ends[script][goal], goal, c, item, "end", Seen(goal)) = {<<"end", Seen(goal)'>>}
      <4>1. CASE item.do = "note"
        BY <1>1, <3>3, <4>1 DEF Through, Simple, Compound, Awaited, Seen
      <4>2. CASE item.do = "forget"
        BY <1>1, <3>3, <4>2 DEF Through, Simple, Compound, Awaited, Seen
      <4> QED
        BY <1>1, <4>1, <4>2
    <3> QED
      BY <1>1, <3>1, <3>4 DEF OnTrack
  <2> QED
    BY <2>1, <2>2 DEF OnTrack
<1> QED
  BY <1>1, <1>4, <1>5 DEF RigInv, history

-----------------------------------------------------------------------------
(* The beginning, the end, and every run between them *)

LEMMA RigInit ==
  ASSUME \A n \in DOMAIN Scripts : KeepsPromises(n), Init
  PROVE  RigInv
<1>1. script \in DOMAIN Scripts /\ todo = Scripts[script].body
  BY DEF Init
<1>2. Closed(Blocks[script]) /\ todo \in Blocks[script]
  BY <1>1, BlocksAssumption
<1>3. <<>> \in Stacks(Blocks[script]) /\ todo \in Stacks(Blocks[script]) /\ todo \o <<>> = todo
  BY <1>2, EmptySeq, BlockOnStack, ConcatEmptySeq DEF Stacks
<1>4. RigTypes
  <2>1. disturbed = {} /\ noted = {} /\ lost = {} /\ faults = 0 /\ interrupted = FALSE /\ hurt = FALSE /\ cut = FALSE
    BY DEF Init
  <2>2. faults \in 0..MaxFaults
    BY <2>1, FaultsAssumption
  <2> QED
    BY <1>1, <1>3, <2>1, <2>2 DEF RigTypes
<1>5. ASSUME NEW goal \in Goals(Scripts[script]) PROVE OnTrack(goal)
  <2> DEFINE X == Ends[script][goal][FALSE][todo][Fresh]
  <2>1. Sound(Blocks[script], Ends[script][goal], goal) /\ Seen(goal) \in States(Blocks[script])
    BY <1>4, SoundHere, SeenIsState
  <2>2. Seen(goal) = Fresh
    BY DEF Init, Seen, Blamed, Fresh
  <2>3. \A x \in X : ~x[2].left
    BY <1>1 DEF KeepsPromises, Kept
  <2>4. X \in SUBSET Arrivals(Blocks[script])
    BY <1>2, <2>1, <2>2, EndsArrive
  <2> HIDE DEF X
  <2> DEFINE R == {<<<<>>, x>> : x \in X}
  <2>5. R \in SUBSET Facts(Blocks[script])
    BY <1>3, <2>4 DEF Facts
  <2>6. Settled(Blocks[script], Ends[script][goal], goal, R)
    BY <2>3 DEF Settled
  <2>7. Covered(Blocks[script], Ends[script][goal], goal, <<>>, X)
    BY <2>5, <2>6 DEF Covered
  <2>8. CleaningIn(<<>>) = FALSE
    BY DEF CleaningIn
  <2>9. Covered(Blocks[script], Ends[script][goal], goal, todo \o <<>>, {<<"end", Seen(goal)>>})
    BY <1>2, <1>3, <2>1, <2>2, <2>7, <2>8, Push DEF X
  <2> QED
    BY <1>3, <2>9 DEF OnTrack
<1> QED
  BY <1>4, <1>5 DEF RigInv

LEMMA RigStep ==
  ASSUME \A n \in DOMAIN Scripts : KeepsPromises(n), RigInv, [Next]_vars
  PROVE  RigInv'
<1>1. KeepsPromises(script)
  BY DEF RigInv, RigTypes
<1>2. CASE UNCHANGED vars
  <2>1. UNCHANGED <<script, disturbed, noted, history>> /\ todo' = todo
    BY <1>2 DEF vars
  <2> QED
    BY <2>1, Moved DEF RigInv, RigTypes, OnTrack
<1>3. CASE Enter
  BY <1>3, EnterStep
<1>4. CASE EnterIfNoted
  BY <1>4, EnterIfNotedStep
<1>5. CASE EndBlock
  BY <1>5, EndBlockStep
<1>6. CASE EndCleanup
  BY <1>6, EndCleanupStep
<1>7. CASE RaiseAction
  BY <1>7, RaiseStep
<1>8. CASE Works
  BY <1>1, <1>8, WorksStep
<1>9. CASE Remembers
  BY <1>9, RemembersStep
<1>10. CASE \E kind \in Errors \cup {"interrupt"}, reached \in BOOLEAN : Fails(kind, reached)
  BY <1>1, <1>10, FailsStep
<1> QED
  BY <1>2, <1>3, <1>4, <1>5, <1>6, <1>7, <1>8, <1>9, <1>10 DEF Next

(* At the end of a script nothing is left that it is still held to.            *)
LEMMA NothingLeft ==
  ASSUME RigInv, Done, NEW promise, ~Forgiven(promise)
  PROVE  /\ Left(promise) \subseteq lost
         /\ ~ExcusesLost(promise) => Left(promise) = {}
<1>1. ASSUME NEW s \in Left(promise)
      PROVE  ExcusesLost(promise) /\ s \in lost
  <2> DEFINE goal == [of |-> s, promise |-> promise]
  <2>1. s \in disturbed /\ goal \in Goals(Scripts[script])
    BY <1>1 DEF Left, Goals
  <2>2. Covered(Blocks[script], Ends[script][goal], goal, <<>>, {<<"end", Seen(goal)>>})
    BY <2>1 DEF RigInv, OnTrack, Done
  <2>3. <<>> \in Stacks(Blocks[script]) /\ <<"end", Seen(goal)>> \in Arrivals(Blocks[script])
    BY SeenIsState, EmptySeq DEF RigInv, Stacks, Arrivals
  <2>4. ~Seen(goal).left
    <3>1. PICK R \in SUBSET Facts(Blocks[script]) :
            /\ Settled(Blocks[script], Ends[script][goal], goal, R)
            /\ <<<<>>, <<"end", Seen(goal)>>>> \in R
      BY <2>2 DEF Covered
    <3> HIDE DEF goal
    <3>2. ~(<<"end", Seen(goal)>>[2]).left
      BY <2>3, <3>1 DEF Settled
    <3> QED
      BY <3>2
  <2>5. goal.of = s /\ goal.promise = promise
    OBVIOUS
  <2> QED
    BY <2>1, <2>4, <2>5 DEF Seen, Blamed
<1> QED
  BY <1>1

(* In every run, with any number of failed commands, of any scripts whose       *)
(* analysis keeps their promises, what is left to do leads to an end where     *)
(* each promise is kept or excused.                                           *)
THEOREM ScriptsStayOnTrack ==
  ASSUME \A n \in DOMAIN Scripts : KeepsPromises(n)
  PROVE  Spec => []RigInv
<1>1. Init => RigInv
  BY RigInit
<1>2. RigInv /\ [Next]_vars => RigInv'
  BY RigStep
<1> QED
  BY <1>1, <1>2, PTL DEF Spec

(* The rig's settings and counters keep to their ranges: the scripts touch      *)
(* only settings the panel has.                                               *)
THEOREM RigTypeCorrect ==
  ASSUME \A n \in DOMAIN Scripts : KeepsPromises(n)
  PROVE  Spec => []TypeOK
<1>1. RigInv => TypeOK
  BY DEF RigInv, RigTypes, TypeOK
<1> QED
  BY <1>1, ScriptsStayOnTrack, PTL

(* A probe that restores its settings one by one in a finally leaves only      *)
(* those whose own restore failed, unless a Ctrl-C hit the restoring: whatever *)
(* failed before (probe_p17b_eco_isolation.py:527).                           *)
THEOREM RestoresEachAlone ==
  ASSUME \A n \in DOMAIN Scripts : KeepsPromises(n)
  PROVE  Spec => []EachRestoredAlone
<1>1. RigInv => EachRestoredAlone
  <2> SUFFICES ASSUME RigInv, Done, ~cut PROVE Left("always") \subseteq lost
    BY DEF EachRestoredAlone
  <2>1. ~Forgiven("always")
    BY DEF Forgiven
  <2> QED
    BY <2>1, NothingLeft
<1> QED
  BY <1>1, ScriptsStayOnTrack, PTL

(* A probe that restores its settings in one go in a finally leaves nothing    *)
(* unless something of that cleanup failed (probe_p11_persistence.py:1069).    *)
THEOREM RestoresByCleanup ==
  ASSUME \A n \in DOMAIN Scripts : KeepsPromises(n)
  PROVE  Spec => []RestoredByCleanup
<1>1. RigInv => RestoredByCleanup
  <2> SUFFICES ASSUME RigInv, Done, ~hurt PROVE Left("cleanup") = {}
    BY DEF RestoredByCleanup
  <2>1. ~Forgiven("cleanup") /\ ~ExcusesLost("cleanup")
    BY DEF Forgiven, ExcusesLost
  <2> QED
    BY <2>1, NothingLeft
<1> QED
  BY <1>1, ScriptsStayOnTrack, PTL

(* A probe that catches what each of its cases raises restores at its end      *)
(* whatever failed; only a Ctrl-C keeps it from trying                        *)
(* (probe_p12_mode_state_machine.py:493).                                     *)
THEOREM RestoresDespiteErrors ==
  ASSUME \A n \in DOMAIN Scripts : KeepsPromises(n)
  PROVE  Spec => []ErrorsDoNotStopRestoring
<1>1. RigInv => ErrorsDoNotStopRestoring
  <2> SUFFICES ASSUME RigInv, Done, ~interrupted PROVE Left("errors") \subseteq lost
    BY DEF ErrorsDoNotStopRestoring
  <2>1. ~Forgiven("errors")
    BY DEF Forgiven
  <2> QED
    BY <2>1, NothingLeft
<1> QED
  BY <1>1, ScriptsStayOnTrack, PTL

(* Every other script undoes what it did when nothing goes wrong, along each   *)
(* of its branches and however often its loops go round.                      *)
THEOREM CleanRunsUndoAll ==
  ASSUME \A n \in DOMAIN Scripts : KeepsPromises(n)
  PROVE  Spec => []CleanRunLeavesNothing
<1>1. RigInv => CleanRunLeavesNothing
  <2> SUFFICES ASSUME RigInv, Done, faults = 0 PROVE Left("clean") = {}
    BY DEF CleanRunLeavesNothing
  <2>1. ~Forgiven("clean") /\ ~ExcusesLost("clean")
    BY DEF Forgiven, ExcusesLost
  <2> QED
    BY <2>1, NothingLeft
<1> QED
  BY <1>1, ScriptsStayOnTrack, PTL
=============================================================================
