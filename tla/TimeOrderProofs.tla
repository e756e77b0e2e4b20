-------------------------- MODULE TimeOrderProofs --------------------------
(***************************************************************************)
(* What the operators of TimeOrder keep: times still compare after some    *)
(* are dropped and after others get the present time, and of finitely many *)
(* times one is the latest.                                                *)
(***************************************************************************)
EXTENDS TimeOrder, FiniteSetTheorems, WellFoundedInduction, TLAPS

\* No times compare trivially.
LEMMA EmptyOrder == IsTimeOrder({}) /\ Timed({}) = {}
  BY DEF IsTimeOrder, Timed

\* Times still compare after some are dropped.
LEMMA KeptOrder ==
  ASSUME NEW order, IsTimeOrder(order), NEW kept
  PROVE  /\ IsTimeOrder(Kept(order, kept))
         /\ Timed(Kept(order, kept)) = Timed(order) \cap kept
<1>1. \A a \in Timed(order) : <<a, a>> \in order
  BY DEF IsTimeOrder
<1>2. \A pair \in order : pair = <<pair[1], pair[2]>> /\ pair[1] \in Timed(order)
                            /\ pair[2] \in Timed(order)
  BY DEF IsTimeOrder
<1>3. \A a, b : <<a, b>> \in Kept(order, kept) <=> <<a, b>> \in order /\ a \in kept /\ b \in kept
  BY DEF Kept
<1>4. \A pair \in Kept(order, kept) : pair = <<pair[1], pair[2]>>
  BY DEF Kept
<1>5. Timed(Kept(order, kept)) \subseteq Timed(order) \cap kept
  <2> SUFFICES ASSUME NEW pair \in Kept(order, kept)
               PROVE  pair[1] \in Timed(order) \cap kept
    BY DEF Timed
  <2> QED BY <1>2 DEF Kept
<1>6. Timed(order) \cap kept \subseteq Timed(Kept(order, kept))
  <2> SUFFICES ASSUME NEW a \in Timed(order) \cap kept PROVE a \in Timed(Kept(order, kept))
    OBVIOUS
  <2>1. <<a, a>> \in Kept(order, kept) /\ <<a, a>>[1] = a
    BY <1>1, <1>3
  <2> QED BY <2>1 DEF Timed
<1>7. Timed(Kept(order, kept)) = Timed(order) \cap kept
  BY <1>5, <1>6
<1>8. Kept(order, kept) \subseteq Timed(Kept(order, kept)) \X Timed(Kept(order, kept))
  BY <1>2, <1>7 DEF Kept
<1> HIDE DEF Kept
<1>9. IsTimeOrder(Kept(order, kept))
  BY <1>3, <1>7, <1>8 DEF IsTimeOrder
<1> QED BY <1>7, <1>9

\* The present time is later than all others.
LEMMA StampedOrder ==
  ASSUME NEW order, IsTimeOrder(order), NEW set
  PROVE  /\ IsTimeOrder(Stamped(order, set))
         /\ Timed(Stamped(order, set)) = Timed(order) \cup set
<1> DEFINE rest == Timed(order) \ set
           old == Kept(order, rest)
           new == Stamped(order, set)
           all == Timed(order) \cup set
<1>1. IsTimeOrder(old) /\ Timed(old) = rest
  <2>1. Timed(order) \cap rest = rest
    OBVIOUS
  <2> HIDE DEF rest
  <2> QED BY <2>1, KeptOrder
<1>2. new = old \cup (all \X set)
  BY DEF Stamped
<1> HIDE DEF old, new
<1>3. old \subseteq rest \X rest
  BY <1>1 DEF IsTimeOrder
<1>4. \A a, b : <<a, b>> \in new <=> <<a, b>> \in old \/ (a \in all /\ b \in set)
  BY <1>2
<1>5. \A pair \in new : pair = <<pair[1], pair[2]>> /\ pair[1] \in all /\ pair[2] \in all
  BY <1>2, <1>3
<1>6. Timed(new) = all
  <2>1. Timed(new) \subseteq all
    <3> SUFFICES ASSUME NEW pair \in new PROVE pair[1] \in all
      BY DEF Timed
    <3> QED BY <1>5
  <2>2. ASSUME NEW a \in all PROVE a \in Timed(new)
    <3>1. <<a, a>> \in new
      <4>1. CASE a \in set
        BY <1>4, <4>1
      <4>2. CASE a \in rest
        BY <1>1, <1>4, <4>2 DEF IsTimeOrder
      <4> QED BY <4>1, <4>2
    <3>2. <<a, a>>[1] = a
      OBVIOUS
    <3> QED BY <3>1, <3>2 DEF Timed
  <2> QED BY <2>1, <2>2
<1>7. new \subseteq all \X all
  BY <1>5
<1>8. \A a, b \in all : <<a, b>> \in new \/ <<b, a>> \in new
  BY <1>1, <1>4 DEF IsTimeOrder
<1>9. \A a, b, c \in all : <<a, b>> \in new /\ <<b, c>> \in new => <<a, c>> \in new
  <2> SUFFICES ASSUME NEW a \in all, NEW b \in all, NEW c \in all,
                      <<a, b>> \in new, <<b, c>> \in new
               PROVE  <<a, c>> \in new
    OBVIOUS
  <2>1. CASE c \in set
    BY <1>4, <2>1
  <2>2. CASE c \notin set
    <3>1. <<b, c>> \in old /\ b \in rest /\ c \in rest
      BY <1>3, <1>4, <2>2
    <3>2. <<a, b>> \in old /\ a \in rest
      BY <1>3, <1>4, <3>1
    <3>3. <<a, c>> \in old
      BY <1>1, <3>1, <3>2 DEF IsTimeOrder
    <3> QED BY <1>4, <3>3
  <2> QED BY <2>1, <2>2
<1>10. IsTimeOrder(new)
  BY <1>6, <1>7, <1>8, <1>9 DEF IsTimeOrder
<1> QED BY <1>6, <1>10 DEF new

\* A nonempty set of finite sets has one that includes no other of them.
LEMMA LeastSet ==
  ASSUME NEW S, NEW T \in SUBSET FiniteSubsetsOf(S), T # {}
  PROVE  \E x \in T : \A y \in T : y \subseteq x => y = x
<1> DEFINE R == StrictSubsetOrdering(S)
<1>1. IsWellFoundedOn(R, FiniteSubsetsOf(S))
  BY FS_StrictSubsetOrderingWellFounded
<1>2. R = {ss \in (SUBSET S) \X (SUBSET S) : ss[1] \subseteq ss[2] /\ ss[1] # ss[2]}
  BY DEF StrictSubsetOrdering
<1> HIDE DEF R
<1>3. PICK x \in T : \A y \in T : ~ (<<y, x>> \in R)
  BY <1>1, WFMin
<1>4. \A y \in T : y \in SUBSET S
  BY DEF FiniteSubsetsOf
<1> QED BY <1>2, <1>3, <1>4

\* Of finitely many things that have a time one has the latest.
LEMMA Latest ==
  ASSUME NEW order, IsTimeOrder(order),
         NEW set \in SUBSET Timed(order), IsFiniteSet(set), set # {}
  PROVE  \E last \in set : \A a \in set : <<a, last>> \in order
<1> DEFINE after(a) == {b \in set : <<a, b>> \in order}
           afters   == {after(a) : a \in set}
<1>1. afters \in SUBSET FiniteSubsetsOf(set) /\ afters # {}
  <2>1. \A a \in set : IsFiniteSet(after(a)) /\ after(a) \in SUBSET set
    BY FS_Subset
  <2> QED BY <2>1 DEF FiniteSubsetsOf
<1>2. \E x \in afters : \A y \in afters : y \subseteq x => y = x
  <2> HIDE DEF afters
  <2> QED BY <1>1, LeastSet
<1>3. PICK last \in set : \A a \in set : after(a) \subseteq after(last) => after(a) = after(last)
  <2>1. PICK x \in afters : \A y \in afters : y \subseteq x => y = x
    BY <1>2
  <2>2. PICK last \in set : x = after(last)
    BY <2>1
  <2>3. \A a \in set : after(a) \in afters
    OBVIOUS
  <2> HIDE DEF afters
  <2>4. ASSUME NEW a \in set, after(a) \subseteq after(last) PROVE after(a) = after(last)
    <3> HIDE DEF after
    <3> QED BY <2>1, <2>2, <2>3, <2>4
  <2> QED BY <2>4
<1>4. ASSUME NEW a \in set, <<a, last>> \notin order PROVE FALSE
  <2>1. <<last, a>> \in order /\ <<last, last>> \in order
    BY <1>4 DEF IsTimeOrder
  <2>2. ASSUME NEW b \in set, <<a, b>> \in order PROVE <<last, b>> \in order
    BY <2>1, <2>2 DEF IsTimeOrder
  <2>3. last \in after(last) /\ last \notin after(a)
    BY <1>4, <2>1
  <2>4. after(a) \subseteq after(last)
    BY <2>2
  <2> QED BY <1>3, <2>3, <2>4
<1> QED BY <1>4
=============================================================================
