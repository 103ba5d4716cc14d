------------------------- MODULE ConversationProofs -------------------------
(***************************************************************************)
(* What Conversation keeps for all programs, meanings and limits: its      *)
(* types, and that a result is stored as it was meant.  At the end, what a *)
(* mock that was sent the headers of a program was told by them.           *)
(***************************************************************************)
EXTENDS Conversation, SequenceTheorems, FiniteSetTheorems, WellFoundedInduction, TLAPS

-----------------------------------------------------------------------------
(* Induction and recursive functions on the naturals, for sets.            *)

(* A set with 0 that is closed under successors has every natural number.  *)
LEMMA AllNaturals ==
  ASSUME NEW S, 0 \in S, \A k \in Nat : k \in S => k + 1 \in S
  PROVE  Nat \subseteq S
<1> DEFINE T == Nat \ S
<1> SUFFICES ASSUME T # {} PROVE FALSE
  OBVIOUS
<1>1. PICK x \in T : \A y \in T : ~(<<y, x>> \in OpToRel(<, Nat))
  BY NatLessThanWellFounded, WFMin
<1>2. x # 0 /\ x - 1 \in Nat /\ x - 1 \notin S
  <2>1. x \in Nat /\ x \notin S /\ x # 0
    OBVIOUS
  <2>2. x - 1 \in Nat /\ (x - 1) + 1 = x
    BY <2>1
  <2>3. QED BY <2>1, <2>2
<1>3. <<x - 1, x>> \in OpToRel(<, Nat)
  BY <1>2 DEF OpToRel
<1>4. QED BY <1>1, <1>2, <1>3

(* The first element of a set of natural numbers.                          *)
LEMMA Smallest ==
  ASSUME NEW S \in SUBSET Nat, S # {}
  PROVE  Min(S) \in S /\ \A y \in S : Min(S) <= y
<1>1. PICK x \in S : \A y \in S : ~(<<y, x>> \in OpToRel(<, Nat))
  BY NatLessThanWellFounded, WFMin
<1>2. \A y \in S : x <= y
  <2> SUFFICES ASSUME NEW y \in S, ~(x <= y) PROVE FALSE
    OBVIOUS
  <2>1. <<y, x>> \in OpToRel(<, Nat)
    BY DEF OpToRel
  <2>2. QED BY <1>1, <2>1
<1>3. \E m \in S : \A y \in S : m <= y
  BY <1>2
<1>4. QED BY <1>3 DEF Min

(* What SelectInSeq finds: the first place of a test, or 0.                *)
LEMMA FirstOf ==
  ASSUME NEW k \in Nat, NEW I \in SUBSET (1 .. k), NEW x, x = IF I # {} THEN Min(I) ELSE 0
  PROVE  IF I = {} THEN x = 0 ELSE x \in I /\ \A i \in I : x <= i
<1>1. I \in SUBSET Nat
  OBVIOUS
<1>2. CASE I = {}
  BY <1>2
<1>3. CASE I # {}
  BY <1>1, <1>3, Smallest
<1>4. QED BY <1>2, <1>3

(* A function on 0 .. k whose values are made one of the other.            *)
IsFold(f, k, b, step) ==
  f[0] = b /\ \A i \in 1 .. k : f[i] = step[<<f[i - 1], i>>]

LEMMA FoldExists ==
  ASSUME NEW V, NEW b \in V, NEW m \in Nat, NEW step \in [V \X (1 .. m) -> V]
  PROVE  \E f \in [0 .. m -> V] : IsFold(f, m, b, step)
<1> DEFINE S == {k \in Nat : k <= m => \E f \in [0 .. k -> V] : IsFold(f, k, b, step)}
<1>1. 0 \in S
  <2>1. [i \in 0 .. 0 |-> b] \in [0 .. 0 -> V] /\ IsFold([i \in 0 .. 0 |-> b], 0, b, step)
    BY DEF IsFold
  <2>2. QED BY <2>1
<1>2. ASSUME NEW k \in Nat, k \in S PROVE k + 1 \in S
  <2> SUFFICES ASSUME k + 1 <= m
               PROVE  \E f \in [0 .. k + 1 -> V] : IsFold(f, k + 1, b, step)
    OBVIOUS
  <2>1. PICK f \in [0 .. k -> V] : IsFold(f, k, b, step)
    BY <1>2
  <2> DEFINE g == [i \in 0 .. k + 1 |-> IF i = k + 1 THEN step[<<f[k], k + 1>>] ELSE f[i]]
  <2>2. step[<<f[k], k + 1>>] \in V
    OBVIOUS
  <2>3. g \in [0 .. k + 1 -> V]
    BY <2>2
  <2>4. IsFold(g, k + 1, b, step)
    <3>1. g[0] = b
      BY <2>1 DEF IsFold
    <3>2. ASSUME NEW i \in 1 .. k + 1 PROVE g[i] = step[<<g[i - 1], i>>]
      <4>1. i - 1 \in 0 .. k /\ g[i - 1] = f[i - 1]
        OBVIOUS
      <4>2. CASE i = k + 1
        <5>1. g[i] = step[<<f[k], i>>] /\ i - 1 = k
          BY <4>2
        <5>2. QED BY <4>1, <5>1
      <4>3. CASE i # k + 1
        <5>1. i \in 1 .. k /\ g[i] = f[i]
          BY <4>3
        <5>2. f[i] = step[<<f[i - 1], i>>]
          BY <2>1, <5>1 DEF IsFold
        <5>3. QED BY <4>1, <5>1, <5>2
      <4>4. QED BY <4>2, <4>3
    <3>3. QED BY <3>1, <3>2 DEF IsFold
  <2>5. QED
    <3> HIDE DEF g
    <3>1. QED BY <2>3, <2>4
<1>3. m \in S
  <2> HIDE DEF S
  <2>1. QED BY <1>1, <1>2, AllNaturals
<1>4. QED BY <1>3

(* Two such functions, the second with a prefix before it, agree.          *)
LEMMA FoldUnique ==
  ASSUME NEW m \in Nat, NEW f, NEW g, NEW b, NEW step,
         IsFold(f, m, b, step), IsFold(g, m, b, step)
  PROVE  \A i \in 0 .. m : f[i] = g[i]
<1> DEFINE S == {k \in Nat : k <= m => f[k] = g[k]}
<1>1. 0 \in S
  BY DEF IsFold
<1>2. ASSUME NEW k \in Nat, k \in S PROVE k + 1 \in S
  <2> SUFFICES ASSUME k + 1 <= m PROVE f[k + 1] = g[k + 1]
    OBVIOUS
  <2>1. k + 1 \in 1 .. m /\ (k + 1) - 1 = k /\ f[k] = g[k]
    BY <1>2
  <2>2. f[k + 1] = step[<<f[k], k + 1>>] /\ g[k + 1] = step[<<g[k], k + 1>>]
    BY <2>1 DEF IsFold
  <2>3. QED BY <2>1, <2>2
<1>3. Nat \subseteq S
  <2> HIDE DEF S
  <2>1. QED BY <1>1, <1>2, AllNaturals
<1>4. QED BY <1>3

-----------------------------------------------------------------------------
(* The statuses of the final results of a sequence of messages.            *)

(* A sequence of messages as servers send them.                            *)
Meant(s) == \A i \in 1 .. Len(s) : s[i].means \in MeaningType
Messages(s) == s \in Seq(Range(s)) /\ Meant(s)

LEMMA StatusesOf ==
  ASSUME NEW s, Meant(s)
  PROVE  \A i \in 1 .. Len(s) : s[i].means.status \in Statuses
BY DEF Meant, MeaningType

StatusStep(s) ==
  [p \in Seq(Statuses) \X (1 .. Len(s)) |->
     IF s[p[2]].means.final THEN Append(p[1], s[p[2]].means.status) ELSE p[1]]

LEMMA FinalsFold ==
  ASSUME NEW s, Len(s) \in Nat, Meant(s)
  PROVE  \E f \in [0 .. Len(s) -> Seq(Statuses)] :
           IsFold(f, Len(s), <<>>, StatusStep(s)) /\ Finals(s) = f[Len(s)]
<1> DEFINE F(f) == [i \in 0 .. Len(s) |->
                      IF i = 0 THEN <<>>
                      ELSE IF s[i].means.final
                      THEN Append(f[i - 1], s[i].means.status) ELSE f[i - 1]]
<1>1. StatusStep(s) \in [Seq(Statuses) \X (1 .. Len(s)) -> Seq(Statuses)]
  <2>1. \A i \in 1 .. Len(s) : s[i].means.status \in Statuses
    BY StatusesOf
  <2>2. ASSUME NEW u \in Seq(Statuses), NEW i \in 1 .. Len(s)
        PROVE  (IF s[i].means.final THEN Append(u, s[i].means.status) ELSE u) \in Seq(Statuses)
    <3>1. Append(u, s[i].means.status) \in Seq(Statuses)
      BY <2>1, AppendProperties
    <3>2. QED BY <3>1, Zenon
  <2>3. ASSUME NEW p \in Seq(Statuses) \X (1 .. Len(s))
        PROVE  (IF s[p[2]].means.final THEN Append(p[1], s[p[2]].means.status) ELSE p[1])
                  \in Seq(Statuses)
    <3>1. PICK u \in Seq(Statuses), i \in 1 .. Len(s) : p[1] = u /\ p[2] = i
      OBVIOUS
    <3>2. (IF s[i].means.final THEN Append(u, s[i].means.status) ELSE u) \in Seq(Statuses)
      BY <2>2
    <3>3. QED BY <3>1, <3>2, Zenon
  <2>4. QED BY <2>3 DEF StatusStep
<1>2. PICK f \in [0 .. Len(s) -> Seq(Statuses)] : IsFold(f, Len(s), <<>>, StatusStep(s))
  <2>1. <<>> \in Seq(Statuses) /\ Len(s) \in Nat
    OBVIOUS
  <2>2. QED BY <1>1, <2>1, FoldExists, Zenon
<1>3. f = F(f)
  <2>1. ASSUME NEW i \in 1 .. Len(s) PROVE f[i] = F(f)[i]
    <3>1. i - 1 \in 0 .. Len(s) /\ i \in 0 .. Len(s) /\ i # 0 /\ f[i - 1] \in Seq(Statuses)
      <4>1. i - 1 \in 0 .. Len(s) /\ i \in 0 .. Len(s) /\ i # 0
        OBVIOUS
      <4>2. QED BY <4>1
    <3>2. f[i] = StatusStep(s)[<<f[i - 1], i>>]
      BY <1>2 DEF IsFold
    <3>3. <<f[i - 1], i>> \in Seq(Statuses) \X (1 .. Len(s))
      BY <3>1
    <3>4. f[i] = IF s[i].means.final THEN Append(f[i - 1], s[i].means.status) ELSE f[i - 1]
      BY <3>2, <3>3 DEF StatusStep
    <3>5. QED BY <3>1, <3>4
  <2>2. f[0] = F(f)[0]
    <3>1. f[0] = <<>> /\ 0 \in 0 .. Len(s)
      BY <1>2 DEF IsFold
    <3>2. QED BY <3>1
  <2>3. \A i \in 0 .. Len(s) : f[i] = F(f)[i]
    <3>1. \A i \in 0 .. Len(s) : i = 0 \/ i \in 1 .. Len(s)
      OBVIOUS
    <3> HIDE DEF F
    <3>2. QED BY <2>1, <2>2, <3>1, Zenon
  <2>4. DOMAIN f = 0 .. Len(s) /\ f = [i \in DOMAIN f |-> f[i]]
    OBVIOUS
  <2>5. DOMAIN F(f) = 0 .. Len(s) /\ F(f) = [i \in DOMAIN F(f) |-> F(f)[i]]
    OBVIOUS
  <2> HIDE DEF F
  <2>6. QED BY <2>3, <2>4, <2>5
<1>4. PICK g : g = F(g) /\ Finals(s) = g[Len(s)]
  BY <1>3 DEF Finals
<1>5. g[Len(s)] = f[Len(s)]
  <2> DEFINE S == {k \in Nat : k <= Len(s) => g[k] = f[k]}
  <2>1. 0 \in S
    BY <1>3, <1>4
  <2>2. ASSUME NEW k \in Nat, k \in S PROVE k + 1 \in S
    <3> SUFFICES ASSUME k + 1 <= Len(s) PROVE g[k + 1] = f[k + 1]
      OBVIOUS
    <3>1. k + 1 \in 0 .. Len(s) /\ k + 1 # 0 /\ (k + 1) - 1 = k /\ g[k] = f[k]
      BY <2>2
    <3>2. F(g)[k + 1] = F(f)[k + 1]
      BY <3>1
    <3>3. QED BY <1>3, <1>4, <3>2
  <2>3. Nat \subseteq S
    <3> HIDE DEF S
    <3>1. QED BY <2>1, <2>2, AllNaturals
  <2>4. QED BY <2>3
<1>6. QED BY <1>2, <1>4, <1>5

(* One step of the fold, in the words of the messages.                     *)
LEMMA FinalsStep ==
  ASSUME NEW s, Len(s) \in Nat, Meant(s), NEW f \in [0 .. Len(s) -> Seq(Statuses)],
         IsFold(f, Len(s), <<>>, StatusStep(s)), NEW i \in 1 .. Len(s)
  PROVE  f[i] = f[i - 1] \o (IF s[i].means.final THEN <<s[i].means.status>> ELSE <<>>)
<1>1. f[i - 1] \in Seq(Statuses) /\ <<f[i - 1], i>> \in Seq(Statuses) \X (1 .. Len(s))
  <2>1. i - 1 \in 0 .. Len(s)
    OBVIOUS
  <2>2. f[i - 1] \in Seq(Statuses)
    BY <2>1
  <2>3. QED BY <2>2
<1>2. f[i] = StatusStep(s)[<<f[i - 1], i>>]
  BY DEF IsFold
<1>3. f[i] = IF s[i].means.final THEN Append(f[i - 1], s[i].means.status) ELSE f[i - 1]
  BY <1>1, <1>2 DEF StatusStep
<1>4. s[i].means.status \in Statuses
  BY StatusesOf
<1>5. CASE s[i].means.final
  BY <1>1, <1>3, <1>4, <1>5, AppendIsConcat
<1>6. CASE ~s[i].means.final
  BY <1>1, <1>3, <1>6, ConcatEmptySeq
<1>7. QED BY <1>5, <1>6

LEMMA FinalsType == ASSUME NEW s, Len(s) \in Nat, Meant(s) PROVE Finals(s) \in Seq(Statuses)
<1>1. Len(s) \in 0 .. Len(s)
  OBVIOUS
<1>2. QED BY <1>1, FinalsFold

LEMMA FinalsEmpty == Finals(<<>>) = <<>>
<1>1. PICK f \in [0 .. 0 -> Seq(Statuses)] :
        IsFold(f, 0, <<>>, StatusStep(<<>>)) /\ Finals(<<>>) = f[0]
  <2>1. Meant(<<>>) /\ Len(<<>>) = 0
    BY DEF Meant
  <2>2. QED BY <2>1, FinalsFold
<1>2. QED BY <1>1 DEF IsFold

(* A message more.                                                         *)
LEMMA FinalsOfOne ==
  ASSUME NEW m, m.means \in MeaningType
  PROVE  Finals(<<m>>) = IF m.means.final THEN <<m.means.status>> ELSE <<>>
<1>1. Meant(<<m>>) /\ Len(<<m>>) = 1 /\ <<m>>[1] = m /\ 1 \in 1 .. 1
  BY DEF Meant
<1>2. PICK f \in [0 .. 1 -> Seq(Statuses)] :
        IsFold(f, 1, <<>>, StatusStep(<<m>>)) /\ Finals(<<m>>) = f[1]
  BY <1>1, FinalsFold
<1>3. f[1] = f[0] \o (IF m.means.final THEN <<m.means.status>> ELSE <<>>)
  <2>1. f[1] = f[1 - 1] \o (IF m.means.final THEN <<m.means.status>> ELSE <<>>)
    BY <1>1, <1>2, FinalsStep
  <2>2. QED BY <2>1
<1>4. f[0] = <<>> /\ m.means.status \in Statuses
  BY <1>2 DEF IsFold, MeaningType
<1>5. QED
  <2>1. CASE m.means.final
    BY <1>2, <1>3, <1>4, <2>1
  <2>2. CASE ~m.means.final
    BY <1>2, <1>3, <1>4, <2>2
  <2>3. QED BY <2>1, <2>2

LEMMA Associates ==
  \A s, t, u \in Seq(Statuses) : (s \o t) \o u = s \o (t \o u)
BY ConcatAssociative

(* The statuses of two sequences, one after the other.                     *)
LEMMA FinalsConcat ==
  ASSUME NEW s, NEW t, Messages(s), Messages(t)
  PROVE  Messages(s \o t) /\ Finals(s \o t) = Finals(s) \o Finals(t)
<1> DEFINE st == s \o t
<1>0. s \in Seq(Range(s) \cup Range(t)) /\ t \in Seq(Range(s) \cup Range(t))
  BY SeqMonotonic DEF Messages
<1>1. /\ st \in Seq(Range(s) \cup Range(t)) /\ Len(st) = Len(s) + Len(t)
      /\ Len(s) \in Nat /\ Len(t) \in Nat /\ Len(st) \in Nat
      /\ \A i \in 1 .. Len(s) : st[i] = s[i]
      /\ \A i \in 1 .. Len(t) : st[Len(s) + i] = t[i]
  <2>1. \A i \in 1 .. Len(t) : /\ ~(Len(s) + i <= Len(s)) /\ (Len(s) + i) - Len(s) = i
                               /\ Len(s) + i \in 1 .. Len(s) + Len(t)
    BY <1>0
  <2>2. QED BY <1>0, <2>1, ConcatProperties
<1> HIDE DEF st
<1>m. Meant(s) /\ Meant(t) /\ Meant(st) /\ Messages(st)
  <2>1. Meant(s) /\ Meant(t)
    BY DEF Messages
  <2>2. ASSUME NEW i \in 1 .. Len(st) PROVE st[i].means \in MeaningType
    <3>1. CASE i \in 1 .. Len(s)
      BY <1>1, <2>1, <3>1 DEF Meant
    <3>2. CASE i \notin 1 .. Len(s)
      <4>1. i - Len(s) \in 1 .. Len(t) /\ Len(s) + (i - Len(s)) = i
        BY <1>1, <3>2
      <4>2. QED BY <1>1, <2>1, <4>1 DEF Meant
    <3>3. QED BY <3>1, <3>2
  <2>3. st \in Seq(Range(st))
    BY <1>1, SeqOfRange
  <2>4. QED BY <2>1, <2>2, <2>3 DEF Meant, Messages
<1>2. PICK f \in [0 .. Len(s) -> Seq(Statuses)] :
        IsFold(f, Len(s), <<>>, StatusStep(s)) /\ Finals(s) = f[Len(s)]
  BY <1>1, <1>m, FinalsFold
<1>3. PICK g \in [0 .. Len(t) -> Seq(Statuses)] :
        IsFold(g, Len(t), <<>>, StatusStep(t)) /\ Finals(t) = g[Len(t)]
  BY <1>1, <1>m, FinalsFold
<1>4. PICK h \in [0 .. Len(st) -> Seq(Statuses)] :
        IsFold(h, Len(st), <<>>, StatusStep(st)) /\ Finals(st) = h[Len(st)]
  BY <1>1, <1>m, FinalsFold
<1> DEFINE said(m) == IF m.means.final THEN <<m.means.status>> ELSE <<>>
<1>5. /\ \A i \in 1 .. Len(s) : f[i] = f[i - 1] \o said(s[i])
      /\ \A i \in 1 .. Len(t) : g[i] = g[i - 1] \o said(t[i])
      /\ \A i \in 1 .. Len(st) : h[i] = h[i - 1] \o said(st[i])
      /\ f[0] = <<>> /\ g[0] = <<>> /\ h[0] = <<>>
  <2>1. \A i \in 1 .. Len(s) : f[i] = f[i - 1] \o said(s[i])
    BY <1>1, <1>m, <1>2, FinalsStep
  <2>2. \A i \in 1 .. Len(t) : g[i] = g[i - 1] \o said(t[i])
    BY <1>1, <1>m, <1>3, FinalsStep
  <2>3. \A i \in 1 .. Len(st) : h[i] = h[i - 1] \o said(st[i])
    BY <1>1, <1>m, <1>4, FinalsStep
  <2>4. f[0] = <<>> /\ g[0] = <<>> /\ h[0] = <<>>
    BY <1>2, <1>3, <1>4 DEF IsFold
  <2>5. QED BY <2>1, <2>2, <2>3, <2>4
<1>6. \A i \in 1 .. Len(t) : said(t[i]) \in Seq(Statuses)
  <2>1. \A i \in 1 .. Len(t) : t[i].means.status \in Statuses
    BY <1>m, StatusesOf
  <2>2. ASSUME NEW i \in 1 .. Len(t) PROVE said(t[i]) \in Seq(Statuses)
    <3>1. <<>> \in Seq(Statuses) /\ <<t[i].means.status>> \in Seq(Statuses)
      BY <2>1
    <3>2. QED BY <3>1, Zenon
  <2>3. QED BY <2>2, Zenon
<1> HIDE DEF said
<1>7. h[Len(s)] = f[Len(s)]
  <2> DEFINE S == {k \in Nat : k <= Len(s) => h[k] = f[k]}
  <2>1. 0 \in S
    BY <1>5
  <2>2. ASSUME NEW k \in Nat, k \in S PROVE k + 1 \in S
    <3> SUFFICES ASSUME k + 1 <= Len(s) PROVE h[k + 1] = f[k + 1]
      OBVIOUS
    <3>0. h[k] = f[k]
      <4>1. Len(s) \in Nat
        BY <1>1
      <4>2. QED BY <2>2, <4>1
    <3>1. /\ k + 1 \in 1 .. Len(s) /\ k + 1 \in 1 .. Len(st)
          /\ (k + 1) - 1 = k /\ h[k] = f[k]
      <4>1. Len(s) \in Nat /\ Len(st) \in Nat /\ Len(s) <= Len(st)
        BY <1>1
      <4>2. QED BY <3>0, <4>1
    <3>2. h[k + 1] = h[k] \o said(st[k + 1]) /\ f[k + 1] = f[k] \o said(s[k + 1])
      BY <1>5, <3>1
    <3>3. QED BY <1>1, <3>1, <3>2
  <2>3. Nat \subseteq S
    <3> HIDE DEF S
    <3>1. QED BY <2>1, <2>2, AllNaturals
  <2>4. Len(s) \in S /\ Len(s) <= Len(s)
    <3> HIDE DEF S
    <3>1. QED BY <1>1, <2>3
  <2>5. QED BY <2>4, Zenon
<1>8. h[Len(st)] = f[Len(s)] \o g[Len(t)]
  <2> DEFINE S == {k \in Nat : k <= Len(t) => h[Len(s) + k] = f[Len(s)] \o g[k]}
  <2>1. 0 \in S
    <3>1. Len(s) \in 0 .. Len(s)
      BY <1>1
    <3>2. f[Len(s)] \in Seq(Statuses)
      BY <3>1
    <3>3. f[Len(s)] \o g[0] = f[Len(s)] /\ Len(s) + 0 = Len(s)
      BY <1>1, <1>5, <3>2
    <3>4. QED BY <1>7, <3>3
  <2>2. ASSUME NEW k \in Nat, k \in S PROVE k + 1 \in S
    <3> HIDE DEF S
    <3> SUFFICES ASSUME k + 1 <= Len(t)
                 PROVE  h[Len(s) + (k + 1)] = f[Len(s)] \o g[k + 1]
      <4>1. k + 1 \in Nat
        OBVIOUS
      <4>2. QED BY <4>1, Zenon DEF S
    <3>1. /\ k + 1 \in 1 .. Len(t) /\ Len(s) + (k + 1) \in 1 .. Len(st)
          /\ (k + 1) - 1 = k /\ (Len(s) + (k + 1)) - 1 = Len(s) + k
          /\ k \in 0 .. Len(t) /\ Len(s) \in 0 .. Len(s)
      BY <1>1
    <3>2. h[Len(s) + k] = f[Len(s)] \o g[k]
      BY <2>2, <3>1 DEF S
    <3>3. /\ h[Len(s) + (k + 1)] = h[Len(s) + k] \o said(t[k + 1])
          /\ g[k + 1] = g[k] \o said(t[k + 1])
      BY <1>1, <1>5, <3>1
    <3>4. /\ f[Len(s)] \in Seq(Statuses) /\ g[k] \in Seq(Statuses)
          /\ said(t[k + 1]) \in Seq(Statuses)
      BY <1>6, <3>1
    <3>5. (f[Len(s)] \o g[k]) \o said(t[k + 1]) = f[Len(s)] \o (g[k] \o said(t[k + 1]))
      BY <3>4, Associates, Zenon
    <3>6. QED BY <3>2, <3>3, <3>5, Zenon
  <2>3. Nat \subseteq S
    <3> HIDE DEF S
    <3>1. QED BY <2>1, <2>2, AllNaturals
  <2>4. Len(t) \in S
    BY <1>1, <2>3
  <2>5. h[Len(s) + Len(t)] = f[Len(s)] \o g[Len(t)]
    <3>1. Len(t) <= Len(t)
      BY <1>1
    <3>2. QED BY <2>4, <3>1, Zenon
  <2>6. QED BY <1>1, <2>5
<1>9. QED BY <1>m, <1>2, <1>3, <1>4, <1>7, <1>8 DEF st

(* The first message and the rest.                                         *)
LEMMA FinalsHead ==
  ASSUME NEW s, Messages(s), s # <<>>
  PROVE  /\ Head(s).means \in MeaningType /\ Messages(Tail(s))
         /\ Finals(s) = (IF Head(s).means.final THEN <<Head(s).means.status>> ELSE <<>>)
                          \o Finals(Tail(s))
<1>1. /\ s \in Seq(Range(s)) /\ Tail(s) \in Seq(Range(s)) /\ s = <<Head(s)>> \o Tail(s)
      /\ Len(Tail(s)) = Len(s) - 1 /\ Head(s) = s[1] /\ 1 \in 1 .. Len(s)
      /\ \A i \in 1 .. Len(Tail(s)) : Tail(s)[i] = s[i + 1]
  BY HeadTailProperties DEF Messages
<1>2. Head(s).means \in MeaningType
  BY <1>1 DEF Messages, Meant
<1>3. Messages(Tail(s))
  <2>1. Tail(s) \in Seq(Range(Tail(s)))
    BY <1>1, SeqOfRange
  <2>2. ASSUME NEW i \in 1 .. Len(Tail(s)) PROVE Tail(s)[i].means \in MeaningType
    <3>1. i + 1 \in 1 .. Len(s)
      BY <1>1
    <3>2. QED BY <1>1, <3>1 DEF Messages, Meant
  <2>3. QED BY <2>1, <2>2 DEF Messages, Meant
<1>4. Messages(<<Head(s)>>)
  <2>1. <<Head(s)>> \in Seq({Head(s)}) /\ Len(<<Head(s)>>) = 1 /\ <<Head(s)>>[1] = Head(s)
    OBVIOUS
  <2>2. <<Head(s)>> \in Seq(Range(<<Head(s)>>))
    BY <2>1, SeqOfRange
  <2>3. \A i \in 1 .. 1 : i = 1
    OBVIOUS
  <2>4. QED BY <1>2, <2>1, <2>2, <2>3 DEF Messages, Meant
<1>5. Finals(s) = Finals(<<Head(s)>>) \o Finals(Tail(s))
  <2>1. Finals(<<Head(s)>> \o Tail(s)) = Finals(<<Head(s)>>) \o Finals(Tail(s))
    BY <1>3, <1>4, FinalsConcat
  <2>2. QED BY <1>1, <2>1
<1>6. QED BY <1>2, <1>3, <1>5, FinalsOfOne

-----------------------------------------------------------------------------
(* What is read of a text.                                                 *)

LEMMA FirstPiece ==
  ASSUME NEW V, NEW text \in Seq(V)
  PROVE  IF \A i \in 1 .. Len(text) : text[i] = Space THEN First(text) = 0
         ELSE /\ First(text) \in 1 .. Len(text) /\ text[First(text)] # Space
              /\ \A i \in 1 .. Len(text) : text[i] # Space => First(text) <= i
<1> DEFINE I == {i \in 1 .. Len(text) : text[i] # Space}
<1>1. First(text) = IF I # {} THEN Min(I) ELSE 0
  BY DEF First, SelectInSeq
<1>2. I \in SUBSET (1 .. Len(text)) /\ Len(text) \in Nat
  OBVIOUS
<1>3. IF I = {} THEN First(text) = 0
      ELSE First(text) \in I /\ \A i \in I : First(text) <= i
  <2> HIDE DEF I
  <2>1. QED BY <1>1, <1>2, FirstOf
<1>4. QED BY <1>3

LEMMA FirstBad ==
  ASSUME NEW V, NEW text \in Seq(V)
  PROVE  IF \A i \in 1 .. Len(text) : text[i] # Illegal THEN Bad(text) = 0
         ELSE Bad(text) \in 1 .. Len(text)
<1> DEFINE I == {i \in 1 .. Len(text) : text[i] = Illegal}
<1>1. Bad(text) = IF I # {} THEN Min(I) ELSE 0
  BY DEF Bad, SelectInSeq
<1>2. I \in SUBSET (1 .. Len(text)) /\ Len(text) \in Nat
  OBVIOUS
<1>3. IF I = {} THEN Bad(text) = 0 ELSE Bad(text) \in I
  <2> HIDE DEF I
  <2>1. QED BY <1>1, <1>2, FirstOf
<1>4. QED BY <1>3

(* A word after a space, and a word alone, is read as it was written.      *)
IsWord(w) == w # Space /\ w # Illegal /\ w # "ASR"
Legal(text) == Bad(text) = 0 /\ ~Refused(text)

LEMMA OnePiece ==
  ASSUME NEW text, NEW i \in Nat
  PROVE  SubSeq(text, i, i) = <<text[i]>>
<1>1. /\ SubSeq(text, i, i) \in Seq({text[i]}) /\ Len(SubSeq(text, i, i)) = 1
      /\ SubSeq(text, i, i)[1] = text[i]
  <2>1. \A j \in i .. i : text[j] \in {text[i]}
    OBVIOUS
  <2>2. i \in Int /\ i - i + 1 = 1 /\ i <= i /\ i + 1 - 1 = i /\ 1 \in 1 .. 1
    OBVIOUS
  <2>3. QED BY <2>1, <2>2, SubSeqProperties
<1>2. <<text[i]>> \in Seq({text[i]}) /\ Len(<<text[i]>>) = 1 /\ <<text[i]>>[1] = text[i]
  OBVIOUS
<1>3. \A j \in 1 .. 1 : j = 1
  OBVIOUS
<1>4. QED BY <1>1, <1>2, <1>3, SeqEqual

LEMMA WordAfterSpace ==
  ASSUME NEW w, IsWord(w)
  PROVE  Legal(<<Space, w>>) /\ Token(<<Space, w>>) = <<w>>
<1> DEFINE text == <<Space, w>>
<1>w. w # Space /\ w # Illegal /\ w # "ASR"
  BY DEF IsWord
<1>s. Space # Illegal
  BY DEF Space, Illegal
<1>1. text \in Seq({Space, w}) /\ Len(text) = 2 /\ text[1] = Space /\ text[2] = w
  BY <1>w, <1>s
<1>2. SubSeq(text, 2, 2) = <<w>>
  BY <1>w, <1>1, OnePiece
<1> HIDE DEF text
<1>3. \A i \in 1 .. 2 : i = 1 \/ i = 2
  OBVIOUS
<1>4. Bad(text) = 0
  BY <1>w, <1>s, <1>1, <1>3, FirstBad
<1>5. First(text) = 2
  BY <1>w, <1>1, <1>3, FirstPiece
<1>6. Token(text) = <<w>>
  BY <1>1, <1>2, <1>4, <1>5 DEF Token
<1>7. <<w>> # <<"ASR">>
  BY <1>w
<1>8. QED BY <1>4, <1>6, <1>7 DEF Legal, Refused, text

LEMMA WordAlone ==
  ASSUME NEW w, IsWord(w)
  PROVE  Legal(<<w>>) /\ Token(<<w>>) = <<w>>
<1> DEFINE text == <<w>>
<1>w. w # Space /\ w # Illegal /\ w # "ASR"
  BY DEF IsWord
<1>1. text \in Seq({Space, w}) /\ Len(text) = 1 /\ text[1] = w
  BY <1>w
<1>2. SubSeq(text, 1, 1) = <<w>>
  BY <1>w, <1>1, OnePiece
<1>8. <<w>> # <<"ASR">>
  BY <1>w
<1> HIDE DEF text
<1>3. \A i \in 1 .. 1 : i = 1
  OBVIOUS
<1>4. Bad(text) = 0
  BY <1>w, <1>1, <1>3, FirstBad
<1>5. First(text) = 1
  BY <1>w, <1>1, <1>3, FirstPiece
<1>6. Token(text) = <<w>>
  BY <1>1, <1>2, <1>4, <1>5 DEF Token
<1>7. QED BY <1>8, <1>4, <1>6 DEF Legal, Refused, text

-----------------------------------------------------------------------------
(* What is read of a message whose headers are legal.                      *)

LEMMA AllRead ==
  ASSUME NEW V, NEW headers \in Seq(V), \A i \in 1 .. Len(headers) : Legal(headers[i].value)
  PROVE  HeadersRead(headers) = headers
<1> DEFINE I == {i \in 1 .. Len(headers) :
                   Refused(headers[i].value) \/ Bad(headers[i].value) # 0}
<1>1. I = {}
  BY DEF Legal
<1>2. SelectInSeq(headers, LAMBDA h : Refused(h.value) \/ Bad(h.value) # 0) = 0
  BY <1>1 DEF SelectInSeq
<1>3. QED BY <1>2 DEF HeadersRead

LEMMA FirstOfKey ==
  ASSUME NEW V, NEW headers \in Seq(V), NEW k \in 1 .. Len(headers),
         \A i \in 1 .. k - 1 : headers[i].key # headers[k].key
  PROVE  /\ headers[k].key \in DOMAIN Inserted(headers)
         /\ Inserted(headers)[headers[k].key] = Token(headers[k].value)
<1> DEFINE key == headers[k].key
           I == {i \in 1 .. Len(headers) : headers[i].key = key}
           first == SelectInSeq(headers, LAMBDA h : h.key = key)
<1>1. Len(headers) \in Nat /\ I \in SUBSET (1 .. Len(headers)) /\ k \in I /\ DOMAIN headers = 1 .. Len(headers)
  OBVIOUS
<1>2. first = IF I # {} THEN Min(I) ELSE 0
  BY DEF SelectInSeq
<1>3. first \in I /\ first <= k
  <2> HIDE DEF I, first
  <2>1. QED BY <1>1, <1>2, FirstOf
<1>4. first = k
  <2> HIDE DEF first
  <2>1. QED BY <1>1, <1>3
<1>5. key \in {headers[i].key : i \in DOMAIN headers}
  BY <1>1
<1>6. Inserted(headers)[key] = Token(headers[first].value)
  BY <1>5 DEF Inserted
<1>7. DOMAIN Inserted(headers) = {headers[i].key : i \in DOMAIN headers}
  BY DEF Inserted
<1>8. QED
  <2> HIDE DEF first, key
  <2>1. QED BY <1>4, <1>5, <1>6, <1>7 DEF key

(* The headers of a message are read by their key, and so is its body.     *)
LEMMA LegalParse ==
  ASSUME NEW V, NEW headers \in Seq(V), NEW cmd, NEW body,
         \A i \in 1 .. Len(headers) : Legal(headers[i].value)
  PROVE  LET heard == Parse(Message(cmd, headers, body))
         IN /\ heard.cmd = cmd /\ heard.headers = Inserted(headers)
            /\ (\E i \in 1 .. Len(headers) : headers[i].key = "Content-Length") =>
                 heard.body = body
            /\ (\A i \in 1 .. Len(headers) : headers[i].key # "Content-Length") =>
                 heard.body = NoBody
<1> DEFINE heard == Parse(Message(cmd, headers, body))
<1>1. /\ heard.cmd = cmd /\ heard.headers = Inserted(headers)
      /\ heard.body = IF "Content-Length" \in DOMAIN Inserted(headers) THEN body ELSE NoBody
  BY AllRead DEF Parse, Message
<1>2. DOMAIN Inserted(headers) = {headers[i].key : i \in 1 .. Len(headers)}
  BY DEF Inserted
<1>3. QED BY <1>1, <1>2

LEMMA KeyRead ==
  ASSUME NEW V, NEW headers \in Seq(V), NEW heard, heard.headers = Inserted(headers),
         NEW k \in 1 .. Len(headers),
         \A i \in 1 .. k - 1 : headers[i].key # headers[k].key
  PROVE  Get(heard, headers[k].key) = Token(headers[k].value)
<1>1. /\ headers[k].key \in DOMAIN Inserted(headers)
      /\ Inserted(headers)[headers[k].key] = Token(headers[k].value)
  BY FirstOfKey
<1>2. QED BY <1>1 DEF Get

(* A result as servers write it.                                           *)
ReadAs(text, status, session, body) ==
  LET heard == Parse(text)
  IN /\ heard.cmd = "RECOGNITION_RESULT" /\ heard.body = body
     /\ StatusOf(heard) = status
     /\ Get(heard, "Session-Status") = <<session>>

LEMMA ResultRead ==
  ASSUME NEW status, NEW session, NEW body, IsWord(status), IsWord(session),
         body = NoBody \/ body.json = TRUE
  PROVE  ReadAs(ResultText(status, session, body), status, session, body)
<1> DEFINE handle == Header("Handle", <<Space, "handle">>)
           result == Header("Result-Status", <<Space, status>>)
           sess == Header("Session-Status", <<Space, session>>)
           length == Header("Content-Length", <<Space, "size">>)
           type == Header("Content-Type", <<Space, "application/json">>)
           short == <<handle, result, sess>>
           long == short \o <<length, type>>
           V == {handle, result, sess, length, type}
<1>1. /\ handle.key = "Handle" /\ handle.value = <<Space, "handle">>
      /\ result.key = "Result-Status" /\ result.value = <<Space, status>>
      /\ sess.key = "Session-Status" /\ sess.value = <<Space, session>>
      /\ length.key = "Content-Length" /\ length.value = <<Space, "size">>
      /\ type.key = "Content-Type" /\ type.value = <<Space, "application/json">>
  BY DEF Header
<1>2. IsWord("handle") /\ IsWord("size") /\ IsWord("application/json")
  BY DEF IsWord, Space, Illegal
<1>3. /\ Legal(handle.value) /\ Legal(result.value) /\ Legal(sess.value)
      /\ Legal(length.value) /\ Legal(type.value)
      /\ Token(result.value) = <<status>> /\ Token(sess.value) = <<session>>
  BY <1>1, <1>2, WordAfterSpace
<1> HIDE DEF handle, result, sess, length, type
<1>4. /\ short \in Seq(V) /\ Len(short) = 3
      /\ short[1] = handle /\ short[2] = result /\ short[3] = sess
  OBVIOUS
<1>5. /\ long \in Seq(V) /\ Len(long) = 5
      /\ long[1] = handle /\ long[2] = result /\ long[3] = sess
      /\ long[4] = length /\ long[5] = type
  OBVIOUS
<1>6. ResultText(status, session, body) =
        Message("RECOGNITION_RESULT", IF body.json THEN long ELSE short, body)
  BY DEF ResultText, handle, result, sess, length, type
<1> HIDE DEF short, long, V
<1>7. CASE body = NoBody
  <2>1. ~body.json
    BY <1>7 DEF NoBody
  <2>2. /\ \A i \in 1 .. Len(short) : i = 1 \/ i = 2 \/ i = 3
        /\ 2 \in 1 .. Len(short) /\ 3 \in 1 .. Len(short)
        /\ (\A i \in 1 .. 2 - 1 : i = 1) /\ (\A i \in 1 .. 3 - 1 : i = 1 \/ i = 2)
    BY <1>4
  <2>3. \A i \in 1 .. Len(short) :
          Legal(short[i].value) /\ short[i].key # "Content-Length"
    BY <1>1, <1>3, <1>4, <2>2
  <2> DEFINE heard == Parse(Message("RECOGNITION_RESULT", short, body))
  <2>4. /\ heard.cmd = "RECOGNITION_RESULT" /\ heard.body = NoBody
        /\ Get(heard, "Result-Status") = <<status>>
        /\ Get(heard, "Session-Status") = <<session>>
    <3> HIDE DEF heard
    <3>1. heard.headers = Inserted(short) /\ short \in Seq(V)
      BY <1>4, <2>3, LegalParse DEF heard
    <3>2. heard.cmd = "RECOGNITION_RESULT" /\ heard.body = NoBody
      BY <1>4, <2>3, LegalParse DEF heard
    <3>3. /\ \A i \in 1 .. 2 - 1 : short[i].key # short[2].key
          /\ \A i \in 1 .. 3 - 1 : short[i].key # short[3].key
      BY <1>1, <1>4, <2>2
    <3>4. /\ Get(heard, short[2].key) = Token(short[2].value)
          /\ Get(heard, short[3].key) = Token(short[3].value)
      BY <2>2, <3>1, <3>3, KeyRead
    <3>5. /\ short[2].key = "Result-Status" /\ Token(short[2].value) = <<status>>
          /\ short[3].key = "Session-Status" /\ Token(short[3].value) = <<session>>
      BY <1>1, <1>3, <1>4
    <3>6. Get(heard, "Result-Status") = <<status>> /\ Get(heard, "Session-Status") = <<session>>
      BY <3>4, <3>5, Zenon
    <3>7. QED BY <3>2, <3>6, Zenon DEF heard
  <2>5. Parse(ResultText(status, session, body)) = heard
    BY <1>6, <2>1
  <2> HIDE DEF heard
  <2>6. StatusOf(heard) = status
    <3>1. <<status>> # <<>> /\ Head(<<status>>) = status
      OBVIOUS
    <3>2. QED BY <2>4, <3>1 DEF StatusOf
  <2>7. QED BY <2>4, <2>5, <2>6, <1>7, Zenon DEF ReadAs
<1>8. CASE body.json = TRUE
  <2>1. /\ \A i \in 1 .. Len(long) : i = 1 \/ i = 2 \/ i = 3 \/ i = 4 \/ i = 5
        /\ 2 \in 1 .. Len(long) /\ 3 \in 1 .. Len(long) /\ 4 \in 1 .. Len(long)
        /\ (\A i \in 1 .. 2 - 1 : i = 1) /\ (\A i \in 1 .. 3 - 1 : i = 1 \/ i = 2)
    BY <1>5
  <2>2. \A i \in 1 .. Len(long) : Legal(long[i].value)
    BY <1>1, <1>3, <1>5, <2>1
  <2>3. \E i \in 1 .. Len(long) : long[i].key = "Content-Length"
    BY <1>1, <1>5, <2>1
  <2> DEFINE heard == Parse(Message("RECOGNITION_RESULT", long, body))
  <2>4. /\ heard.cmd = "RECOGNITION_RESULT" /\ heard.body = body
        /\ Get(heard, "Result-Status") = <<status>>
        /\ Get(heard, "Session-Status") = <<session>>
    <3> HIDE DEF heard
    <3>1. heard.headers = Inserted(long) /\ long \in Seq(V)
      BY <1>5, <2>2, LegalParse DEF heard
    <3>2. heard.cmd = "RECOGNITION_RESULT" /\ heard.body = body
      BY <1>5, <2>2, <2>3, LegalParse DEF heard
    <3>3. /\ \A i \in 1 .. 2 - 1 : long[i].key # long[2].key
          /\ \A i \in 1 .. 3 - 1 : long[i].key # long[3].key
      BY <1>1, <1>5, <2>1
    <3>4. /\ Get(heard, long[2].key) = Token(long[2].value)
          /\ Get(heard, long[3].key) = Token(long[3].value)
      BY <2>1, <3>1, <3>3, KeyRead
    <3>5. /\ long[2].key = "Result-Status" /\ Token(long[2].value) = <<status>>
          /\ long[3].key = "Session-Status" /\ Token(long[3].value) = <<session>>
      BY <1>1, <1>3, <1>5
    <3>6. Get(heard, "Result-Status") = <<status>> /\ Get(heard, "Session-Status") = <<session>>
      BY <3>4, <3>5, Zenon
    <3>7. QED BY <3>2, <3>6, Zenon DEF heard
  <2>5. Parse(ResultText(status, session, body)) = heard
    BY <1>6, <1>8
  <2> HIDE DEF heard
  <2>6. StatusOf(heard) = status
    <3>1. <<status>> # <<>> /\ Head(<<status>>) = status
      OBVIOUS
    <3>2. QED BY <2>4, <3>1 DEF StatusOf
  <2>7. QED BY <2>4, <2>5, <2>6, Zenon DEF ReadAs
<1>9. QED BY <1>7, <1>8

-----------------------------------------------------------------------------
(* Each message that a server sends is heard as it is meant.               *)

Kept(m) == m.means \in MeaningType /\ HeardAsMeant(m)

(* Whatever is not a result.                                               *)
LEMMA OtherHeard ==
  ASSUME NEW text, text.cmd # "RECOGNITION_RESULT"
  PROVE  Kept(Says(text))
<1>1. Says(text).means = [final |-> FALSE, last |-> FALSE, status |-> "none"]
      /\ Says(text).text = text
  BY DEF Says, Nothing, Meaning
<1>2. Says(text).means \in MeaningType
  BY <1>1 DEF MeaningType, Statuses
<1>3. Parse(text).cmd = text.cmd
  BY DEF Parse
<1>4. HeardAsMeant(Says(text))
  BY <1>1, <1>3 DEF HeardAsMeant
<1>5. QED BY <1>2, <1>4 DEF Kept

LEMMA MockResultHeard == Kept(MockResult)
<1> DEFINE body == Json("RECOGNIZED", 1, "true", "true")
           heard == Parse(MockResult.text)
<1>1. /\ body.json = TRUE /\ body.status = "RECOGNIZED" /\ body.alternatives = 1
      /\ body.final = "true" /\ body.last = "true"
  BY DEF Json
<1>2. MockResult.text = ResultText("RECOGNIZED", "IDLE", body)
  BY DEF MockResult
<1>3. IsWord("RECOGNIZED") /\ IsWord("IDLE")
  BY DEF IsWord, Space, Illegal
<1>4. heard.cmd = "RECOGNITION_RESULT" /\ heard.body = body /\ StatusOf(heard) = "RECOGNIZED"
  <2>1. body = NoBody \/ body.json = TRUE
    BY <1>1
  <2> HIDE DEF body
  <2>2. ReadAs(MockResult.text, "RECOGNIZED", "IDLE", body)
    BY <1>2, <1>3, <2>1, ResultRead, Zenon
  <2>3. QED BY <2>2 DEF ReadAs
<1>5. MockResult.means = [final |-> TRUE, last |-> TRUE, status |-> "RECOGNIZED"]
  BY DEF MockResult, Meaning
<1>6. CodesOf("RECOGNIZED") = {"RECOGNIZED"}
  BY DEF CodesOf, Codes
<1>7. WithAlternatives("RECOGNIZED", 1) = "RECOGNIZED"
  BY DEF WithAlternatives
<1> HIDE DEF body, heard
<1>8. IsFinal(heard) /\ IsLast(heard)
  BY <1>1, <1>4 DEF IsFinal, IsLast
<1>9. HeardAsMeant(MockResult)
  BY <1>1, <1>4, <1>5, <1>6, <1>7, <1>8 DEF HeardAsMeant, heard
<1>10. MockResult.means \in MeaningType
  BY <1>5 DEF MeaningType, Statuses, Codes
<1>11. QED BY <1>9, <1>10 DEF Kept

LEMMA CanceledHeard == Kept(Canceled)
<1> DEFINE heard == Parse(Canceled.text)
<1>1. NoBody.json = FALSE
  BY DEF NoBody
<1>2. Canceled.text = ResultText("CANCELED", "IDLE", NoBody)
  BY DEF Canceled
<1>3. IsWord("CANCELED") /\ IsWord("IDLE")
  BY DEF IsWord, Space, Illegal
<1>4. heard.cmd = "RECOGNITION_RESULT" /\ heard.body = NoBody /\ StatusOf(heard) = "CANCELED"
  <2>1. NoBody = NoBody \/ NoBody.json = TRUE
    OBVIOUS
  <2>2. ReadAs(Canceled.text, "CANCELED", "IDLE", NoBody)
    BY <1>2, <1>3, <2>1, ResultRead, Zenon
  <2>3. QED BY <2>2 DEF ReadAs
<1>5. Canceled.means = [final |-> FALSE, last |-> TRUE, status |-> "none"]
  BY DEF Canceled, Meaning
<1> HIDE DEF heard
<1>6. HeardAsMeant(Canceled)
  BY <1>1, <1>4, <1>5 DEF HeardAsMeant, heard
<1>7. Canceled.means \in MeaningType
  BY <1>5 DEF MeaningType, Statuses
<1>8. QED BY <1>6, <1>7 DEF Kept

(* A result of a server of the protocol, in each of its forms.             *)
LEMMA SayingHeard ==
  ASSUME NEW m \in Meanings
  PROVE  Kept([text |-> Saying(m), means |-> Meaning(m.final, m.last, m.status)])
<1> DEFINE session == IF m.last THEN "IDLE" ELSE "RECOGNIZING"
           flag(b) == IF b THEN "true" ELSE "false"
           alternatives == IF m.status \in {"RECOGNIZED", "PROCESSING"} THEN 1 ELSE 0
           plain == Json(m.status, alternatives, "absent", "absent")
           segment == Json(m.status, alternatives, flag(m.final), flag(m.last))
           message == [text |-> Saying(m), means |-> Meaning(m.final, m.last, m.status)]
           heard == Parse(Saying(m))
<1>1. /\ m.final \in BOOLEAN /\ m.last \in BOOLEAN
      /\ m.status \in (Codes \ {"CANCELED"}) \cup {"PROCESSING"}
      /\ m.final => m.status # "PROCESSING"
      /\ m.last => m.final
      /\ \/ m.form = "status" /\ m.final /\ m.last
         \/ m.form = "plain" /\ m.final /\ m.last /\ m.status = "RECOGNIZED"
         \/ m.form = "segment"
  BY MeaningsAssumption
<1>2. IsWord(m.status) /\ IsWord(session) /\ m.status # "CANCELED"
  BY <1>1 DEF IsWord, Space, Illegal, Codes
<1>3. message.text = Saying(m) /\ message.means = [final |-> m.final, last |-> m.last, status |-> m.status]
  BY DEF Meaning
<1>4. message.means \in MeaningType
  BY <1>1, <1>3 DEF MeaningType, Statuses
<1>5. m.final => CodesOf(m.status) = {m.status}
  BY <1>1 DEF CodesOf
<1>6. WithAlternatives(m.status, alternatives) = m.status
  BY <1>1 DEF WithAlternatives
<1>7. CASE m.form = "status"
  <2>1. Saying(m) = ResultText(m.status, session, NoBody)
    BY <1>7 DEF Saying
  <2>2. NoBody.json = FALSE
    BY DEF NoBody
  <2>3. heard.cmd = "RECOGNITION_RESULT" /\ heard.body = NoBody /\ StatusOf(heard) = m.status
    <3>1. NoBody = NoBody \/ NoBody.json = TRUE
      OBVIOUS
    <3> HIDE DEF session
    <3>2. ReadAs(Saying(m), m.status, session, NoBody)
      BY <1>2, <2>1, <3>1, ResultRead, Zenon
    <3>3. QED BY <3>2 DEF ReadAs
  <2> HIDE DEF heard, message
  <2>4. HeardAsMeant(message)
    BY <1>1, <1>2, <1>3, <1>5, <1>7, <2>2, <2>3 DEF HeardAsMeant, heard
  <2>5. QED BY <1>4, <2>4 DEF Kept, message
<1>8. CASE m.form = "plain"
  <2>1. Saying(m) = ResultText(m.status, session, plain)
    BY <1>8 DEF Saying
  <2>2. /\ plain.json = TRUE /\ plain.status = m.status /\ plain.alternatives = alternatives
        /\ plain.final = "absent" /\ plain.last = "absent"
    BY DEF Json
  <2>3. heard.cmd = "RECOGNITION_RESULT" /\ heard.body = plain /\ StatusOf(heard) = m.status
    <3>1. plain = NoBody \/ plain.json = TRUE
      BY <2>2
    <3> HIDE DEF session, plain
    <3>2. ReadAs(Saying(m), m.status, session, plain)
      BY <1>2, <2>1, <3>1, ResultRead, Zenon
    <3>3. QED BY <3>2 DEF ReadAs
  <2> HIDE DEF heard, message, plain, alternatives
  <2>4. (IsFinal(heard) <=> m.final) /\ IsLast(heard)
    BY <1>1, <1>8, <2>2, <2>3 DEF IsFinal, IsLast
  <2>5. m.final => \A code \in CodesOf(heard.body.status) :
                     WithAlternatives(code, heard.body.alternatives) = m.status
    BY <1>5, <1>6, <2>2, <2>3
  <2>6. HeardAsMeant(message)
    BY <1>1, <1>2, <1>3, <1>8, <2>2, <2>3, <2>4, <2>5 DEF HeardAsMeant, heard
  <2>7. QED BY <1>4, <2>6 DEF Kept, message
<1>9. CASE m.form = "segment"
  <2>1. Saying(m) = ResultText(m.status, session, segment)
    BY <1>9 DEF Saying
  <2>2. /\ segment.json = TRUE /\ segment.status = m.status /\ segment.alternatives = alternatives
        /\ segment.final = flag(m.final) /\ segment.last = flag(m.last)
    BY DEF Json
  <2>3. heard.cmd = "RECOGNITION_RESULT" /\ heard.body = segment /\ StatusOf(heard) = m.status
    <3>1. segment = NoBody \/ segment.json = TRUE
      BY <2>2
    <3> HIDE DEF session, segment
    <3>2. ReadAs(Saying(m), m.status, session, segment)
      BY <1>2, <2>1, <3>1, ResultRead, Zenon
    <3>3. QED BY <3>2 DEF ReadAs
  <2> HIDE DEF heard, message, segment, alternatives
  <2>4. (IsFinal(heard) <=> m.final) /\ (IsLast(heard) <=> m.last)
    BY <1>1, <2>2, <2>3 DEF IsFinal, IsLast
  <2>5. m.final => \A code \in CodesOf(heard.body.status) :
                     WithAlternatives(code, heard.body.alternatives) = m.status
    BY <1>5, <1>6, <2>2, <2>3
  <2>6. HeardAsMeant(message)
    BY <1>1, <1>2, <1>3, <2>2, <2>3, <2>4, <2>5 DEF HeardAsMeant, heard
  <2>7. QED BY <1>4, <2>6 DEF Kept, message
<1>10. QED BY <1>1, <1>7, <1>8, <1>9

-----------------------------------------------------------------------------
(* The queues: sequences of messages that are heard as they are meant.     *)

AllKept(s) == s \in Seq(Range(s)) /\ \A i \in 1 .. Len(s) : Kept(s[i])

LEMMA KeptMessages == ASSUME NEW s, AllKept(s) PROVE Messages(s)
BY DEF AllKept, Messages, Meant, Kept

LEMMA KeptNone == AllKept(<<>>)
<1>1. <<>> \in Seq(Range(<<>>)) /\ Len(<<>>) = 0
  OBVIOUS
<1>2. QED BY <1>1 DEF AllKept

LEMMA KeptOne == ASSUME NEW m, Kept(m) PROVE AllKept(<<m>>) /\ Len(<<m>>) = 1
<1>1. <<m>> \in Seq({m}) /\ Len(<<m>>) = 1 /\ <<m>>[1] = m
  OBVIOUS
<1>2. <<m>> \in Seq(Range(<<m>>))
  BY <1>1, SeqOfRange
<1>3. \A i \in 1 .. 1 : i = 1
  OBVIOUS
<1>4. QED BY <1>1, <1>2, <1>3 DEF AllKept

LEMMA KeptBoth ==
  ASSUME NEW s, NEW t, AllKept(s), AllKept(t)
  PROVE  AllKept(s \o t) /\ Len(s \o t) = Len(s) + Len(t)
<1> DEFINE st == s \o t
<1>1. s \in Seq(Range(s) \cup Range(t)) /\ t \in Seq(Range(s) \cup Range(t))
  BY SeqMonotonic DEF AllKept
<1>2. /\ st \in Seq(Range(s) \cup Range(t)) /\ Len(st) = Len(s) + Len(t)
      /\ Len(s) \in Nat /\ Len(t) \in Nat
      /\ \A i \in 1 .. Len(s) + Len(t) :
           st[i] = IF i <= Len(s) THEN s[i] ELSE t[i - Len(s)]
  BY <1>1, ConcatProperties
<1> HIDE DEF st
<1>3. st \in Seq(Range(st))
  BY <1>2, SeqOfRange
<1>4. ASSUME NEW i \in 1 .. Len(st) PROVE Kept(st[i])
  <2>1. CASE i <= Len(s)
    BY <1>2, <2>1 DEF AllKept
  <2>2. CASE ~(i <= Len(s))
    <3>1. i - Len(s) \in 1 .. Len(t) /\ st[i] = t[i - Len(s)]
      BY <1>2, <2>2
    <3>2. QED BY <3>1 DEF AllKept
  <2>3. QED BY <2>1, <2>2
<1>5. QED BY <1>2, <1>3, <1>4 DEF AllKept, st

(* What a send does to the queue and to its ghosts.                        *)
LEMMA SendKeeps ==
  ASSUME NEW messages, AllKept(messages), AllKept(toClient), Send(messages),
         owed \in Seq(Statuses), lasts \in Nat, client.results \in Seq(Statuses),
         owed = client.results \o Finals(toClient)
  PROVE  /\ AllKept(toClient') /\ Len(toClient') = Len(toClient) + Len(messages)
         /\ owed' \in Seq(Statuses) /\ lasts' \in Nat
         /\ owed' = client.results \o Finals(toClient')
<1>1. AllKept(toClient') /\ Len(toClient') = Len(toClient) + Len(messages)
  BY KeptBoth DEF Send
<1>2. Messages(toClient) /\ Messages(messages)
  BY KeptMessages
<1>3. Finals(toClient) \in Seq(Statuses) /\ Finals(messages) \in Seq(Statuses)
  <2>1. Len(toClient) \in Nat /\ Len(messages) \in Nat
    BY <1>2, LenProperties DEF Messages
  <2>2. QED BY <1>2, <2>1, FinalsType DEF Messages
<1>4. Finals(toClient') = Finals(toClient) \o Finals(messages)
  BY <1>2, FinalsConcat DEF Send
<1>5. owed' = (client.results \o Finals(toClient)) \o Finals(messages)
  BY DEF Send
<1>6. owed' = client.results \o (Finals(toClient) \o Finals(messages))
  BY <1>3, <1>5, Associates, Zenon
<1>7. owed' \in Seq(Statuses)
  BY <1>3, <1>5, ConcatProperties, Zenon
<1>8. lasts' \in Nat
  <2> DEFINE L == {i \in DOMAIN messages : messages[i].means.last}
  <2>1. DOMAIN messages = 1 .. Len(messages) /\ Len(messages) \in Nat
    BY <1>2, LenProperties DEF Messages
  <2>2. IsFiniteSet(L)
    <3>1. IsFiniteSet(1 .. Len(messages)) /\ L \subseteq 1 .. Len(messages)
      BY <2>1, FS_Interval
    <3> HIDE DEF L
    <3>2. QED BY <3>1, FS_Subset
  <2>3. Cardinality(L) \in Nat
    BY <2>2, FS_CardinalityType
  <2>4. QED BY <2>3 DEF Send
<1>9. QED BY <1>1, <1>4, <1>6, <1>7, <1>8

(* A request more.                                                         *)
Requests == Methods \cup {"SEND_AUDIO"}
AllRequests(s) == s \in Seq(Range(s)) /\ \A i \in DOMAIN s : s[i].cmd \in Requests

LEMMA AskKeeps ==
  ASSUME NEW s, AllRequests(s), NEW r, r.cmd \in Requests
  PROVE  AllRequests(Append(s, r))
<1>1. s \in Seq(Range(s) \cup {r}) /\ r \in Range(s) \cup {r}
  BY SeqMonotonic DEF AllRequests
<1>2. /\ Append(s, r) \in Seq(Range(s) \cup {r}) /\ Len(Append(s, r)) = Len(s) + 1
      /\ \A i \in 1 .. Len(s) : Append(s, r)[i] = s[i]
      /\ Append(s, r)[Len(s) + 1] = r
      /\ DOMAIN Append(s, r) = 1 .. Len(s) + 1 /\ DOMAIN s = 1 .. Len(s) /\ Len(s) \in Nat
  BY <1>1, AppendProperties
<1>3. Append(s, r) \in Seq(Range(Append(s, r)))
  BY <1>2, SeqOfRange
<1>4. \A i \in 1 .. Len(s) + 1 : i \in 1 .. Len(s) \/ i = Len(s) + 1
  BY <1>2
<1>5. QED BY <1>2, <1>3, <1>4 DEF AllRequests

(* A request less.                                                         *)
LEMMA ServeKeeps ==
  ASSUME NEW s, AllRequests(s), s # <<>>
  PROVE  AllRequests(Tail(s)) /\ Head(s).cmd \in Requests
<1>1. /\ Tail(s) \in Seq(Range(s)) /\ Len(Tail(s)) = Len(s) - 1 /\ Len(s) \in Nat
      /\ Head(s) = s[1] /\ 1 \in DOMAIN s /\ DOMAIN s = 1 .. Len(s)
      /\ DOMAIN Tail(s) = 1 .. Len(Tail(s))
      /\ \A i \in 1 .. Len(Tail(s)) : Tail(s)[i] = s[i + 1]
  BY HeadTailProperties DEF AllRequests
<1>2. Tail(s) \in Seq(Range(Tail(s)))
  BY <1>1, SeqOfRange
<1>3. \A i \in 1 .. Len(Tail(s)) : i + 1 \in DOMAIN s
  BY <1>1
<1>4. QED BY <1>1, <1>2, <1>3 DEF AllRequests

(* The model that a program adds, text by text.                            *)
LEMMA ModelFold ==
  ASSUME NEW adds \in Seq([kind : {"uri", "grammar"}, text : Words])
  PROVE  \E f \in [0 .. Len(adds) -> ModelType] :
           /\ f[0] = NoModel /\ LanguageModelList(adds) = f[Len(adds)]
           /\ \A i \in 1 .. Len(adds) : f[i] = Add(f[i - 1], adds[i])
<1> DEFINE A(f) == [i \in 0 .. Len(adds) |->
                      IF i = 0 THEN NoModel ELSE Add(f[i - 1], adds[i])]
           step == [p \in ModelType \X (1 .. Len(adds)) |-> Add(p[1], adds[p[2]])]
<1>0. Len(adds) \in Nat
  OBVIOUS
<1>1. step \in [ModelType \X (1 .. Len(adds)) -> ModelType]
  <2>1. ASSUME NEW lm \in ModelType, NEW i \in 1 .. Len(adds)
        PROVE  Add(lm, adds[i]) \in ModelType
    <3>1. adds[i].kind \in {"uri", "grammar"} /\ adds[i].text \in Words
      <4>1. adds[i] \in [kind : {"uri", "grammar"}, text : Words]
        BY ElementOfSeq
      <4>2. QED BY <4>1
    <3>2. CASE adds[i].kind = "uri"
      BY <3>1, <3>2 DEF Add, ModelType
    <3>3. CASE adds[i].kind = "grammar"
      BY <3>1, <3>3 DEF Add, ModelType
    <3>4. QED BY <3>1, <3>2, <3>3
  <2>2. ASSUME NEW p \in ModelType \X (1 .. Len(adds))
        PROVE  Add(p[1], adds[p[2]]) \in ModelType
    BY <2>1
  <2>3. QED BY <2>2
<1>2. NoModel \in ModelType
  BY DEF NoModel, ModelType, Words
<1>3. PICK f \in [0 .. Len(adds) -> ModelType] : IsFold(f, Len(adds), NoModel, step)
  <2> HIDE DEF step
  <2>1. QED BY <1>0, <1>1, <1>2, FoldExists, Zenon
<1>a. ASSUME NEW i \in 1 .. Len(adds) PROVE f[i] = Add(f[i - 1], adds[i])
  <2>1. i - 1 \in 0 .. Len(adds)
    OBVIOUS
  <2>2. <<f[i - 1], i>> \in ModelType \X (1 .. Len(adds))
    BY <2>1
  <2>3. f[i] = step[<<f[i - 1], i>>]
    BY <1>3 DEF IsFold
  <2>4. QED BY <2>2, <2>3
<1>b. f[0] = NoModel
  BY <1>3 DEF IsFold
<1>4. f = A(f)
  <2>1. ASSUME NEW i \in 1 .. Len(adds) PROVE f[i] = A(f)[i]
    <3>1. i \in 0 .. Len(adds) /\ i # 0
      OBVIOUS
    <3>2. QED BY <1>a, <3>1
  <2>2. f[0] = A(f)[0]
    BY <1>0, <1>3 DEF IsFold
  <2>3. \A i \in 0 .. Len(adds) : f[i] = A(f)[i]
    <3>1. \A i \in 0 .. Len(adds) : i = 0 \/ i \in 1 .. Len(adds)
      OBVIOUS
    <3> HIDE DEF A
    <3>2. QED BY <2>1, <2>2, <3>1, Zenon
  <2>4. DOMAIN f = 0 .. Len(adds) /\ f = [i \in DOMAIN f |-> f[i]]
    OBVIOUS
  <2>5. DOMAIN A(f) = 0 .. Len(adds) /\ A(f) = [i \in DOMAIN A(f) |-> A(f)[i]]
    OBVIOUS
  <2> HIDE DEF A
  <2>6. QED BY <2>3, <2>4, <2>5
<1>5. PICK g : g = A(g) /\ LanguageModelList(adds) = g[Len(adds)]
  BY <1>4 DEF LanguageModelList
<1>6. g[Len(adds)] = f[Len(adds)]
  <2> DEFINE S == {k \in Nat : k <= Len(adds) => g[k] = f[k]}
  <2>1. 0 \in S
    BY <1>0, <1>4, <1>5
  <2>2. ASSUME NEW k \in Nat, k \in S PROVE k + 1 \in S
    <3> SUFFICES ASSUME k + 1 <= Len(adds) PROVE g[k + 1] = f[k + 1]
      OBVIOUS
    <3>1. k + 1 \in 0 .. Len(adds) /\ k + 1 # 0 /\ (k + 1) - 1 = k /\ g[k] = f[k]
      BY <1>0, <2>2
    <3>2. A(g)[k + 1] = A(f)[k + 1]
      BY <3>1
    <3>3. QED BY <1>4, <1>5, <3>2
  <2>3. Nat \subseteq S
    <3> HIDE DEF S
    <3>1. QED BY <2>1, <2>2, AllNaturals
  <2>4. Len(adds) \in 0 .. Len(adds)
    BY <1>0
  <2>5. QED BY <1>0, <2>3, <2>4
<1>7. QED BY <1>5, <1>6, <1>a, <1>b

LEMMA ModelTyped ==
  ASSUME NEW adds \in Seq([kind : {"uri", "grammar"}, text : Words])
  PROVE  LanguageModelList(adds) \in ModelType
<1>1. PICK f \in [0 .. Len(adds) -> ModelType] : LanguageModelList(adds) = f[Len(adds)]
  BY ModelFold
<1>2. Len(adds) \in 0 .. Len(adds)
  OBVIOUS
<1>3. QED BY <1>1, <1>2

-----------------------------------------------------------------------------
(* The inductive invariant, and what it says of the queues.                *)

Inv == TypeOK /\ MeaningKept /\ ResultsFaithful

LEMMA Queued ==
  ASSUME Inv
  PROVE  /\ AllKept(toClient) /\ Messages(toClient) /\ AllRequests(toServer)
         /\ Len(toClient) \in Nat /\ Finals(toClient) \in Seq(Statuses)
         /\ client.results \in Seq(Codes) /\ client.results \in Seq(Statuses)
         /\ owed = client.results \o Finals(toClient)
<1>1. toClient \in Seq(Range(toClient))
  BY DEF Inv, TypeOK
<1>2. DOMAIN toClient = 1 .. Len(toClient) /\ Len(toClient) \in Nat
  BY <1>1, LenProperties
<1>3. AllKept(toClient)
  BY <1>1, <1>2 DEF AllKept, Kept, Inv, TypeOK, MeaningKept
<1>4. AllRequests(toServer)
  BY DEF AllRequests, Requests, Inv, TypeOK
<1>5. client.results \in Seq(Codes)
  BY DEF Inv, TypeOK, ClientType
<1>6. client.results \in Seq(Statuses)
  BY <1>5, SeqMonotonic DEF Statuses
<1>7. Messages(toClient)
  BY <1>3, KeptMessages
<1>8. QED BY <1>2, <1>3, <1>4, <1>5, <1>6, <1>7, FinalsType DEF Inv, ResultsFaithful, Messages

(* The invariant from its parts.                                           *)
LEMMA Regained ==
  ASSUME (program \in Programs)', (client \in ClientType)',
         (n \in 0 .. Len(program.turns))',
         (mock.counter \in 0 .. END_RECOGNIZE + 1 /\ mock.status \in {"IDLE", "LISTENING"})',
         (server \in [running : BOOLEAN, results : 0 .. MaxResults])',
         (canceled \in BOOLEAN)', AllRequests(toServer'),
         AllKept(toClient'), Len(toClient') <= MaxInFlight + 3,
         owed' \in Seq(Statuses), lasts' \in Nat,
         owed' = client'.results \o Finals(toClient')
  PROVE  Inv'
<1>1. DOMAIN toClient' = 1 .. Len(toClient') /\ toClient' \in Seq(Range(toClient'))
  BY LenProperties DEF AllKept
<1>2. TypeOK'
  <2>1. \A i \in DOMAIN toClient' : toClient'[i].means \in MeaningType
    BY <1>1 DEF AllKept, Kept
  <2>2. toServer' \in Seq(Range(toServer')) /\ \A i \in DOMAIN toServer' : toServer'[i].cmd \in Methods \cup {"SEND_AUDIO"}
    BY DEF AllRequests, Requests
  <2>3. QED BY <1>1, <2>1, <2>2 DEF TypeOK
<1>3. MeaningKept'
  BY <1>1 DEF MeaningKept, AllKept, Kept
<1>4. ResultsFaithful'
  BY DEF ResultsFaithful
<1>5. QED BY <1>2, <1>3, <1>4 DEF Inv

(* What leaves with the results is what was stored: the rest is under way. *)
LEMMA RestIsUnderWay ==
  ASSUME Inv
  PROVE  SubSeq(owed, Len(client.results) + 1, Len(owed)) = Finals(toClient)
<1> DEFINE r == client.results
           f == Finals(toClient)
           rest == SubSeq(owed, Len(r) + 1, Len(owed))
<1>1. r \in Seq(Statuses) /\ f \in Seq(Statuses) /\ owed = r \o f
  BY Queued
<1> HIDE DEF r, f
<1>2. /\ Len(owed) = Len(r) + Len(f) /\ Len(r) \in Nat /\ Len(f) \in Nat
      /\ \A i \in 1 .. Len(owed) : owed[i] = IF i <= Len(r) THEN r[i] ELSE f[i - Len(r)]
      /\ owed \in Seq(Statuses)
  BY <1>1, ConcatProperties
<1>3. /\ rest \in Seq(Statuses) /\ Len(rest) = Len(f)
      /\ \A i \in 1 .. Len(f) : rest[i] = owed[Len(r) + i]
  <2>1. \A i \in Len(r) + 1 .. Len(owed) : owed[i] \in Statuses
    BY <1>2, ElementOfSeq
  <2> DEFINE a == Len(r) + 1
             b == Len(owed)
  <2>2. /\ a \in Int /\ b \in Int /\ (IF a <= b THEN b - a + 1 ELSE 0) = Len(f)
        /\ \A i \in 1 .. Len(f) : i \in 1 .. b - a + 1 /\ a + i - 1 = Len(r) + i
    BY <1>2
  <2>3. \A i \in a .. b : owed[i] \in Statuses
    BY <2>1
  <2>4. rest = SubSeq(owed, a, b)
    OBVIOUS
  <2> HIDE DEF a, b, rest
  <2>5. QED BY <2>2, <2>3, <2>4, SubSeqProperties
<1>4. \A i \in 1 .. Len(f) : owed[Len(r) + i] = f[i]
  BY <1>2
<1> HIDE DEF rest
<1>5. rest = f
  BY <1>1, <1>3, <1>4, SeqEqual
<1>6. QED BY <1>5 DEF rest, r, f

-----------------------------------------------------------------------------
(* The program's steps.                                                    *)

(* A step that leaves the server alone.                                    *)
LEMMA ClientKeeps ==
  ASSUME Inv, UNCHANGED <<program, mock, server, lasts>>, client' \in ClientType,
         n' \in 0 .. Len(program.turns), canceled' \in BOOLEAN,
         AllRequests(toServer'), AllKept(toClient'), Len(toClient') <= MaxInFlight + 3,
         owed' \in Seq(Statuses), owed' = client'.results \o Finals(toClient')
  PROVE  Inv'
<1>1. /\ (program \in Programs)' /\ (n \in 0 .. Len(program.turns))'
      /\ (mock.counter \in 0 .. END_RECOGNIZE + 1 /\ mock.status \in {"IDLE", "LISTENING"})'
      /\ (server \in [running : BOOLEAN, results : 0 .. MaxResults])' /\ lasts' \in Nat
  BY DEF Inv, TypeOK
<1>2. QED BY <1>1, Regained

LEMMA BuildKeeps == ASSUME Inv, Build PROVE Inv'
<1>1. client' \in ClientType /\ client'.results = client.results
  BY DEF Build, Inv, TypeOK, ClientType
<1>2. UNCHANGED <<program, n, canceled, toServer, toClient, owed, lasts, mock, server>>
  BY DEF Build, channelVars
<1>3. QED BY <1>1, <1>2, Queued, ClientKeeps DEF Inv, TypeOK

(* What the program says of each recognition.                              *)
Additions == [kind : {"uri", "grammar"}, text : Words]
LEMMA Turns ==
  ASSUME Inv
  PROVE  /\ Len(program.turns) \in Nat /\ program.files \in Seq(Nat)
         /\ \A i \in 1 .. Len(program.turns) :
              /\ program.turns[i].adds \in Seq(Additions)
              /\ program.turns[i].source \in Nat
              /\ program.turns[i].source \in DOMAIN program.files
<1>1. /\ program.turns \in Seq([adds : Seq(Additions), source : DOMAIN program.files])
      /\ program.files \in Seq(Nat)
  BY ProgramsAssumption DEF Inv, TypeOK, Additions
<1>2. \A i \in 1 .. Len(program.turns) :
        program.turns[i] \in [adds : Seq(Additions), source : DOMAIN program.files]
  BY <1>1, ElementOfSeq
<1>3. DOMAIN program.files = 1 .. Len(program.files) /\ Len(program.files) \in Nat
      /\ Len(program.turns) \in Nat
  BY <1>1, LenProperties
<1>4. \A k \in 1 .. Len(program.files) : k \in Nat
  BY <1>3
<1>5. QED BY <1>1, <1>2, <1>3, <1>4

LEMMA RecognizeKeeps == ASSUME Inv, Recognize PROVE Inv'
<1> DEFINE turn == program.turns[n + 1]
           lm == LanguageModelList(turn.adds)
           begun == [client EXCEPT !.recognizing = TRUE, !.eptr = FALSE,
                                   !.results = <<>>, !.lm = lm,
                                   !.source = turn.source]
<1>0. client \in ClientType /\ n \in 0 .. Len(program.turns) /\ canceled \in BOOLEAN
  BY DEF Inv, TypeOK
<1>1. lm \in ModelType /\ turn.source \in Nat
  <2>1. n + 1 \in 1 .. Len(program.turns)
    BY <1>0, Turns DEF Recognize
  <2>2. turn.adds \in Seq(Additions) /\ turn.source \in Nat
    BY <2>1, Turns
  <2> HIDE DEF turn
  <2>3. QED BY <2>2, ModelTyped DEF Additions
<1>2. n + 1 \in 0 .. Len(program.turns)
  BY <1>0, Turns DEF Recognize
<1>3. /\ UNCHANGED <<program, canceled, toClient, lasts, mock, server>>
      /\ \/ /\ client' = [client EXCEPT !.phase = "raised"]
            /\ toServer' = toServer /\ n' = n /\ owed' = owed
         \/ /\ n' = n + 1 /\ Leave
            /\ \/ client' = begun /\ toServer' = Append(toServer, CreateSession)
               \/ client' = [begun EXCEPT !.phase = "raised"] /\ toServer' = toServer
               \/ client' = begun /\ toServer' = Append(toServer, StartRecognition(lm))
  BY DEF Recognize, Ask, AskNothing
<1> HIDE DEF lm, turn
<1>4. CreateSession.cmd \in Requests /\ StartRecognition(lm).cmd \in Requests
  BY DEF CreateSession, StartRecognition, Raw, Message, Requests, Methods
<1>6. begun \in ClientType /\ begun.results = <<>>
  <2>1. <<>> \in Seq(Codes)
    OBVIOUS
  <2>2. QED BY <1>0, <1>1, <2>1 DEF ClientType
<1> HIDE DEF begun
<1>5. AllRequests(toServer')
  <2>1. /\ AllRequests(Append(toServer, CreateSession))
        /\ AllRequests(Append(toServer, StartRecognition(lm))) /\ AllRequests(toServer)
    BY <1>4, AskKeeps, Queued
  <2>2. QED BY <1>3, <2>1, Zenon
<1>7. CASE client' = [client EXCEPT !.phase = "raised"] /\ n' = n /\ owed' = owed
  <2>1. client' \in ClientType /\ client'.results = client.results
    BY <1>0, <1>7 DEF ClientType
  <2>2. QED BY <1>0, <1>3, <1>5, <1>7, <2>1, Queued, ClientKeeps DEF Inv, TypeOK
<1>8. CASE /\ n' = n + 1 /\ Leave
           /\ client' = begun \/ client' = [begun EXCEPT !.phase = "raised"]
  <2>1. client' \in ClientType /\ client'.results = <<>>
    BY <1>6, <1>8 DEF ClientType
  <2>2. owed' = Finals(toClient)
    BY <1>8, RestIsUnderWay DEF Leave
  <2>3. Finals(toClient) \in Seq(Statuses) /\ <<>> \o Finals(toClient) = Finals(toClient)
    BY Queued, ConcatEmptySeq
  <2>4. QED BY <1>0, <1>2, <1>3, <1>5, <1>8, <2>1, <2>2, <2>3, Queued, ClientKeeps DEF Inv, TypeOK
<1>9. QED BY <1>3, <1>7, <1>8

LEMMA WaitKeeps == ASSUME Inv, Wait PROVE Inv'
<1>1. client' \in ClientType /\ client'.results = <<>>
  <2>1. client \in ClientType /\ <<>> \in Seq(Codes)
    BY DEF Inv, TypeOK
  <2>2. \/ client' = [client EXCEPT !.audio = "none", !.results = <<>>, !.phase = "raised"]
        \/ client' = [client EXCEPT !.audio = "none", !.results = <<>>]
    BY <2>1 DEF Wait, ClientType
  <2>3. QED BY <2>1, <2>2 DEF ClientType
<1>2. UNCHANGED <<program, n, canceled, toServer, toClient, lasts, mock, server>> /\ Leave
  BY DEF Wait
<1>3. owed' = Finals(toClient)
  BY <1>2, RestIsUnderWay DEF Leave
<1>4. Finals(toClient) \in Seq(Statuses) /\ <<>> \o Finals(toClient) = Finals(toClient)
  BY Queued, ConcatEmptySeq
<1>5. QED BY <1>1, <1>2, <1>3, <1>4, Queued, ClientKeeps DEF Inv, TypeOK

LEMMA CancelKeeps == ASSUME Inv, Cancel PROVE Inv'
<1>1. client' \in ClientType /\ client'.results = client.results
  BY DEF Cancel, Inv, TypeOK, ClientType
<1>2. UNCHANGED <<program, n, toClient, owed, lasts, mock, server>> /\ canceled' = TRUE
  BY DEF Cancel
<1>3. CancelRecognition.cmd \in Requests
  BY DEF CancelRecognition, Raw, Message, Requests, Methods
<1>4. AllRequests(toServer')
  BY <1>3, AskKeeps, Queued DEF Cancel, Ask
<1>5. QED BY <1>1, <1>2, <1>4, Queued, ClientKeeps DEF Inv, TypeOK

(* The sending thread's.                                                   *)
LEMMA AudioKeeps == ASSUME Inv, AudioSend PROVE Inv'
<1>1. client' \in ClientType /\ client'.results = client.results
  BY DEF AudioSend, Inv, TypeOK, ClientType
<1>2. UNCHANGED <<program, n, canceled, toClient, owed, lasts, mock, server>>
  BY DEF AudioSend
<1>3. SendAudio(AtEnd(client.source)).cmd \in Requests
  BY DEF SendAudio, Raw, Message, Requests
<1>4. AllRequests(toServer')
  BY <1>3, AskKeeps, Queued DEF AudioSend, Ask
<1>5. QED BY <1>1, <1>2, <1>4, Queued, ClientKeeps DEF Inv, TypeOK

-----------------------------------------------------------------------------
(* The handlers.                                                           *)

LEMMA CodeOfStatus == \A status : CodesOf(status) \subseteq Codes
BY DEF CodesOf, Codes

LEMMA StoredCode == \A code \in Codes : \A k : WithAlternatives(code, k) \in Codes
BY DEF WithAlternatives, Codes

(* What a handler does to the client, to the requests and to the ghost.    *)
LEMMA HeardOther ==
  ASSUME Inv, NEW heard,
         \/ HandleCreateSession(heard) \/ HandleSetParameters(heard) \/ HandleStart(heard)
         \/ HandleFailure(heard) \/ HandleUnknown(heard) \/ HandleSpeech(heard)
  PROVE  /\ heard.cmd # "RECOGNITION_RESULT" /\ client' \in ClientType
         /\ client'.results = client.results /\ owed' = owed /\ AllRequests(toServer')
<1>0. client \in ClientType
  BY DEF Inv, TypeOK
<1>1. heard.cmd # "RECOGNITION_RESULT" /\ owed' = owed
  BY DEF HandleCreateSession, HandleSetParameters, HandleStart, HandleFailure,
         HandleUnknown, HandleSpeech, Answers
<1>2. \/ client' = client
      \/ client' = [client EXCEPT !.phase = "crashed"]
      \/ client' = [client EXCEPT !.audio = "reading"]
      \/ client' = [client EXCEPT !.eptr = TRUE]
  <2>1. CASE HandleCreateSession(heard) \/ HandleSetParameters(heard)
    BY <2>1 DEF HandleCreateSession, HandleSetParameters, StartOnNet
  <2>2. CASE HandleStart(heard)
    BY <2>2 DEF HandleStart
  <2>3. CASE HandleFailure(heard) \/ HandleUnknown(heard) \/ HandleSpeech(heard)
    BY <2>3 DEF HandleFailure, HandleUnknown, HandleSpeech
  <2>4. QED BY <2>1, <2>2, <2>3
<1>3. client' \in ClientType /\ client'.results = client.results
  BY <1>0, <1>2 DEF ClientType
<1>4. \/ toServer' = toServer
      \/ toServer' = Append(toServer, SetParameters(config))
      \/ toServer' = Append(toServer, StartRecognition(client.lm))
  <2>1. CASE HandleCreateSession(heard) \/ HandleSetParameters(heard)
    BY <2>1 DEF HandleCreateSession, HandleSetParameters, StartOnNet, Ask, AskNothing
  <2>2. CASE \/ HandleStart(heard) \/ HandleFailure(heard)
             \/ HandleUnknown(heard) \/ HandleSpeech(heard)
    BY <2>2 DEF HandleStart, HandleFailure, HandleUnknown, HandleSpeech, AskNothing
  <2>3. QED BY <2>1, <2>2
<1>5. SetParameters(config).cmd \in Requests /\ StartRecognition(client.lm).cmd \in Requests
  BY DEF SetParameters, StartRecognition, Raw, Message, Requests, Methods
<1>6. /\ AllRequests(toServer) /\ AllRequests(Append(toServer, SetParameters(config)))
      /\ AllRequests(Append(toServer, StartRecognition(client.lm)))
  BY <1>5, AskKeeps, Queued
<1>7. AllRequests(toServer')
  BY <1>4, <1>6, Zenon
<1>8. QED BY <1>1, <1>3, <1>7

(* A result is stored as it was meant, if it was meant to be one.          *)
LEMMA HeardResult ==
  ASSUME Inv, NEW m, Kept(m),
         LET heard == Parse(m.text)
         IN \/ HandleCanceledResult(heard) \/ HandleStatusOnly(heard)
            \/ HandleFinal(heard) \/ HandlePartial(heard)
  PROVE  /\ client' \in ClientType /\ owed' = owed /\ toServer' = toServer
         /\ client'.results = IF m.means.final THEN Append(client.results, m.means.status)
                             ELSE client.results
<1> DEFINE heard == Parse(m.text)
           isCanceled == StatusOf(heard) = "CANCELED"
<1>0. client \in ClientType /\ client.results \in Seq(Codes) /\ m.means \in MeaningType
  BY Queued DEF Inv, TypeOK, Kept
<1>1. heard.cmd = "RECOGNITION_RESULT" /\ toServer' = toServer /\ owed' = owed
  BY DEF HandleCanceledResult, HandleStatusOnly, HandleFinal, HandlePartial,
         IsResult, AskNothing
<1>2. /\ m.means.final <=> ~isCanceled /\ (heard.body.json => IsFinal(heard))
      /\ m.means.final =>
           IF heard.body.json
           THEN \A code \in CodesOf(heard.body.status) :
                  WithAlternatives(code, heard.body.alternatives) = m.means.status
           ELSE CodesOf(StatusOf(heard)) = {m.means.status}
  BY <1>1 DEF Kept, HeardAsMeant
<1>3. \A ended \in BOOLEAN : /\ Settled(heard, ended) \in ClientType
                             /\ Settled(heard, ended).results = client.results
  BY <1>0 DEF Settled, ClientType
<1>4. \A ended \in BOOLEAN : \A code \in Codes :
        /\ Stored(heard, code, ended) \in ClientType
        /\ Stored(heard, code, ended).results = Append(client.results, code)
  <2> SUFFICES ASSUME NEW ended \in BOOLEAN, NEW code \in Codes
               PROVE  /\ Stored(heard, code, ended) \in ClientType
                      /\ Stored(heard, code, ended).results = Append(client.results, code)
    OBVIOUS
  <2> DEFINE settled == Settled(heard, ended)
  <2>1. settled \in ClientType /\ settled.results = client.results
    BY <1>3
  <2> DEFINE more == Append(client.results, code)
  <2>2. Stored(heard, code, ended) = [settled EXCEPT !.results = more]
    BY <2>1 DEF Stored
  <2>3. more \in Seq(Codes)
    BY <1>0, AppendProperties
  <2> HIDE DEF settled, more
  <2>4. [settled EXCEPT !.results = more] \in ClientType
    BY <2>1, <2>3 DEF ClientType
  <2>5. [settled EXCEPT !.results = more].results = more
    BY <2>1 DEF ClientType
  <2>6. QED BY <2>2, <2>4, <2>5 DEF more
<1>5. IsLast(heard) \in BOOLEAN
  BY DEF IsLast
<1>6. CASE HandleCanceledResult(heard)
  <2>1. client' = Settled(heard, TRUE) /\ isCanceled
    BY <1>6 DEF HandleCanceledResult
  <2> HIDE DEF heard
  <2>2. QED BY <1>1, <1>2, <1>3, <2>1
<1>7. CASE HandleStatusOnly(heard)
  <2>1. PICK code \in CodesOf(StatusOf(heard)) : client' = Stored(heard, code, TRUE)
    BY <1>7 DEF HandleStatusOnly
  <2>2. ~isCanceled /\ ~heard.body.json
    BY <1>7 DEF HandleStatusOnly
  <2> HIDE DEF heard
  <2>3. m.means.final /\ code = m.means.status /\ code \in Codes
    BY <1>2, <2>1, <2>2, CodeOfStatus
  <2>4. QED BY <1>1, <1>4, <2>1, <2>3
<1>8. CASE HandleFinal(heard)
  <2>1. PICK code \in CodesOf(heard.body.status) :
          client' = Stored(heard, WithAlternatives(code, heard.body.alternatives), IsLast(heard))
    BY <1>8 DEF HandleFinal
  <2>2. ~isCanceled /\ heard.body.json /\ IsFinal(heard)
    BY <1>8 DEF HandleFinal
  <2> HIDE DEF heard
  <2>3. /\ m.means.final /\ WithAlternatives(code, heard.body.alternatives) = m.means.status
        /\ WithAlternatives(code, heard.body.alternatives) \in Codes
    BY <1>2, <2>1, <2>2, CodeOfStatus, StoredCode
  <2>4. QED BY <1>1, <1>4, <1>5, <2>1, <2>3
<1>9. CASE HandlePartial(heard)
  <2>1. client' = Settled(heard, FALSE) /\ heard.body.json /\ ~IsFinal(heard)
    BY <1>9 DEF HandlePartial
  <2> HIDE DEF heard
  <2>2. QED BY <1>1, <1>2, <1>3, <2>1
<1>10. QED BY <1>6, <1>7, <1>8, <1>9

LEMMA NetKeeps == ASSUME Inv, NetStep PROVE Inv'
<1> DEFINE m == Head(toClient)
           heard == Parse(m.text)
           said == IF m.means.final THEN <<m.means.status>> ELSE <<>>
<1>1. /\ toClient # <<>> /\ toClient' = Tail(toClient)
      /\ UNCHANGED <<program, n, canceled, lasts, mock, server>>
  BY DEF NetStep, NetReady
<1>2. /\ AllKept(toClient') /\ Len(toClient') = Len(toClient) - 1 /\ Kept(m)
      /\ Len(toClient) \in Nat
  <2>1. /\ toClient \in Seq(Range(toClient)) /\ AllKept(toClient)
        /\ Len(toClient) \in Nat
    BY Queued DEF AllKept
  <2>2. /\ Tail(toClient) \in Seq(Range(toClient)) /\ Len(Tail(toClient)) = Len(toClient) - 1
        /\ m = toClient[1] /\ 1 \in 1 .. Len(toClient)
        /\ \A i \in 1 .. Len(Tail(toClient)) : Tail(toClient)[i] = toClient[i + 1]
    BY <1>1, <2>1, HeadTailProperties
  <2>3. Tail(toClient) \in Seq(Range(Tail(toClient)))
    BY <2>2, SeqOfRange
  <2>4. \A i \in 1 .. Len(Tail(toClient)) : i + 1 \in 1 .. Len(toClient)
    BY <2>1, <2>2
  <2>5. QED BY <1>1, <2>1, <2>2, <2>3, <2>4 DEF AllKept
<1>3. /\ Finals(toClient) = said \o Finals(toClient') /\ Messages(toClient')
      /\ Finals(toClient') \in Seq(Statuses) /\ m.means.status \in Statuses
  <2>1. Messages(toClient')
    BY <1>2, KeptMessages
  <2>2. Len(toClient') \in Nat
    BY <2>1, LenProperties DEF Messages
  <2>3. QED BY <1>1, <1>2, <2>1, <2>2, Queued, FinalsHead, FinalsType DEF Messages, Kept, MeaningType
<1>4. /\ owed = client.results \o Finals(toClient) /\ client.results \in Seq(Statuses)
      /\ owed \in Seq(Statuses) /\ Len(toClient) <= MaxInFlight + 3
      /\ n \in 0 .. Len(program.turns) /\ canceled \in BOOLEAN
  BY Queued DEF Inv, TypeOK
<1>5. Len(toClient') <= MaxInFlight + 3
  BY <1>2, <1>4, MockAssumption
<1>6. ASSUME client' \in ClientType, AllRequests(toServer'), owed' \in Seq(Statuses),
             owed' = client'.results \o Finals(toClient')
      PROVE  Inv'
  BY <1>1, <1>2, <1>4, <1>5, <1>6, ClientKeeps
<1>7. CASE HandleCancel(heard)
  <2>1. heard.cmd # "RECOGNITION_RESULT" /\ toServer' = toServer /\ Leave
    BY <1>7 DEF HandleCancel, Answers, AskNothing
  <2>2. ~m.means.final
    BY <1>2, <2>1 DEF Kept, HeardAsMeant
  <2>3. client' \in ClientType /\ client'.results = <<>>
    <3>1. client \in ClientType /\ <<>> \in Seq(Codes)
      BY DEF Inv, TypeOK
    <3>2. client' = [client EXCEPT !.results = <<>>, !.recognizing = FALSE]
      BY <1>7 DEF HandleCancel
    <3>3. QED BY <3>1, <3>2 DEF ClientType
  <2>4. owed' = Finals(toClient')
    BY <1>3, <2>1, <2>2, RestIsUnderWay, ConcatEmptySeq DEF Leave
  <2>5. owed' = client'.results \o Finals(toClient')
    BY <1>3, <2>3, <2>4, ConcatEmptySeq
  <2>6. QED BY <1>3, <1>6, <2>1, <2>3, <2>4, <2>5, Queued
<1>8. CASE \/ HandleCreateSession(heard) \/ HandleSetParameters(heard) \/ HandleStart(heard)
           \/ HandleFailure(heard) \/ HandleUnknown(heard) \/ HandleSpeech(heard)
  <2>1. /\ heard.cmd # "RECOGNITION_RESULT" /\ client' \in ClientType
        /\ client'.results = client.results /\ owed' = owed /\ AllRequests(toServer')
    BY <1>8, HeardOther
  <2>2. ~m.means.final
    BY <1>2, <2>1 DEF Kept, HeardAsMeant
  <2>3. Finals(toClient) = Finals(toClient')
    BY <1>3, <2>2, ConcatEmptySeq
  <2>4. owed' = client'.results \o Finals(toClient')
    BY <1>4, <2>1, <2>3
  <2>5. QED BY <1>4, <1>6, <2>1, <2>4
<1>9. CASE \/ HandleCanceledResult(heard) \/ HandleStatusOnly(heard)
           \/ HandleFinal(heard) \/ HandlePartial(heard)
  <2>1. /\ client' \in ClientType /\ owed' = owed /\ toServer' = toServer
        /\ client'.results = IF m.means.final THEN Append(client.results, m.means.status)
                            ELSE client.results
    BY <1>2, <1>9, HeardResult
  <2>2. client'.results = client.results \o said
    <3>1. CASE m.means.final
      BY <1>3, <1>4, <2>1, <3>1, AppendIsConcat
    <3>2. CASE ~m.means.final
      BY <1>4, <2>1, <3>2, ConcatEmptySeq
    <3>3. QED BY <3>1, <3>2
  <2>3. said \in Seq(Statuses)
    BY <1>3
  <2> HIDE DEF said
  <2>4. (client.results \o said) \o Finals(toClient') = client.results \o (said \o Finals(toClient'))
    <3>1. /\ client.results \in Seq(Statuses) /\ said \in Seq(Statuses)
          /\ Finals(toClient') \in Seq(Statuses)
      BY <1>3, <1>4, <2>3, Zenon
    <3>2. QED BY <3>1, Associates, Zenon
  <2>5. owed' = client'.results \o Finals(toClient')
    BY <1>3, <1>4, <2>1, <2>2, <2>4, Zenon
  <2>6. QED BY <1>4, <1>6, <2>1, <2>5, Queued
<1>10. QED BY <1>7, <1>8, <1>9 DEF NetStep

-----------------------------------------------------------------------------
(* The servers.                                                            *)

LEMMA SenderKeeps ==
  ASSUME Inv, UNCHANGED clientVars,
         (mock.counter \in 0 .. END_RECOGNIZE + 1 /\ mock.status \in {"IDLE", "LISTENING"})',
         (server \in [running : BOOLEAN, results : 0 .. MaxResults])',
         AllRequests(toServer'), NEW messages, AllKept(messages), Send(messages),
         Len(toClient) + Len(messages) <= MaxInFlight + 3
  PROVE  Inv'
<1>1. /\ AllKept(toClient') /\ Len(toClient') = Len(toClient) + Len(messages)
      /\ owed' \in Seq(Statuses) /\ lasts' \in Nat
      /\ owed' = client.results \o Finals(toClient')
  BY Queued, SendKeeps DEF Inv, TypeOK
<1>2. UNCHANGED <<program, client, n, canceled>>
  BY DEF clientVars
<1>3. QED BY <1>1, <1>2, Regained DEF Inv, TypeOK

LEMMA ServingKeeps ==
  ASSUME Inv, Serving
  PROVE  /\ AllRequests(toServer') /\ Head(toServer).cmd \in Requests
         /\ Len(toClient) \in Nat /\ Len(toClient) <= MaxInFlight
BY Queued, ServeKeeps DEF Serving

(* Sequences of at most three messages.                                    *)
LEMMA KeptSome ==
  ASSUME NEW a, NEW b, Kept(a), Kept(b)
  PROVE  /\ AllKept(<<a>>) /\ Len(<<a>>) = 1
         /\ AllKept(<<a, b>>) /\ Len(<<a, b>>) = 2
<1>1. AllKept(<<a>>) /\ Len(<<a>>) = 1 /\ AllKept(<<b>>) /\ Len(<<b>>) = 1
  BY KeptOne
<1>2. <<a, b>> = <<a>> \o <<b>>
  <2> DEFINE ab == <<a>> \o <<b>>
  <2>1. <<a>> \in Seq({a, b}) /\ <<b>> \in Seq({a, b}) /\ <<a, b>> \in Seq({a, b})
    OBVIOUS
  <2>2. /\ ab \in Seq({a, b}) /\ Len(ab) = 2
        /\ \A i \in 1 .. 2 : ab[i] = IF i <= 1 THEN <<a>>[i] ELSE <<b>>[i - 1]
    BY <2>1, ConcatProperties
  <2>3. ab[1] = a /\ ab[2] = b
    <3> HIDE DEF ab
    <3>1. QED BY <2>2
  <2>4. \A i \in 1 .. 2 : i = 1 \/ i = 2
    OBVIOUS
  <2> HIDE DEF ab
  <2>5. Len(<<a, b>>) = 2 /\ <<a, b>>[1] = a /\ <<a, b>>[2] = b
    OBVIOUS
  <2>6. <<a, b>> = ab
    BY <2>1, <2>2, <2>3, <2>4, <2>5, SeqEqual
  <2>7. QED BY <2>6 DEF ab
<1>3. QED BY <1>1, <1>2, KeptBoth

LEMMA ByCounterKept ==
  ASSUME NEW counter
  PROVE  AllKept(ByCounter(counter)) /\ Len(ByCounter(counter)) \in Nat /\ Len(ByCounter(counter)) <= 2
<1> DEFINE a == IF counter = END_RECOGNIZE \div 5 THEN <<StartOfSpeech>> ELSE <<>>
           b == IF counter = END_RECOGNIZE THEN <<MockResult>> ELSE <<>>
<1>1. Kept(StartOfSpeech) /\ Kept(MockResult)
  <2>1. Message("START_OF_SPEECH", <<Header("Handle", <<Space, "handle">>),
                 Header("Session-Status", <<Space, "LISTENING">>)>>, NoBody).cmd
          # "RECOGNITION_RESULT"
    BY DEF Message
  <2>2. QED BY <2>1, OtherHeard, MockResultHeard DEF StartOfSpeech
<1>2. AllKept(<<>>) /\ Len(<<>>) = 0
  BY KeptNone
<1>3. /\ AllKept(<<StartOfSpeech>>) /\ Len(<<StartOfSpeech>>) = 1
      /\ AllKept(<<MockResult>>) /\ Len(<<MockResult>>) = 1
  BY <1>1, KeptOne
<1>4. /\ AllKept(a) /\ (Len(a) = 0 \/ Len(a) = 1)
      /\ AllKept(b) /\ (Len(b) = 0 \/ Len(b) = 1)
  BY <1>2, <1>3, Zenon
<1>5. ByCounter(counter) = a \o b
  BY DEF ByCounter
<1> HIDE DEF a, b
<1>6. AllKept(a \o b) /\ Len(a \o b) = Len(a) + Len(b)
  BY <1>4, KeptBoth
<1>7. QED BY <1>4, <1>5, <1>6

LEMMA StoppedType ==
  ASSUME NEW counter \in 0 .. END_RECOGNIZE + 1
  PROVE  Stopped(counter) \in 0 .. END_RECOGNIZE + 1
BY MockAssumption DEF Stopped

LEMMA MockAnswerKeeps ==
  ASSUME Inv, Serving, UNCHANGED <<clientVars, server>>, NEW request, MockAnswer(request)
  PROVE  Inv'
<1> DEFINE cmd == request.cmd
           status == IF cmd = "START_RECOGNITION" THEN "LISTENING" ELSE mock.status
           counter == IF cmd \in {"CREATE_SESSION", "RELEASE_SESSION"} THEN 0 ELSE mock.counter
           first == MockResponse(cmd, status)
           messages == <<first>> \o ByCounter(counter)
<1>1. /\ mock.counter \in 0 .. END_RECOGNIZE + 1 /\ mock.status \in {"IDLE", "LISTENING"}
      /\ server \in [running : BOOLEAN, results : 0 .. MaxResults]
  BY DEF Inv, TypeOK
<1>2. counter \in 0 .. END_RECOGNIZE + 1 /\ status \in {"IDLE", "LISTENING"}
  BY <1>1, MockAssumption
<1>3. /\ mock'.status = (IF cmd = "CREATE_SESSION" THEN "IDLE" ELSE status)
      /\ mock'.counter = Stopped(counter) /\ Send(messages)
  BY DEF MockAnswer
<1>4. Kept(first)
  <2>1. first = Says(Raw("RESPONSE",
                         <<Header("Error-Code", <<"000">>), Header("Handle", <<"handle", Space>>),
                           Header("Message", <<"success">>), Header("Method", <<cmd>>),
                           Header("Result", <<"SUCCESS", Space>>),
                           Header("Session-Status", <<status>>)>>))
    BY DEF MockResponse
  <2> DEFINE text == Raw("RESPONSE",
                         <<Header("Error-Code", <<"000">>), Header("Handle", <<"handle", Space>>),
                           Header("Message", <<"success">>), Header("Method", <<cmd>>),
                           Header("Result", <<"SUCCESS", Space>>),
                           Header("Session-Status", <<status>>)>>)
  <2>2. text.cmd = "RESPONSE"
    BY DEF Raw, Message
  <2> HIDE DEF text, first
  <2>3. Kept(Says(text))
    BY <2>2, OtherHeard
  <2>4. QED BY <2>1, <2>3 DEF text
<1> HIDE DEF first, counter, status
<1>5. AllKept(messages) /\ Len(messages) \in Nat /\ Len(messages) <= 3
  <2>1. AllKept(<<first>>) /\ Len(<<first>>) = 1
    BY <1>4, KeptOne
  <2>2. AllKept(ByCounter(counter)) /\ Len(ByCounter(counter)) \in Nat /\ Len(ByCounter(counter)) <= 2
    BY ByCounterKept
  <2>3. AllKept(messages) /\ Len(messages) = 1 + Len(ByCounter(counter))
    BY <2>1, <2>2, KeptBoth
  <2> HIDE DEF messages
  <2>4. QED BY <2>2, <2>3
<1> HIDE DEF messages
<1>6. mock'.counter \in 0 .. END_RECOGNIZE + 1 /\ mock'.status \in {"IDLE", "LISTENING"}
  BY <1>2, <1>3, StoppedType
<1>7. Len(toClient) + Len(messages) <= MaxInFlight + 3
  <2>1. Len(toClient) \in Nat /\ Len(toClient) <= MaxInFlight
    BY ServingKeeps
  <2>2. QED BY <1>5, <2>1, MockAssumption
<1>8. QED BY <1>1, <1>3, <1>5, <1>6, <1>7, ServingKeeps, SenderKeeps

LEMMA MockAudioKeeps ==
  ASSUME Inv, Serving, UNCHANGED <<clientVars, server>>, NEW request, MockAudio(request)
  PROVE  Inv'
<1> DEFINE last == Get(request, "LastPacket") = <<"true">>
           counted == IF mock.counter < END_RECOGNIZE THEN mock.counter + 1 ELSE mock.counter
           counter == IF last THEN END_RECOGNIZE ELSE counted
           before == IF last THEN <<StartOfSpeech>> ELSE <<>>
           messages == before \o ByCounter(counter)
<1>1. /\ mock.counter \in 0 .. END_RECOGNIZE + 1 /\ mock.status \in {"IDLE", "LISTENING"}
      /\ server \in [running : BOOLEAN, results : 0 .. MaxResults]
  BY DEF Inv, TypeOK
<1>2. counter \in 0 .. END_RECOGNIZE + 1
  BY <1>1, MockAssumption
<1>3. mock' = [mock EXCEPT !.counter = Stopped(counter)] /\ Send(messages)
  BY DEF MockAudio
<1>4. Kept(StartOfSpeech)
  <2>1. Message("START_OF_SPEECH", <<Header("Handle", <<Space, "handle">>),
                 Header("Session-Status", <<Space, "LISTENING">>)>>, NoBody).cmd
          # "RECOGNITION_RESULT"
    BY DEF Message
  <2>2. QED BY <2>1, OtherHeard DEF StartOfSpeech
<1>5. AllKept(before) /\ Len(before) \in Nat /\ Len(before) <= 1
  <2>1. AllKept(<<StartOfSpeech>>) /\ Len(<<StartOfSpeech>>) = 1 /\ AllKept(<<>>) /\ Len(<<>>) = 0
    BY <1>4, KeptOne, KeptNone
  <2>2. AllKept(before) /\ (Len(before) = 0 \/ Len(before) = 1)
    BY <2>1, Zenon
  <2>3. 0 \in Nat /\ 1 \in Nat /\ 0 <= 1 /\ 1 <= 1
    OBVIOUS
  <2>4. QED BY <2>2, <2>3, Zenon
<1> HIDE DEF counter, before
<1>6. AllKept(messages) /\ Len(messages) \in Nat /\ Len(messages) <= 3
  <2>1. AllKept(ByCounter(counter)) /\ Len(ByCounter(counter)) \in Nat /\ Len(ByCounter(counter)) <= 2
    BY ByCounterKept
  <2>2. AllKept(messages) /\ Len(messages) = Len(before) + Len(ByCounter(counter))
    BY <1>5, <2>1, KeptBoth
  <2> HIDE DEF messages
  <2>3. QED BY <1>5, <2>1, <2>2
<1> HIDE DEF messages
<1>7. mock'.counter \in 0 .. END_RECOGNIZE + 1 /\ mock'.status \in {"IDLE", "LISTENING"}
  BY <1>1, <1>2, <1>3, StoppedType
<1>8. Len(toClient) + Len(messages) <= MaxInFlight + 3
  <2>1. Len(toClient) \in Nat /\ Len(toClient) <= MaxInFlight
    BY ServingKeeps
  <2>2. QED BY <1>6, <2>1, MockAssumption
<1>9. QED BY <1>1, <1>3, <1>6, <1>7, <1>8, ServingKeeps, SenderKeeps

LEMMA AnswerHeard ==
  ASSUME NEW method, NEW result, NEW others
  PROVE  Kept(Answer(method, result, others))
<1> DEFINE text == Message("RESPONSE",
                           <<Header("Method", <<Space, method>>),
                             Header("Result", <<Space, result>>)>> \o others, NoBody)
<1>1. text.cmd = "RESPONSE" /\ Answer(method, result, others) = Says(text)
  BY DEF Message, Answer
<1> HIDE DEF text
<1>2. QED BY <1>1, OtherHeard

LEMMA RefusalHeard == ASSUME NEW method, NEW refusal \in Refusals(method) PROVE Kept(refusal)
<1> DEFINE last == Answer(method, "FAILURE", <<Header("Error-Code", <<"ERR">>), Why>>)
           text == Message("RESPONSE", <<Why>> \o last.text.headers, NoBody)
<1>1. refusal = last \/ refusal = Says(text)
  BY DEF Refusals
<1>2. Kept(last)
  BY AnswerHeard
<1>3. text.cmd = "RESPONSE"
  BY DEF Message
<1> HIDE DEF text, last
<1>4. Kept(Says(text))
  BY <1>3, OtherHeard
<1>5. QED BY <1>1, <1>2, <1>4, Zenon

LEMMA ServerAnswerKeeps ==
  ASSUME Inv, Serving, UNCHANGED <<clientVars, mock>>, NEW method, ServerAnswer(method)
  PROVE  Inv'
<1>1. /\ (mock.counter \in 0 .. END_RECOGNIZE + 1 /\ mock.status \in {"IDLE", "LISTENING"})'
      /\ server \in [running : BOOLEAN, results : 0 .. MaxResults]
  BY DEF Inv, TypeOK
<1>2. /\ server' \in [running : BOOLEAN, results : 0 .. MaxResults]
      /\ \E m : Kept(m) /\ Send(<<m>>)
  <2>1. CASE /\ Send(<<Accepts(method)>>)
             /\ server' = [running |-> server.running \/ method = "START_RECOGNITION",
                           results |-> IF method = "START_RECOGNITION" THEN 0
                                       ELSE server.results]
    <3>1. 0 \in 0 .. MaxResults
      BY MeaningsAssumption
    <3>2. server' \in [running : BOOLEAN, results : 0 .. MaxResults]
      BY <1>1, <2>1, <3>1
    <3>3. Kept(Accepts(method))
      BY AnswerHeard DEF Accepts
    <3>4. QED BY <2>1, <3>2, <3>3
  <2>2. CASE UNCHANGED server /\ \E refusal \in Refusals(method) : Send(<<refusal>>)
    BY <1>1, <2>2, RefusalHeard
  <2>3. QED BY <2>1, <2>2 DEF ServerAnswer
<1>3. PICK m : Kept(m) /\ Send(<<m>>)
  BY <1>2
<1>4. AllKept(<<m>>) /\ Len(<<m>>) = 1
  BY <1>3, KeptOne
<1>5. Len(toClient) + Len(<<m>>) <= MaxInFlight + 3
  BY <1>4, ServingKeeps, MockAssumption
<1>6. QED BY <1>1, <1>2, <1>3, <1>4, <1>5, ServingKeeps, SenderKeeps

LEMMA ServerCancelKeeps ==
  ASSUME Inv, Serving, UNCHANGED <<clientVars, mock>>, NEW method, ServerCancel(method)
  PROVE  Inv'
<1>1. /\ (mock.counter \in 0 .. END_RECOGNIZE + 1 /\ mock.status \in {"IDLE", "LISTENING"})'
      /\ server \in [running : BOOLEAN, results : 0 .. MaxResults]
  BY DEF Inv, TypeOK
<1>2. server' \in [running : BOOLEAN, results : 0 .. MaxResults]
  BY <1>1 DEF ServerCancel
<1>3. PICK messages : /\ Send(messages)
                      /\ messages \in {<<Accepts(method)>>, <<Accepts(method), Canceled>>,
                                       <<Answer(method, "INVALID_ACTION", <<>>)>>}
  BY DEF ServerCancel
<1>4. AllKept(messages) /\ Len(messages) \in Nat /\ Len(messages) <= 2
  <2>1. Kept(Accepts(method)) /\ Kept(Canceled) /\ Kept(Answer(method, "INVALID_ACTION", <<>>))
    BY AnswerHeard, CanceledHeard DEF Accepts
  <2>2. /\ AllKept(<<Accepts(method)>>) /\ Len(<<Accepts(method)>>) = 1
        /\ AllKept(<<Accepts(method), Canceled>>) /\ Len(<<Accepts(method), Canceled>>) = 2
        /\ AllKept(<<Answer(method, "INVALID_ACTION", <<>>)>>)
        /\ Len(<<Answer(method, "INVALID_ACTION", <<>>)>>) = 1
    BY <2>1, KeptSome, KeptOne
  <2>3. AllKept(messages) /\ (Len(messages) = 1 \/ Len(messages) = 2)
    BY <1>3, <2>2, Zenon
  <2>4. 1 \in Nat /\ 2 \in Nat /\ 1 <= 2 /\ 2 <= 2
    OBVIOUS
  <2>5. QED BY <2>3, <2>4, Zenon
<1>5. Len(toClient) + Len(messages) <= MaxInFlight + 3
  BY <1>4, ServingKeeps, MockAssumption
<1>6. QED BY <1>1, <1>2, <1>3, <1>4, <1>5, ServingKeeps, SenderKeeps

LEMMA ServerAudioKeeps ==
  ASSUME Inv, Serving, UNCHANGED <<clientVars, mock>>, NEW method, ServerAudio(method)
  PROVE  Inv'
<1>1. /\ (mock.counter \in 0 .. END_RECOGNIZE + 1 /\ mock.status \in {"IDLE", "LISTENING"})'
      /\ (server \in [running : BOOLEAN, results : 0 .. MaxResults])' /\ Send(<<>>)
  BY DEF Inv, TypeOK, ServerAudio
<1>2. AllKept(<<>>) /\ Len(<<>>) = 0
  BY KeptNone
<1>3. Len(toClient) + Len(<<>>) <= MaxInFlight + 3
  BY <1>2, ServingKeeps, MockAssumption
<1>4. QED BY <1>1, <1>2, <1>3, ServingKeeps, SenderKeeps

LEMMA ServerSpeaksKeeps ==
  ASSUME Inv, UNCHANGED <<clientVars, mock>>, ServerSpeaks
  PROVE  Inv'
<1>1. /\ (mock.counter \in 0 .. END_RECOGNIZE + 1 /\ mock.status \in {"IDLE", "LISTENING"})'
      /\ (server \in [running : BOOLEAN, results : 0 .. MaxResults])'
      /\ toServer' = toServer /\ Len(toClient) < MaxInFlight
  BY DEF Inv, TypeOK, ServerSpeaks
<1>2. PICK cmd \in {"START_OF_SPEECH", "END_OF_SPEECH"} :
        Send(<<Says(Message(cmd, <<>>, NoBody))>>)
  BY DEF ServerSpeaks
<1> DEFINE text == Message(cmd, <<>>, NoBody)
<1>3. text.cmd # "RECOGNITION_RESULT"
  BY DEF Message
<1> HIDE DEF text
<1>4. AllKept(<<Says(text)>>) /\ Len(<<Says(text)>>) = 1
  BY <1>3, OtherHeard, KeptOne
<1>5. Len(toClient) + Len(<<Says(text)>>) <= MaxInFlight + 3
  BY <1>1, <1>4, Queued, MockAssumption
<1>6. Send(<<Says(text)>>)
  BY <1>2 DEF text
<1>7. QED BY <1>1, <1>4, <1>5, <1>6, Queued, SenderKeeps

LEMMA ServerResultKeeps ==
  ASSUME Inv, UNCHANGED <<clientVars, mock>>, ServerResult
  PROVE  Inv'
<1>1. PICK m \in Meanings :
        /\ m.last \/ server.results < MaxResults
        /\ Send(<<[text |-> Saying(m), means |-> Meaning(m.final, m.last, m.status)]>>)
        /\ server' = IF m.last THEN [server EXCEPT !.running = FALSE]
                     ELSE [server EXCEPT !.results = @ + 1]
  BY DEF ServerResult
<1>2. /\ (mock.counter \in 0 .. END_RECOGNIZE + 1 /\ mock.status \in {"IDLE", "LISTENING"})'
      /\ server \in [running : BOOLEAN, results : 0 .. MaxResults]
      /\ toServer' = toServer /\ Len(toClient) < MaxInFlight
  BY DEF Inv, TypeOK, ServerResult
<1>3. server' \in [running : BOOLEAN, results : 0 .. MaxResults]
  <2>1. CASE m.last
    BY <1>1, <1>2, <2>1
  <2>2. CASE ~m.last
    <3>1. server.results + 1 \in 0 .. MaxResults
      BY <1>1, <1>2, <2>2, MeaningsAssumption
    <3>2. QED BY <1>1, <1>2, <2>2, <3>1
  <2>3. QED BY <2>1, <2>2
<1> DEFINE message == [text |-> Saying(m), means |-> Meaning(m.final, m.last, m.status)]
<1>4. Kept(message) /\ Send(<<message>>)
  BY <1>1, SayingHeard
<1> HIDE DEF message
<1>5. AllKept(<<message>>) /\ Len(<<message>>) = 1
  BY <1>4, KeptOne
<1>6. Len(toClient) + Len(<<message>>) <= MaxInFlight + 3
  BY <1>2, <1>5, Queued, MockAssumption
<1>7. QED BY <1>2, <1>3, <1>4, <1>5, <1>6, Queued, SenderKeeps

-----------------------------------------------------------------------------
(* The invariant of the specification.                                     *)

LEMMA InvInit == Init => Inv
<1> SUFFICES ASSUME Init PROVE Inv
  OBVIOUS
<1>1. toServer = <<>> /\ toClient = <<>> /\ owed = <<>> /\ lasts = 0 /\ client.results = <<>>
  BY DEF Init, Queues
<1>2. client \in ClientType /\ program \in Programs /\ n = 0 /\ canceled = FALSE
  <2>1. NoModel \in ModelType
    BY DEF NoModel, ModelType, Words
  <2>2. <<>> \in Seq(Codes)
    OBVIOUS
  <2>3. QED BY <2>1, <2>2 DEF Init, ClientType
<1>3. Len(program.turns) \in Nat
  BY <1>2, ProgramsAssumption, LenProperties
<1>4. mock.counter \in 0 .. END_RECOGNIZE + 1 /\ mock.status \in {"IDLE", "LISTENING"}
  <2>1. \A counter, status, params :
          /\ Mock(counter, status, params).counter = counter
          /\ Mock(counter, status, params).status = status
    BY DEF Mock
  <2>2. /\ 0 \in 0 .. END_RECOGNIZE + 1 /\ END_RECOGNIZE \in 0 .. END_RECOGNIZE + 1
        /\ END_RECOGNIZE \div 5 \in 0 .. END_RECOGNIZE + 1
    BY MockAssumption
  <2>3. CASE mock = NewMock
    BY <2>1, <2>2, <2>3 DEF NewMock
  <2>4. CASE mock \in UsedMocks
    BY <2>1, <2>2, <2>4 DEF UsedMocks
  <2>5. QED BY <2>3, <2>4 DEF Init
<1>5. server \in [running : BOOLEAN, results : 0 .. MaxResults]
  BY MeaningsAssumption DEF Init
<1>6. TypeOK
  <2>1. <<>> \in Seq(Range(<<>>)) /\ <<>> \in Seq(Statuses) /\ DOMAIN <<>> = {} /\ Len(<<>>) = 0
    OBVIOUS
  <2>2. n \in 0 .. Len(program.turns) /\ 0 <= MaxInFlight + 3
    BY <1>2, <1>3, MockAssumption
  <2>3. QED BY <1>1, <1>2, <1>4, <1>5, <2>1, <2>2 DEF TypeOK
<1>7. MeaningKept /\ ResultsFaithful
  BY <1>1, FinalsEmpty DEF MeaningKept, ResultsFaithful
<1>8. QED BY <1>6, <1>7 DEF Inv

LEMMA InvNext == Inv /\ [Next]_vars => Inv'
<1> SUFFICES ASSUME Inv, [Next]_vars PROVE Inv'
  OBVIOUS
<1>1. CASE ProgramStep
  BY <1>1, BuildKeeps, RecognizeKeeps, WaitKeeps, CancelKeeps DEF ProgramStep
<1>2. CASE NetStep
  BY <1>2, NetKeeps
<1>3. CASE AudioSend
  BY <1>3, AudioKeeps
<1>4. CASE MocksTurn
  BY <1>4, MockAnswerKeeps, MockAudioKeeps DEF MocksTurn, MockStep
<1>5. CASE ServersTurn
  BY <1>5, ServerAnswerKeeps, ServerCancelKeeps, ServerAudioKeeps, ServerSpeaksKeeps,
     ServerResultKeeps DEF ServersTurn, ServerStep
<1>6. CASE UNCHANGED vars
  BY <1>6 DEF vars, clientVars, channelVars, Inv, TypeOK, MeaningKept, HeardAsMeant, ResultsFaithful
<1>7. QED BY <1>1, <1>2, <1>3, <1>4, <1>5, <1>6 DEF Next

LEMMA InvHolds == Spec => []Inv
<1>1. QED BY InvInit, InvNext, PTL DEF Spec

(***************************************************************************)
(* Every variable keeps to its domain and the queues to their bound: what  *)
(* a handler makes of a message, and what it asks, are within the types.   *)
(***************************************************************************)
THEOREM Typing == Spec => []TypeOK
<1>1. Inv => TypeOK
  BY DEF Inv
<1>2. QED BY <1>1, InvHolds, PTL

(***************************************************************************)
(* What the handlers make of a message is what its sender meant by it, for *)
(* all forms of a result and any word as its status.                       *)
(***************************************************************************)
THEOREM HeardAsItIsMeant == Spec => []MeaningKept
<1>1. Inv => MeaningKept
  BY DEF Inv
<1>2. QED BY <1>1, InvHolds, PTL

(***************************************************************************)
(* The results that are stored or under way are those that were sent as    *)
(* final and neither returned nor dropped, with their codes and in order.  *)
(***************************************************************************)
THEOREM Faithful == Spec => []ResultsFaithful
<1>1. Inv => ResultsFaithful
  BY DEF Inv
<1>2. QED BY <1>1, InvHolds, PTL

-----------------------------------------------------------------------------
(* The parameters and their headers.                                       *)

LEMMA Kinds ==
  \A p \in Parameters :
    /\ p \in Numbers => p \notin Switches /\ p \notin Texts
    /\ p \in Switches => p \notin Texts
    /\ p \notin Numbers /\ p \notin Switches => p \in Texts
BY DEF Parameters, Numbers, Switches, Texts

Keys == Len(KeyOrder)
LEMMA KeysDiffer == Keys \in Nat /\ \A i, j \in 1 .. Keys : KeyOrder[i] = KeyOrder[j] => i = j
<1>1. Keys = 35
  BY DEF KeyOrder, Keys
<1>2. \A i, j \in 1 .. 35 : KeyOrder[i] = KeyOrder[j] => i = j
  BY SMTT(60) DEF KeyOrder
<1>3. QED BY <1>1, <1>2

LEMMA HeadersDiffer ==
  /\ DOMAIN HeaderOf = Parameters
  /\ \A p, q \in Parameters : HeaderOf[p] = HeaderOf[q] => p = q
<1>1. DOMAIN HeaderOf = Parameters
  BY DEF HeaderOf, Parameters, Numbers, Switches, Texts
<1>2. \A p, q \in Parameters : HeaderOf[p] = HeaderOf[q] => p = q
  BY SMTT(60) DEF HeaderOf, Parameters, Numbers, Switches, Texts
<1>3. QED BY <1>1, <1>2

LEMMA Places ==
  \A p \in Parameters : Place[p] \in 1 .. Keys /\ KeyOrder[Place[p]] = HeaderOf[p]
<1>1. \A p \in Parameters : \E i \in 1 .. Keys : KeyOrder[i] = HeaderOf[p]
  <2>1. \A p \in Parameters : \E i \in 1 .. 35 : KeyOrder[i] = HeaderOf[p]
    BY SMTT(60) DEF HeaderOf, Parameters, Numbers, Switches, Texts, KeyOrder
  <2>2. Keys = 35
    BY DEF KeyOrder, Keys
  <2>3. QED BY <2>1, <2>2
<1> SUFFICES ASSUME NEW p \in Parameters
             PROVE  Place[p] \in 1 .. Keys /\ KeyOrder[Place[p]] = HeaderOf[p]
  OBVIOUS
<1> DEFINE I == {i \in 1 .. Keys : KeyOrder[i] = HeaderOf[p]}
<1>2. I # {} /\ I \in SUBSET (1 .. Keys) /\ Keys \in Nat
  BY <1>1, KeysDiffer
<1>3. Place[p] = IF I # {} THEN Min(I) ELSE 0
  BY DEF Place, SelectInSeq, Keys
<1>4. Place[p] \in I
  <2> HIDE DEF I
  <2>1. QED BY <1>2, <1>3, FirstOf
<1>5. QED BY <1>4

LEMMA ParameterOfHeader ==
  /\ \A p \in Parameters : HeaderOf[p] \in DOMAIN ParameterOf /\ ParameterOf[HeaderOf[p]] = p
  /\ \A key \in DOMAIN ParameterOf : \E p \in Parameters : key = HeaderOf[p]
<1>1. DOMAIN ParameterOf = {HeaderOf[p] : p \in Parameters}
  BY HeadersDiffer DEF ParameterOf, Range
<1>2. ASSUME NEW p \in Parameters PROVE ParameterOf[HeaderOf[p]] = p
  <2>1. (CHOOSE q \in Parameters : HeaderOf[q] = HeaderOf[p]) = p
    BY HeadersDiffer
  <2>2. QED BY <1>1, <2>1 DEF ParameterOf
<1>3. QED BY <1>1, <1>2

-----------------------------------------------------------------------------
(* The headers of a SET_PARAMETERS: those that are sent, in their order.   *)
SentAt(c, m) == KeyOrder[m] \in DOMAIN ParameterOf /\ IsSent(c, ParameterOf[KeyOrder[m]])
HeaderAt(c, m) ==
  Header(KeyOrder[m], TextOf(ParameterOf[KeyOrder[m]], c[ParameterOf[KeyOrder[m]]]))
AllHeaders(c) == {HeaderAt(c, m) : m \in 1 .. Keys}
HeaderStep(c) ==
  [p \in Seq(AllHeaders(c)) \X (1 .. Keys) |->
     IF SentAt(c, p[2]) THEN Append(p[1], HeaderAt(c, p[2])) ELSE p[1]]

LEMMA KeyAt == \A c, m : HeaderAt(c, m).key = KeyOrder[m]
BY DEF HeaderAt, Header

LEMMA SetFold ==
  ASSUME NEW c
  PROVE  \E f \in [0 .. Keys -> Seq(AllHeaders(c))] :
           /\ IsFold(f, Keys, <<>>, HeaderStep(c))
           /\ SetParameters(c) = Message("SET_PARAMETERS", f[Keys], NoBody)
<1>k. Keys \in Nat
  BY KeysDiffer
<1> USE <1>k
<1> DEFINE H == AllHeaders(c)
           F(f) == [i \in 0 .. Keys |->
                      IF i = 0 THEN <<>>
                      ELSE IF SentAt(c, i) THEN Append(f[i - 1], HeaderAt(c, i)) ELSE f[i - 1]]
<1>1. HeaderStep(c) \in [Seq(H) \X (1 .. Keys) -> Seq(H)]
  <2>1. ASSUME NEW u \in Seq(H), NEW i \in 1 .. Keys
        PROVE  (IF SentAt(c, i) THEN Append(u, HeaderAt(c, i)) ELSE u) \in Seq(H)
    <3>1. HeaderAt(c, i) \in H
      BY DEF AllHeaders
    <3>2. Append(u, HeaderAt(c, i)) \in Seq(H)
      BY <3>1, AppendProperties
    <3>3. QED BY <3>2, Zenon
  <2>2. ASSUME NEW p \in Seq(H) \X (1 .. Keys)
        PROVE  (IF SentAt(c, p[2]) THEN Append(p[1], HeaderAt(c, p[2])) ELSE p[1]) \in Seq(H)
    <3>1. PICK u \in Seq(H), i \in 1 .. Keys : p[1] = u /\ p[2] = i
      OBVIOUS
    <3>2. (IF SentAt(c, i) THEN Append(u, HeaderAt(c, i)) ELSE u) \in Seq(H)
      BY <2>1
    <3>3. QED BY <3>1, <3>2, Zenon
  <2>3. QED BY <2>2 DEF HeaderStep
<1>2. PICK f \in [0 .. Keys -> Seq(H)] : IsFold(f, Keys, <<>>, HeaderStep(c))
  <2>1. <<>> \in Seq(H) /\ Keys \in Nat
    OBVIOUS
  <2> HIDE DEF H
  <2>2. QED BY <1>1, <2>1, FoldExists, Zenon
<1>3. f = F(f)
  <2>1. ASSUME NEW i \in 1 .. Keys PROVE f[i] = F(f)[i]
    <3>1. i - 1 \in 0 .. Keys /\ i \in 0 .. Keys /\ i # 0
      OBVIOUS
    <3>2. f[i] = HeaderStep(c)[<<f[i - 1], i>>]
      BY <1>2 DEF IsFold
    <3>3. <<f[i - 1], i>> \in Seq(H) \X (1 .. Keys)
      BY <3>1
    <3>4. f[i] = IF SentAt(c, i) THEN Append(f[i - 1], HeaderAt(c, i)) ELSE f[i - 1]
      BY <3>2, <3>3 DEF HeaderStep
    <3>5. QED BY <3>1, <3>4
  <2>2. f[0] = F(f)[0]
    BY <1>2 DEF IsFold
  <2>3. \A i \in 0 .. Keys : f[i] = F(f)[i]
    <3>1. \A i \in 0 .. Keys : i = 0 \/ i \in 1 .. Keys
      OBVIOUS
    <3> HIDE DEF F
    <3>2. QED BY <2>1, <2>2, <3>1, Zenon
  <2>4. DOMAIN f = 0 .. Keys /\ f = [i \in DOMAIN f |-> f[i]]
    OBVIOUS
  <2>5. DOMAIN F(f) = 0 .. Keys /\ F(f) = [i \in DOMAIN F(f) |-> F(f)[i]]
    OBVIOUS
  <2> HIDE DEF F
  <2>6. QED BY <2>3, <2>4, <2>5
<1>4. PICK g : g = F(g) /\ SetParameters(c) = Message("SET_PARAMETERS", g[Keys], NoBody)
  <2>1. SetParameters(c) = Message("SET_PARAMETERS", (CHOOSE g : g = F(g))[Keys], NoBody)
    BY Zenon DEF SetParameters, Raw, SentAt, HeaderAt, Keys
  <2>2. QED
    <3> HIDE DEF F
    <3>1. QED BY <1>3, <2>1
<1>5. g[Keys] = f[Keys]
  <2> DEFINE S == {k \in Nat : k <= Keys => g[k] = f[k]}
  <2>1. 0 \in S
    BY <1>3, <1>4
  <2>2. ASSUME NEW k \in Nat, k \in S PROVE k + 1 \in S
    <3> SUFFICES ASSUME k + 1 <= Keys PROVE g[k + 1] = f[k + 1]
      OBVIOUS
    <3>1. k + 1 \in 0 .. Keys /\ k + 1 # 0 /\ (k + 1) - 1 = k /\ g[k] = f[k]
      BY <2>2
    <3>2. F(g)[k + 1] = F(f)[k + 1]
      BY <3>1
    <3>3. QED BY <1>3, <1>4, <3>2
  <2>3. Nat \subseteq S
    <3> HIDE DEF S
    <3>1. QED BY <2>1, <2>2, AllNaturals
  <2>4. QED BY <2>3
<1>6. QED BY <1>2, <1>4, <1>5

(* The first k keys: what is sent of them, ascending and nothing else.     *)
Listed(c, headers, k) ==
  /\ \A i \in 1 .. Len(headers) : \E m \in 1 .. k : SentAt(c, m) /\ headers[i] = HeaderAt(c, m)
  /\ \A m \in 1 .. k : SentAt(c, m) => \E i \in 1 .. Len(headers) : headers[i] = HeaderAt(c, m)
  /\ \A i, j \in 1 .. Len(headers) : \A l, m \in 1 .. k :
       headers[i] = HeaderAt(c, l) /\ headers[j] = HeaderAt(c, m) /\ i < j => l < m

LEMMA ListedNext ==
  ASSUME NEW c, NEW k \in Nat, k + 1 <= Keys, NEW s \in Seq(AllHeaders(c)), Listed(c, s, k)
  PROVE  /\ SentAt(c, k + 1) => Listed(c, Append(s, HeaderAt(c, k + 1)), k + 1)
         /\ ~SentAt(c, k + 1) => Listed(c, s, k + 1)
<1>k. Keys \in Nat
  BY KeysDiffer
<1> USE <1>k
<1> DEFINE h == HeaderAt(c, k + 1)
           t == Append(s, h)
<1>1. \A m \in 1 .. k + 1 : m = k + 1 \/ m \in 1 .. k
  OBVIOUS
<1>2. \A m \in 1 .. k : m \in 1 .. k + 1 /\ m < k + 1
  OBVIOUS
<1>3. \A l, m \in 1 .. k + 1 : HeaderAt(c, l) = HeaderAt(c, m) => l = m
  <2> SUFFICES ASSUME NEW l \in 1 .. k + 1, NEW m \in 1 .. k + 1, HeaderAt(c, l) = HeaderAt(c, m)
               PROVE  l = m
    OBVIOUS
  <2>1. KeyOrder[l] = KeyOrder[m]
    BY KeyAt
  <2>2. l \in 1 .. Keys /\ m \in 1 .. Keys
    OBVIOUS
  <2>3. QED BY <2>1, <2>2, KeysDiffer
<1>4. \A i \in 1 .. Len(s) : \E m \in 1 .. k : SentAt(c, m) /\ s[i] = HeaderAt(c, m)
  BY DEF Listed
<1>5. \A m \in 1 .. k : SentAt(c, m) => \E i \in 1 .. Len(s) : s[i] = HeaderAt(c, m)
  BY DEF Listed
<1>6. \A i, j \in 1 .. Len(s) : \A l, m \in 1 .. k :
        s[i] = HeaderAt(c, l) /\ s[j] = HeaderAt(c, m) /\ i < j => l < m
  BY DEF Listed
<1>7. ASSUME NEW i \in 1 .. Len(s), NEW m \in 1 .. k + 1, s[i] = HeaderAt(c, m)
      PROVE  m \in 1 .. k
  BY <1>2, <1>3, <1>4, <1>7
<1>8. ASSUME SentAt(c, k + 1) PROVE Listed(c, t, k + 1)
  <2>1. /\ Len(t) = Len(s) + 1 /\ Len(s) \in Nat
        /\ t[Len(s) + 1] = h /\ \A i \in 1 .. Len(s) : t[i] = s[i]
    <3>1. h \in AllHeaders(c)
      BY DEF AllHeaders
    <3> HIDE DEF h
    <3>2. QED BY <3>1, AppendProperties
  <2> HIDE DEF t
  <2>2. \A i \in 1 .. Len(t) : i = Len(s) + 1 \/ i \in 1 .. Len(s)
    BY <2>1
  <2>3. ASSUME NEW i \in 1 .. Len(t)
        PROVE  \E m \in 1 .. k + 1 : SentAt(c, m) /\ t[i] = HeaderAt(c, m)
    <3>1. CASE i = Len(s) + 1
      BY <1>8, <2>1, <3>1
    <3>2. CASE i \in 1 .. Len(s)
      BY <1>2, <1>4, <2>1, <3>2
    <3>3. QED BY <2>2, <3>1, <3>2
  <2>4. ASSUME NEW m \in 1 .. k + 1, SentAt(c, m)
        PROVE  \E i \in 1 .. Len(t) : t[i] = HeaderAt(c, m)
    <3>1. CASE m = k + 1
      <4>1. Len(s) + 1 \in 1 .. Len(t)
        BY <2>1
      <4>2. QED BY <2>1, <3>1, <4>1
    <3>2. CASE m \in 1 .. k
      <4>1. PICK i \in 1 .. Len(s) : s[i] = HeaderAt(c, m)
        BY <1>5, <2>4, <3>2
      <4>2. i \in 1 .. Len(t)
        BY <2>1
      <4>3. QED BY <2>1, <4>1, <4>2
    <3>3. QED BY <1>1, <3>1, <3>2
  <2>5. ASSUME NEW i \in 1 .. Len(t), NEW j \in 1 .. Len(t),
               NEW l \in 1 .. k + 1, NEW m \in 1 .. k + 1,
               t[i] = HeaderAt(c, l), t[j] = HeaderAt(c, m), i < j
        PROVE  l < m
    <3>1. i \in 1 .. Len(s)
      BY <2>1, <2>2, <2>5
    <3>2. l \in 1 .. k
      BY <1>7, <2>1, <2>5, <3>1
    <3>3. CASE j = Len(s) + 1
      <4>1. HeaderAt(c, m) = HeaderAt(c, k + 1)
        BY <2>1, <2>5, <3>3
      <4>2. k + 1 \in 1 .. k + 1
        OBVIOUS
      <4>3. m = k + 1
        BY <1>3, <4>1, <4>2
      <4>4. QED BY <1>2, <3>2, <4>3
    <3>4. CASE j \in 1 .. Len(s)
      <4>1. m \in 1 .. k
        BY <1>7, <2>1, <2>5, <3>4
      <4>2. QED BY <1>6, <2>1, <2>5, <3>1, <3>2, <3>4, <4>1
    <3>5. QED BY <2>2, <3>3, <3>4
  <2>6. QED BY <2>3, <2>4, <2>5 DEF Listed
<1>9. ASSUME ~SentAt(c, k + 1) PROVE Listed(c, s, k + 1)
  <2>1. \A i \in 1 .. Len(s) : \E m \in 1 .. k + 1 : SentAt(c, m) /\ s[i] = HeaderAt(c, m)
    BY <1>2, <1>4
  <2>2. \A m \in 1 .. k + 1 : SentAt(c, m) => \E i \in 1 .. Len(s) : s[i] = HeaderAt(c, m)
    BY <1>1, <1>5, <1>9
  <2>3. \A i, j \in 1 .. Len(s) : \A l, m \in 1 .. k + 1 :
          s[i] = HeaderAt(c, l) /\ s[j] = HeaderAt(c, m) /\ i < j => l < m
    BY <1>6, <1>7
  <2>4. QED BY <2>1, <2>2, <2>3 DEF Listed
<1>10. QED BY <1>8, <1>9

LEMMA SetHeaders ==
  ASSUME NEW c
  PROVE  \E headers \in Seq(AllHeaders(c)) :
           /\ SetParameters(c) = Message("SET_PARAMETERS", headers, NoBody)
           /\ Listed(c, headers, Keys)
<1>k. Keys \in Nat
  BY KeysDiffer
<1> USE <1>k
<1>1. PICK f \in [0 .. Keys -> Seq(AllHeaders(c))] :
        /\ IsFold(f, Keys, <<>>, HeaderStep(c))
        /\ SetParameters(c) = Message("SET_PARAMETERS", f[Keys], NoBody)
  BY SetFold
<1> DEFINE S == {k \in Nat : k <= Keys => Listed(c, f[k], k)}
<1>2. 0 \in S
  <2>1. f[0] = <<>> /\ Len(<<>>) = 0
    BY <1>1 DEF IsFold
  <2>2. QED BY <2>1 DEF Listed
<1>3. ASSUME NEW k \in Nat, k \in S PROVE k + 1 \in S
  <2> SUFFICES ASSUME k + 1 <= Keys PROVE Listed(c, f[k + 1], k + 1)
    OBVIOUS
  <2>1. k \in 0 .. Keys /\ k + 1 \in 1 .. Keys /\ (k + 1) - 1 = k /\ Listed(c, f[k], k)
    BY <1>3
  <2>2. f[k] \in Seq(AllHeaders(c)) /\ <<f[k], k + 1>> \in Seq(AllHeaders(c)) \X (1 .. Keys)
    BY <2>1
  <2>3. f[k + 1] = HeaderStep(c)[<<f[k], k + 1>>]
    BY <1>1, <2>1 DEF IsFold
  <2>4. f[k + 1] = IF SentAt(c, k + 1) THEN Append(f[k], HeaderAt(c, k + 1)) ELSE f[k]
    BY <2>2, <2>3 DEF HeaderStep
  <2>5. QED BY <2>1, <2>2, <2>4, ListedNext
<1>4. Nat \subseteq S
  <2> HIDE DEF S
  <2>1. QED BY <1>2, <1>3, AllNaturals
<1>5. Listed(c, f[Keys], Keys) /\ f[Keys] \in Seq(AllHeaders(c))
  BY <1>4
<1>6. QED BY <1>1, <1>5

-----------------------------------------------------------------------------
(* What is read up to the first header that is not legal.                  *)

LEMMA PrefixRead ==
  ASSUME NEW V, NEW headers \in Seq(V)
  PROVE  LET read == HeadersRead(headers)
         IN /\ read \in Seq(V) /\ Len(read) <= Len(headers)
            /\ \A i \in 1 .. Len(read) : read[i] = headers[i]
            /\ \A i \in 1 .. Len(read) - 1 : Legal(headers[i].value)
            /\ \A k \in 1 .. Len(headers) :
                 (\A i \in 1 .. k : Legal(headers[i].value)) => k <= Len(read)
<1> DEFINE read == HeadersRead(headers)
           I == {i \in 1 .. Len(headers) : Refused(headers[i].value) \/ Bad(headers[i].value) # 0}
           stop == SelectInSeq(headers, LAMBDA h : Refused(h.value) \/ Bad(h.value) # 0)
           q == IF Refused(headers[stop].value) THEN stop - 1 ELSE stop
<1>1. Len(headers) \in Nat
  OBVIOUS
<1>2. stop = IF I # {} THEN Min(I) ELSE 0
  BY DEF SelectInSeq
<1>3. \A i \in 1 .. Len(headers) : i \in I <=> ~Legal(headers[i].value)
  BY DEF Legal
<1>4. IF I = {} THEN stop = 0 ELSE stop \in I /\ \A i \in I : stop <= i
  <2>1. I \in SUBSET (1 .. Len(headers))
    OBVIOUS
  <2> HIDE DEF I, stop
  <2>2. QED BY <1>1, <1>2, <2>1, FirstOf
<1>5. read = IF stop = 0 THEN headers ELSE SubSeq(headers, 1, q)
  BY DEF HeadersRead
<1>6. I \subseteq 1 .. Len(headers)
  OBVIOUS
<1> HIDE DEF I, stop, read
<1>7. CASE I = {}
  BY <1>1, <1>3, <1>4, <1>5, <1>7 DEF read
<1>8. CASE I # {}
  <2>1. stop \in 1 .. Len(headers) /\ stop \in I /\ \A i \in I : stop <= i
    BY <1>4, <1>6, <1>8
  <2>2. q \in 0 .. Len(headers) /\ stop - 1 <= q /\ q <= stop /\ q \in Int
    BY <1>1, <2>1
  <2>3. read = SubSeq(headers, 1, q)
    BY <1>5, <2>1
  <2> HIDE DEF q
  <2>4. /\ read \in Seq(V) /\ Len(read) = q
        /\ \A i \in 1 .. q : read[i] = headers[i]
    <3>1. \A i \in 1 .. q : headers[i] \in V
      BY <2>2
    <3>2. \A i \in 1 .. q : 1 + i - 1 = i
      BY <2>2
    <3>3. QED BY <2>2, <2>3, <3>1, <3>2, SubSeqProperties
  <2>5. ASSUME NEW i \in 1 .. q - 1 PROVE Legal(headers[i].value)
    <3>1. i \in 1 .. Len(headers) /\ ~(stop <= i)
      BY <1>1, <2>1, <2>2
    <3>2. QED BY <1>3, <2>1, <3>1
  <2>6. ASSUME NEW k \in 1 .. Len(headers), \A i \in 1 .. k : Legal(headers[i].value)
        PROVE  k <= q
    <3>1. ~(stop <= k)
      <4>1. ~Legal(headers[stop].value)
        BY <1>3, <2>1
      <4>2. stop \notin 1 .. k
        BY <2>6, <4>1
      <4>3. QED BY <1>1, <2>1, <4>2
    <3>2. QED BY <1>1, <2>1, <2>2, <3>1
  <2>7. QED BY <1>1, <2>2, <2>4, <2>5, <2>6 DEF read
<1>9. QED BY <1>7, <1>8

(* What is read of a key among headers of different keys.                  *)
LEMMA ToldOf ==
  ASSUME NEW V, NEW headers \in Seq(V), NEW k \in 1 .. Len(headers),
         \A i \in 1 .. k : Legal(headers[i].value),
         \A i \in 1 .. k - 1 : headers[i].key # headers[k].key
  PROVE  Get(Parse(Message("SET_PARAMETERS", headers, NoBody)), headers[k].key)
           = Token(headers[k].value)
<1> DEFINE read == HeadersRead(headers)
           heard == Parse(Message("SET_PARAMETERS", headers, NoBody))
<1>1. heard.headers = Inserted(read)
  BY DEF Parse, Message
<1>2. /\ read \in Seq(V) /\ Len(read) <= Len(headers)
      /\ \A i \in 1 .. Len(read) : read[i] = headers[i]
      /\ k <= Len(read)
  BY PrefixRead
<1> HIDE DEF read, heard
<1>3. k \in 1 .. Len(read) /\ \A i \in 1 .. k - 1 : i \in 1 .. Len(read)
  BY <1>2
<1>4. read[k] = headers[k] /\ \A i \in 1 .. k - 1 : read[i].key # read[k].key
  BY <1>2, <1>3
<1>5. Get(heard, read[k].key) = Token(read[k].value)
  BY <1>1, <1>2, <1>3, <1>4, KeyRead
<1>6. QED BY <1>4, <1>5 DEF heard

LEMMA NotTold ==
  ASSUME NEW V, NEW headers \in Seq(V), NEW key,
         \A k \in 1 .. Len(headers) :
           headers[k].key = key => \E i \in 1 .. k - 1 : ~Legal(headers[i].value)
  PROVE  Get(Parse(Message("SET_PARAMETERS", headers, NoBody)), key) = <<>>
<1> DEFINE read == HeadersRead(headers)
           heard == Parse(Message("SET_PARAMETERS", headers, NoBody))
<1>1. heard.headers = Inserted(read)
  BY DEF Parse, Message
<1>2. /\ read \in Seq(V) /\ Len(read) <= Len(headers)
      /\ \A i \in 1 .. Len(read) : read[i] = headers[i]
      /\ \A i \in 1 .. Len(read) - 1 : Legal(headers[i].value)
  BY PrefixRead
<1> HIDE DEF read, heard
<1>3. ASSUME NEW k \in 1 .. Len(read), read[k].key = key PROVE FALSE
  <2>1. k \in 1 .. Len(headers) /\ headers[k].key = key
    BY <1>2, <1>3
  <2>2. PICK i \in 1 .. k - 1 : ~Legal(headers[i].value)
    BY <2>1
  <2>3. i \in 1 .. Len(read) - 1
    BY <1>2
  <2>4. QED BY <1>2, <2>2, <2>3
<1>4. DOMAIN Inserted(read) = {read[i].key : i \in DOMAIN read} /\ DOMAIN read = 1 .. Len(read)
  BY <1>2 DEF Inserted
<1>5. key \notin DOMAIN heard.headers
  BY <1>1, <1>3, <1>4
<1>6. QED BY <1>5 DEF Get, heard

(* A text that can be read is read from its first word on.                 *)
LEMMA TextRead ==
  ASSUME NEW text \in Seq(Words)
  PROVE  /\ CannotBeRead(text) => ~Legal(text)
         /\ ~CannotBeRead(text) => Legal(text) /\ Arrives(Token(text), text)
<1>1. Len(text) \in Nat /\ Range(text) = {text[i] : i \in 1 .. Len(text)}
  BY DEF Range
<1>2. CASE Illegal \in Range(text)
  <2>1. Bad(text) \in 1 .. Len(text)
    BY <1>1, <1>2, FirstBad
  <2>2. Bad(text) # 0
    BY <1>1, <2>1
  <2>3. QED BY <1>2, <2>2 DEF Legal, CannotBeRead
<1>3. CASE Illegal \notin Range(text)
  <2>1. Bad(text) = 0
    <3>1. \A i \in 1 .. Len(text) : text[i] # Illegal
      BY <1>1, <1>3
    <3>2. QED BY <3>1, FirstBad
  <2> DEFINE rest(k) == SubSeq(text, k + 1, Len(text))
  <2>2. ASSUME NEW k \in 0 .. Len(text)
        PROVE  /\ rest(k) # <<>> <=> k < Len(text)
               /\ k < Len(text) => Head(rest(k)) = text[k + 1]
    <3> DEFINE m == k + 1
               r == SubSeq(text, m, Len(text))
    <3>1. m \in Int /\ Len(text) \in Int /\ (k < Len(text) <=> m <= Len(text))
          /\ (~(k < Len(text)) => Len(text) < m)
      BY <1>1
    <3>2. CASE k < Len(text)
      <4>1. m \in 1 .. Len(text) /\ Len(text) \in m .. Len(text)
        BY <1>1, <3>2
      <4>2. \A i \in m .. Len(text) : text[i] \in Words
        BY <1>1, <4>1
      <4> HIDE DEF m
      <4>3. Head(r) = text[m]
        BY <4>1, HeadTailOfSubSeq
      <4>4. r \in Seq(Words) /\ Len(r) = Len(text) - m + 1
        BY <3>1, <3>2, <4>2, SubSeqProperties
      <4>5. Len(text) - m + 1 # 0
        BY <1>1, <4>1
      <4> HIDE DEF r
      <4>6. r # <<>>
        BY <4>4, <4>5
      <4>7. QED BY <3>2, <4>3, <4>6 DEF r, m
    <3>3. CASE ~(k < Len(text))
      <4> HIDE DEF m
      <4>1. r = <<>>
        BY <3>1, <3>3, SubSeqEmpty
      <4>2. QED BY <3>3, <4>1 DEF r, m
    <3>4. QED BY <3>2, <3>3
  <2> HIDE DEF rest
  <2>3. PICK k \in 0 .. Len(text) :
          /\ \A i \in 1 .. k : text[i] = Space
          /\ k < Len(text) => text[k + 1] # Space
          /\ Token(text) = rest(k)
    <3>1. CASE \A i \in 1 .. Len(text) : text[i] = Space
      <4>1. First(text) = 0
        BY <3>1, FirstPiece
      <4>2. Len(text) \in 0 .. Len(text) /\ ~(Len(text) < Len(text))
        BY <1>1
      <4>3. rest(Len(text)) = <<>>
        BY <2>2, <4>2
      <4>4. Token(text) = rest(Len(text))
        BY <4>1, <4>3 DEF Token
      <4>5. QED BY <3>1, <4>2, <4>4
    <3>2. CASE ~\A i \in 1 .. Len(text) : text[i] = Space
      <4>1. /\ First(text) \in 1 .. Len(text) /\ text[First(text)] # Space
            /\ \A i \in 1 .. Len(text) : text[i] # Space => First(text) <= i
        BY <3>2, FirstPiece
      <4> DEFINE k == First(text) - 1
      <4>2. k \in 0 .. Len(text) /\ k + 1 = First(text) /\ First(text) # 0
        BY <1>1, <4>1
      <4>3. Token(text) = rest(k)
        BY <2>1, <4>2 DEF Token, rest
      <4>4. ASSUME NEW i \in 1 .. k PROVE text[i] = Space
        <5>1. i \in 1 .. Len(text) /\ ~(First(text) <= i)
          BY <1>1, <4>1
        <5>2. QED BY <4>1, <5>1
      <4> HIDE DEF k
      <4>5. QED BY <4>1, <4>2, <4>3, <4>4
    <3>3. QED BY <3>1, <3>2
  <2>4. Arrives(Token(text), text)
    <3>1. rest(k) # <<>> => Head(rest(k)) # Space
      BY <2>2, <2>3
    <3>2. QED BY <2>3, <3>1 DEF Arrives, rest
  <2>5. ASSUME NEW told, Arrives(told, text) PROVE told = Token(text)
    <3>1. PICK j \in 0 .. Len(text) :
            /\ \A i \in 1 .. j : text[i] = Space
            /\ told = rest(j) /\ (told # <<>> => Head(told) # Space)
      BY <2>5 DEF Arrives, rest
    <3>2. j < Len(text) => text[j + 1] # Space
      BY <2>2, <3>1
    <3>3. ~(j < k)
      <4>1. SUFFICES ASSUME j < k PROVE FALSE
        OBVIOUS
      <4>2. j + 1 \in 1 .. k /\ j < Len(text)
        BY <1>1, <4>1
      <4>3. QED BY <2>3, <3>2, <4>2
    <3>4. ~(k < j)
      <4>1. SUFFICES ASSUME k < j PROVE FALSE
        OBVIOUS
      <4>2. k + 1 \in 1 .. j /\ k < Len(text)
        BY <1>1, <4>1
      <4>3. QED BY <2>3, <3>1, <4>2
    <3>5. j = k
      BY <1>1, <3>3, <3>4
    <3>6. QED BY <2>3, <3>1, <3>5
  <2>6. Refused(text) <=> Arrives(<<"ASR">>, text)
    BY <2>1, <2>4, <2>5 DEF Refused
  <2>7. QED BY <1>3, <2>1, <2>4, <2>6 DEF Legal, CannotBeRead
<1>4. QED BY <1>2, <1>3

-----------------------------------------------------------------------------
(* The configuration that is built is what the program wants.              *)
LEMMA EmptyFits == \A p \in Parameters : Fits(p, Empty(p))
<1> SUFFICES ASSUME NEW p \in Parameters PROVE Fits(p, Empty(p))
  OBVIOUS
<1>1. 0 \in 0 .. MaxNumber
  BY NumeralsAssumption
<1>2. <<>> \in Seq(Words)
  OBVIOUS
<1>3. CASE p \in Numbers
  BY <1>1, <1>3, Kinds DEF Fits, Empty
<1>4. CASE p \in Switches
  BY <1>4, Kinds DEF Fits, Empty
<1>5. CASE p \in Texts
  BY <1>2, <1>5, Kinds DEF Fits, Empty
<1>6. QED BY <1>3, <1>4, <1>5, Kinds

(* But for three parameters the code reads the documented variable.        *)
LEMMA SameVariable ==
  ASSUME NEW p \in Parameters, p \notin Misnamed
  PROVE  Variable[p] = Documented[p]
BY DEF Parameters, Numbers, Switches, Texts, Misnamed, Variable, Documented

(* The configuration that is built holds what is wanted of every parameter *)
(* but those that are misread, and these are of their types, too.          *)
LEMMA BuiltAsWanted ==
  ASSUME program \in Programs
  PROVE  \A p \in Parameters :
           /\ Fits(p, Configuration[p])
           /\ ~IsMisread(p) => Configuration[p] = Wanted(p)
<1> SUFFICES ASSUME NEW p \in Parameters
             PROVE  /\ Fits(p, Configuration[p])
                    /\ ~IsMisread(p) => Configuration[p] = Wanted(p)
  OBVIOUS
<1> DEFINE own == IF p \in DOMAIN program.chosen THEN program.chosen[p] ELSE Defaults[p]
           said == Reading(p, program.env[Variable[p]])
           meant == AsDocumented(p, program.env[Documented[p]])
<1>1. Fits(p, Defaults[p])
  <2>1. Defaults[p] = IF p = "maxSentences" THEN 1 ELSE Empty(p)
    BY DEF Defaults
  <2>2. Fits("maxSentences", 1)
    <3>1. 1 \in 0 .. MaxNumber
      BY NumeralsAssumption
    <3>2. "maxSentences" \in Numbers /\ "maxSentences" \in Parameters
      BY DEF Parameters, Numbers
    <3>3. QED BY <3>1, <3>2, Kinds DEF Fits
  <2>3. QED BY <2>1, <2>2, EmptyFits
<1>2. Fits(p, own)
  BY <1>1, ParametersAssumption
<1>3. Variable[p] \in DOMAIN program.env => Fits(p, said)
  BY ParametersAssumption
<1>4. Config(program.chosen)[p] = own
  BY DEF Config
<1>5. Configuration[p] = IF program.reads
                         THEN IF Variable[p] \in DOMAIN program.env THEN said
                              ELSE IF program.replaceEmpty THEN Empty(p) ELSE own
                         ELSE own
  <2> HIDE DEF own, said
  <2>1. QED BY <1>4 DEF Configuration, GetConfigFromEnvironment, said
<1>6. Wanted(p) = IF program.reads /\ Documented[p] \in DOMAIN program.env THEN meant
                  ELSE IF program.reads /\ program.replaceEmpty THEN Empty(p) ELSE own
  BY DEF Wanted
<1>7. Fits(p, Configuration[p])
  <2> HIDE DEF own, said
  <2>1. QED BY <1>2, <1>3, <1>5, EmptyFits
<1>8. ASSUME ~IsMisread(p), program.reads,
             Variable[p] \in DOMAIN program.env \/ Documented[p] \in DOMAIN program.env
      PROVE  Variable[p] = Documented[p] /\ said = meant
  <2>1. Variable[p] = Documented[p]
    BY <1>8, SameVariable DEF IsMisread
  <2>2. Fits(p, said)
    BY <1>3, <1>8, <2>1
  <2>3. CASE p \in Switches
    <3>1. p \notin Numbers
      BY <2>3, Kinds
    <3>2. said = program.env[Documented[p]].true /\ meant = TRUE
      BY <2>1, <2>3, <3>1 DEF Reading, AsDocumented
    <3>3. program.env[Documented[p]].true
      BY <1>8, <2>1, <2>3 DEF IsMisread
    <3>4. said \in BOOLEAN
      BY <2>2, <2>3 DEF Fits
    <3>5. QED BY <2>1, <3>2, <3>3, <3>4
  <2>4. CASE p \notin Switches
    BY <2>1, <2>4 DEF Reading, AsDocumented
  <2>5. QED BY <2>3, <2>4
<1> HIDE DEF own, said, meant
<1>9. QED BY <1>5, <1>6, <1>7, <1>8

(* Texts are never misread and depend on nothing.                          *)
LEMMA TextsWanted ==
  ASSUME program \in Programs, NEW q \in Texts
  PROVE  /\ q \in Parameters /\ ~Misread(q) /\ InForce(q)
         /\ Configuration[q] = Wanted(q)
<1>1. q \in Parameters /\ q \notin Switches
  BY Kinds DEF Parameters
<1>2. q \notin DOMAIN Depends /\ q \notin Misnamed
  BY DEF Depends, Misnamed, Texts
<1>3. ~IsMisread(q)
  BY <1>1, <1>2 DEF IsMisread
<1>4. QED BY <1>1, <1>2, <1>3, BuiltAsWanted DEF Misread, InForce

LEMMA Dependence ==
  ASSUME NEW parameter, NEW on, NEW being, parameter = [on |-> on, being |-> being]
  PROVE  parameter.on = on /\ parameter.being = being
  OBVIOUS

(* A parameter is sent if it is wanted, not empty, and in force.           *)
LEMMA SentWhenWanted ==
  ASSUME program \in Programs, NEW p \in Parameters, ~Misread(p)
  PROVE  IsSent(Configuration, p) <=> Wanted(p) # Empty(p) /\ InForce(p)
<1>1. /\ {"noInputTimeoutEnabled", "recognitionTimeoutEnabled"} \subseteq Switches
      /\ "endpointerLevelMode" \in Numbers
      /\ Switches \subseteq Parameters /\ Numbers \subseteq Parameters
  BY DEF Parameters, Numbers, Switches
<1>2. /\ Configuration.noInputTimeoutEnabled \in BOOLEAN
      /\ Configuration.recognitionTimeoutEnabled \in BOOLEAN
  BY <1>1, BuiltAsWanted DEF Fits
<1>d. /\ DOMAIN Depends = {"noInputTimeoutMilliseconds", "recognitionTimeoutSeconds",
                           "endpointerAutoLevelLen", "endpointerLevelThreshold"}
      /\ Depends["noInputTimeoutMilliseconds"] = [on |-> "noInputTimeoutEnabled", being |-> {TRUE}]
      /\ Depends["recognitionTimeoutSeconds"] = [on |-> "recognitionTimeoutEnabled", being |-> {TRUE}]
      /\ Depends["endpointerAutoLevelLen"] = [on |-> "endpointerLevelMode", being |-> {1}]
      /\ Depends["endpointerLevelThreshold"] = [on |-> "endpointerLevelMode", being |-> {2}]
  BY DEF Depends
<1>o. /\ Depends["noInputTimeoutMilliseconds"].on = "noInputTimeoutEnabled"
      /\ Depends["recognitionTimeoutSeconds"].on = "recognitionTimeoutEnabled"
      /\ Depends["endpointerAutoLevelLen"].on = "endpointerLevelMode"
      /\ Depends["endpointerLevelThreshold"].on = "endpointerLevelMode"
  BY <1>d, Dependence
<1>r. ~IsMisread(p) /\ (p \in DOMAIN Depends => ~IsMisread(Depends[p].on))
  BY DEF Misread
<1>3. /\ Configuration[p] = Wanted(p)
      /\ p = "noInputTimeoutMilliseconds" =>
           Configuration.noInputTimeoutEnabled = Wanted("noInputTimeoutEnabled")
      /\ p = "recognitionTimeoutSeconds" =>
           Configuration.recognitionTimeoutEnabled = Wanted("recognitionTimeoutEnabled")
      /\ p \in {"endpointerAutoLevelLen", "endpointerLevelThreshold"} =>
           Configuration.endpointerLevelMode = Wanted("endpointerLevelMode")
  <2>1. Configuration[p] = Wanted(p)
    BY <1>r, BuiltAsWanted
  <2>2. ASSUME NEW q \in Parameters, ~IsMisread(q) PROVE Configuration[q] = Wanted(q)
    BY <2>2, BuiltAsWanted
  <2>3. p = "noInputTimeoutMilliseconds" => ~IsMisread("noInputTimeoutEnabled")
    BY <1>d, <1>o, <1>r
  <2>4. p = "recognitionTimeoutSeconds" => ~IsMisread("recognitionTimeoutEnabled")
    BY <1>d, <1>o, <1>r
  <2>5. p \in {"endpointerAutoLevelLen", "endpointerLevelThreshold"} =>
          ~IsMisread("endpointerLevelMode")
    BY <1>d, <1>o, <1>r
  <2>6. QED BY <1>1, <2>1, <2>2, <2>3, <2>4, <2>5
<1>4. IsSent(Configuration, p) <=>
        /\ Wanted(p) # Empty(p)
        /\ p = "noInputTimeoutMilliseconds" => Wanted("noInputTimeoutEnabled") = TRUE
        /\ p = "recognitionTimeoutSeconds" => Wanted("recognitionTimeoutEnabled") = TRUE
        /\ p = "endpointerAutoLevelLen" => Wanted("endpointerLevelMode") = 1
        /\ p = "endpointerLevelThreshold" => Wanted("endpointerLevelMode") = 2
  <2>1. IsSent(Configuration, p) <=>
          /\ Configuration[p] # Empty(p)
          /\ p = "noInputTimeoutMilliseconds" => Configuration.noInputTimeoutEnabled = TRUE
          /\ p = "recognitionTimeoutSeconds" => Configuration.recognitionTimeoutEnabled = TRUE
          /\ p = "endpointerAutoLevelLen" => Configuration.endpointerLevelMode = 1
          /\ p = "endpointerLevelThreshold" => Configuration.endpointerLevelMode = 2
    BY <1>2, Zenon DEF IsSent
  <2>2. QED BY <1>3, <2>1, Zenon
<1>5. InForce(p) <=>
        /\ p = "noInputTimeoutMilliseconds" => Wanted("noInputTimeoutEnabled") = TRUE
        /\ p = "recognitionTimeoutSeconds" => Wanted("recognitionTimeoutEnabled") = TRUE
        /\ p = "endpointerAutoLevelLen" => Wanted("endpointerLevelMode") = 1
        /\ p = "endpointerLevelThreshold" => Wanted("endpointerLevelMode") = 2
  <2>1. /\ DOMAIN Depends = {"noInputTimeoutMilliseconds", "recognitionTimeoutSeconds",
                             "endpointerAutoLevelLen", "endpointerLevelThreshold"}
        /\ Depends["noInputTimeoutMilliseconds"] = [on |-> "noInputTimeoutEnabled", being |-> {TRUE}]
        /\ Depends["recognitionTimeoutSeconds"] = [on |-> "recognitionTimeoutEnabled", being |-> {TRUE}]
        /\ Depends["endpointerAutoLevelLen"] = [on |-> "endpointerLevelMode", being |-> {1}]
        /\ Depends["endpointerLevelThreshold"] = [on |-> "endpointerLevelMode", being |-> {2}]
    BY <1>d
  <2>2. p \in DOMAIN Depends => (InForce(p) <=> Wanted(Depends[p].on) \in Depends[p].being)
    BY DEF InForce
  <2>3. p \notin DOMAIN Depends => InForce(p)
    BY DEF InForce
  <2>4. CASE p = "noInputTimeoutMilliseconds"
    <3>1. p \in DOMAIN Depends
      BY <2>1, <2>4
    <3>2. Depends[p] = [on |-> "noInputTimeoutEnabled", being |-> {TRUE}]
      BY <2>1, <2>4, Zenon
    <3>3. Depends[p].on = "noInputTimeoutEnabled" /\ Depends[p].being = {TRUE}
      BY <3>2, Dependence, Zenon
    <3>4. InForce(p) <=> Wanted("noInputTimeoutEnabled") = TRUE
      BY <2>2, <3>1, <3>3, Zenon
    <3>5. QED BY <2>4, <3>4
  <2>5. CASE p = "recognitionTimeoutSeconds"
    <3>1. p \in DOMAIN Depends
      BY <2>1, <2>5
    <3>2. Depends[p] = [on |-> "recognitionTimeoutEnabled", being |-> {TRUE}]
      BY <2>1, <2>5, Zenon
    <3>3. Depends[p].on = "recognitionTimeoutEnabled" /\ Depends[p].being = {TRUE}
      BY <3>2, Dependence, Zenon
    <3>4. InForce(p) <=> Wanted("recognitionTimeoutEnabled") = TRUE
      BY <2>2, <3>1, <3>3, Zenon
    <3>5. QED BY <2>5, <3>4
  <2>6. CASE p = "endpointerAutoLevelLen"
    BY <2>1, <2>2, <2>6
  <2>7. CASE p = "endpointerLevelThreshold"
    BY <2>1, <2>2, <2>7
  <2>8. CASE p \notin DOMAIN Depends
    BY <2>1, <2>3, <2>8
  <2>9. QED BY <2>1, <2>4, <2>5, <2>6, <2>7, <2>8
<1>6. QED BY <1>4, <1>5

(* A text without words arrives as such.                                   *)
LEMMA NoTextRead == ~CannotBeRead(<<>>) /\ Arrives(<<>>, <<>>)
<1>1. Len(<<>>) = 0 /\ 0 \in Int /\ 1 \in Int /\ 0 < 1 /\ 0 + 1 = 1
  OBVIOUS
<1>2. SubSeq(<<>>, 1, 0) = <<>>
  BY <1>1, SubSeqEmpty
<1>3. \A k \in 0 .. 0 : k = 0
  OBVIOUS
<1>4. <<>> # <<"ASR">>
  OBVIOUS
<1>5. ~Arrives(<<"ASR">>, <<>>)
  BY <1>1, <1>2, <1>3, <1>4 DEF Arrives
<1>6. Illegal \notin Range(<<>>)
  BY DEF Range
<1>7. Arrives(<<>>, <<>>)
  <2>1. 0 \in 0 .. Len(<<>>) /\ \A i \in 1 .. 0 : <<>>[i] = Space
    BY <1>1
  <2>2. <<>> = SubSeq(<<>>, 0 + 1, Len(<<>>))
    BY <1>1, <1>2
  <2>3. QED BY <2>1, <2>2 DEF Arrives
<1>8. QED BY <1>5, <1>6, <1>7 DEF CannotBeRead

(* What is written of a parameter that is sent, and read of that again.    *)
LEMMA Written ==
  ASSUME program \in Programs, NEW p \in Parameters, Configuration[p] # Empty(p)
  PROVE  LET v == Configuration[p]
             text == TextOf(p, v)
         IN /\ p \in Texts /\ CannotBeRead(v) => ~Legal(text)
            /\ ~(p \in Texts /\ CannotBeRead(v)) => Legal(text)
            /\ p \in Texts /\ ~CannotBeRead(v) => Arrives(Token(text), v)
            /\ p \notin Texts =>
                 /\ Token(text) = text /\ text # <<>>
                 /\ (IF p \in Switches THEN TRUE
                     ELSE CHOOSE k \in 1 .. MaxNumber : Numeral[k] = Head(text)) = v
<1> DEFINE v == Configuration[p]
           text == TextOf(p, v)
<1>1. Fits(p, v)
  BY BuiltAsWanted
<1>2. CASE p \in Numbers
  <2>1. p \notin Texts /\ p \notin Switches
    BY <1>2, Kinds
  <2>2. v \in 1 .. MaxNumber /\ v \in 0 .. MaxNumber
    BY <1>1, <1>2, NumeralsAssumption DEF Fits, Empty
  <2>3. text = <<Numeral[v]>>
    BY <1>1, <1>2 DEF TextOf
  <2>4. IsWord(Numeral[v])
    BY <2>2, NumeralsAssumption DEF IsWord
  <2>5. Legal(text) /\ Token(text) = text
    BY <2>3, <2>4, WordAlone
  <2>6. text # <<>> /\ Head(text) = Numeral[v]
    BY <2>3
  <2> HIDE DEF text, v
  <2>7. (CHOOSE k \in 1 .. MaxNumber : Numeral[k] = Head(text)) = v
    <3>1. \A k \in 1 .. MaxNumber : Numeral[k] = Head(text) <=> k = v
      BY <2>2, <2>6, NumeralsAssumption
    <3>2. QED BY <2>2, <3>1
  <2>8. QED BY <2>1, <2>5, <2>6, <2>7 DEF text, v
<1>3. CASE p \in Switches
  <2>1. p \notin Texts /\ p \notin Numbers
    BY <1>3, Kinds
  <2>2. v = TRUE
    BY <1>1, <1>3, <2>1 DEF Fits, Empty
  <2>3. text = <<IF p \in Spelled THEN "true" ELSE "1">>
    BY <1>1, <1>3, <2>1 DEF TextOf
  <2>4. IsWord("true") /\ IsWord("1")
    BY DEF IsWord, Space, Illegal
  <2>5. Legal(text) /\ Token(text) = text
    BY <2>3, <2>4, WordAlone
  <2>6. text # <<>>
    BY <2>3
  <2>7. QED BY <1>3, <2>1, <2>2, <2>5, <2>6
<1>4. CASE p \in Texts
  <2>1. p \notin Switches /\ p \notin Numbers
    BY <1>4, Kinds
  <2>2. text = v /\ v \in Seq(Words)
    BY <1>1, <1>4, <2>1 DEF TextOf, Fits
  <2> HIDE DEF text, v
  <2>3. /\ CannotBeRead(v) => ~Legal(v)
        /\ ~CannotBeRead(v) => Legal(v) /\ Arrives(Token(v), v)
    BY <2>2, TextRead
  <2>4. QED BY <1>4, <2>2, <2>3 DEF text, v
<1>5. QED BY <1>2, <1>3, <1>4, Kinds

-----------------------------------------------------------------------------
(* Who was sent these headers was told the parameters.                     *)
ToldAll == mock.params = Parse(SetParameters(Configuration)).headers

LEMMA ToldRight ==
  ASSUME program \in Programs, ToldAll
  PROVE  \A p \in Parameters : Misread(p) \/ Heard(p)
<1> SUFFICES ASSUME NEW p \in Parameters, ~Misread(p) PROVE Heard(p)
  OBVIOUS
<1>0. SUFFICES IF LostWithText(p) THEN p \in Texts \/ Told(p) = Empty(p)
               ELSE IF p \in Texts THEN Arrives(Told(p), Wanted(p))
               ELSE Told(p) = IF InForce(p) THEN Wanted(p) ELSE Empty(p)
  BY DEF Heard
<1> DEFINE c == Configuration
           heard == Parse(SetParameters(c))
           text == Get(heard, HeaderOf[p])
<1>1. PICK headers \in Seq(AllHeaders(c)) :
        /\ SetParameters(c) = Message("SET_PARAMETERS", headers, NoBody)
        /\ Listed(c, headers, Keys)
  BY SetHeaders
<1>2. Told(p) = IF text = <<>> THEN Empty(p)
                ELSE IF p \in Texts THEN text
                ELSE IF p \in Switches THEN TRUE
                ELSE CHOOSE k \in 1 .. MaxNumber : Numeral[k] = Head(text)
  BY DEF Told, Get, ToldAll
<1> HIDE DEF text, heard, c
<1>k. Keys \in Nat
  BY KeysDiffer
(* Of each parameter, where it is written, and whether it can be read.     *)
<1>3. ASSUME NEW q \in Parameters
      PROVE  /\ Place[q] \in 1 .. Keys
             /\ SentAt(c, Place[q]) <=> IsSent(c, q)
             /\ HeaderAt(c, Place[q]).key = HeaderOf[q]
             /\ HeaderAt(c, Place[q]).value = TextOf(q, c[q])
  BY Places, ParameterOfHeader DEF SentAt, HeaderAt, Header
<1>4. ASSUME NEW i \in 1 .. Len(headers)
      PROVE  \E q \in Parameters : IsSent(c, q) /\ headers[i] = HeaderAt(c, Place[q])
  <2>1. PICK m \in 1 .. Keys : SentAt(c, m) /\ headers[i] = HeaderAt(c, m)
    BY <1>1 DEF Listed
  <2>2. PICK q \in Parameters : KeyOrder[m] = HeaderOf[q]
    BY <2>1, ParameterOfHeader DEF SentAt
  <2>3. m = Place[q]
    BY <1>3, <2>2, Places, KeysDiffer
  <2>4. QED BY <1>3, <2>1, <2>3
<1>5. ASSUME NEW q \in Parameters, IsSent(c, q)
      PROVE  \E i \in 1 .. Len(headers) : headers[i] = HeaderAt(c, Place[q])
  BY <1>1, <1>3, <1>5 DEF Listed
<1>6. ASSUME NEW i \in 1 .. Len(headers), NEW j \in 1 .. Len(headers),
             NEW q \in Parameters, NEW r \in Parameters,
             headers[i] = HeaderAt(c, Place[q]), headers[j] = HeaderAt(c, Place[r]), i < j
      PROVE  Place[q] < Place[r]
  BY <1>1, <1>3, <1>6 DEF Listed
<1>7. \A q, r \in Parameters : Place[q] = Place[r] => q = r
  BY Places, HeadersDiffer
<1>8. ASSUME NEW i \in 1 .. Len(headers), NEW q \in Parameters, NEW r \in Parameters,
             headers[i] = HeaderAt(c, Place[q]), headers[i].key = HeaderOf[r]
      PROVE  q = r
  BY <1>3, <1>8, HeadersDiffer
<1>p. c[p] = Wanted(p)
  BY BuiltAsWanted DEF c, Misread
<1>9. ASSUME NEW q \in Parameters, IsSent(c, q)
      PROVE  /\ c[q] # Empty(q)
             /\ ~Legal(TextOf(q, c[q])) => q \in Texts /\ CannotBeRead(Wanted(q))
  <2>1. c[q] # Empty(q)
    BY <1>9 DEF IsSent
  <2>2. ~Legal(TextOf(q, c[q])) => q \in Texts /\ CannotBeRead(c[q])
    BY <2>1, Written DEF c
  <2>3. QED BY <2>1, <2>2, TextsWanted DEF c
<1>10. Len(headers) \in Nat
  OBVIOUS
<1>11. CASE LostWithText(p) /\ p \notin Texts
  <2>1. PICK q \in Texts : CannotBeRead(Wanted(q)) /\ Place[q] <= Place[p]
    BY <1>11 DEF LostWithText
  <2>2. q \in Parameters /\ q # p /\ Place[q] < Place[p]
    <3>1. q \in Parameters /\ q # p
      BY <1>11 DEF Parameters
    <3>2. QED BY <1>3, <1>7, <1>k, <2>1, <3>1
  <2>3. Wanted(q) # Empty(q) /\ IsSent(c, q)
    <3>1. Wanted(q) # <<>>
      BY <2>1, NoTextRead
    <3>2. Empty(q) = <<>>
      BY <2>2, Kinds DEF Empty
    <3>3. InForce(q) /\ ~Misread(q)
      BY TextsWanted
    <3>4. QED BY <2>2, <3>1, <3>2, <3>3, SentWhenWanted DEF c
  <2>4. ~Legal(TextOf(q, c[q]))
    <3>1. c[q] = Wanted(q)
      BY TextsWanted DEF c
    <3>2. QED BY <2>1, <2>2, <2>3, <3>1, Written DEF c
  <2>5. PICK i \in 1 .. Len(headers) : headers[i] = HeaderAt(c, Place[q])
    BY <1>5, <2>2, <2>3
  <2>6. ~Legal(headers[i].value)
    BY <1>3, <2>2, <2>4, <2>5
  <2>7. ASSUME NEW k \in 1 .. Len(headers), headers[k].key = HeaderOf[p]
        PROVE  \E j \in 1 .. k - 1 : ~Legal(headers[j].value)
    <3>1. PICK r \in Parameters : headers[k] = HeaderAt(c, Place[r])
      BY <1>4
    <3>2. headers[k] = HeaderAt(c, Place[p])
      BY <1>8, <2>7, <3>1
    <3>3. i # k
      <4>1. headers[i].key = HeaderOf[q]
        BY <1>3, <2>2, <2>5
      <4>2. QED BY <2>2, <2>7, <4>1, HeadersDiffer
    <3>4. ~(k < i)
      <4>1. ~(Place[p] < Place[q])
        BY <1>3, <1>k, <2>2
      <4>2. QED BY <1>6, <2>2, <2>5, <3>2, <4>1
    <3>5. i \in 1 .. k - 1
      BY <1>10, <3>3, <3>4
    <3>6. QED BY <2>6, <3>5
  <2>8. text = <<>>
    BY <1>1, <2>7, NotTold DEF text, heard
  <2>9. QED BY <1>2, <1>11, <2>8
<1>12. CASE ~LostWithText(p) /\ ~IsSent(c, p)
  <2>1. ASSUME NEW k \in 1 .. Len(headers), headers[k].key = HeaderOf[p] PROVE FALSE
    <3>1. PICK q \in Parameters : IsSent(c, q) /\ headers[k] = HeaderAt(c, Place[q])
      BY <1>4
    <3>2. q = p
      BY <1>8, <2>1, <3>1
    <3>3. QED BY <1>12, <3>1, <3>2
  <2>2. text = <<>>
    BY <1>1, <2>1, NotTold DEF text, heard
  <2>3. ~InForce(p) \/ Wanted(p) = Empty(p)
    BY <1>12, SentWhenWanted DEF c
  <2>4. Told(p) = Empty(p)
    BY <1>2, <2>2
  <2>5. CASE p \in Texts
    <3>1. InForce(p)
      BY <2>5 DEF InForce, Depends, Texts
    <3>2. Empty(p) = <<>>
      BY <2>5, Kinds DEF Empty
    <3>3. QED BY <1>12, <2>3, <2>4, <2>5, <3>1, <3>2, NoTextRead
  <2>6. CASE p \notin Texts
    BY <1>12, <2>3, <2>4, <2>6
  <2>7. QED BY <2>5, <2>6
<1>13. CASE ~LostWithText(p) /\ IsSent(c, p)
  <2>1. PICK at \in 1 .. Len(headers) : headers[at] = HeaderAt(c, Place[p])
    BY <1>5, <1>13
  <2>2. headers[at].key = HeaderOf[p] /\ headers[at].value = TextOf(p, c[p])
    BY <1>3, <2>1
  <2>3. ASSUME NEW i \in 1 .. at
        PROVE  \E q \in Parameters : /\ IsSent(c, q) /\ Place[q] <= Place[p]
                                     /\ headers[i] = HeaderAt(c, Place[q])
    <3>1. i \in 1 .. Len(headers) /\ (i = at \/ i < at)
      BY <1>10
    <3>2. CASE i = at
      <4>1. Place[p] <= Place[p]
        BY <1>3, <1>k
      <4>2. QED BY <1>13, <2>1, <3>2, <4>1
    <3>3. CASE i < at
      <4>1. PICK q \in Parameters : IsSent(c, q) /\ headers[i] = HeaderAt(c, Place[q])
        BY <1>4, <3>1
      <4>2. Place[q] < Place[p]
        BY <1>6, <2>1, <3>1, <3>3, <4>1
      <4>3. Place[q] <= Place[p]
        BY <1>3, <1>k, <4>2
      <4>4. QED BY <4>1, <4>3
    <3>4. QED BY <3>1, <3>2, <3>3
  <2>4. ASSUME NEW i \in 1 .. at PROVE Legal(headers[i].value)
    <3>1. PICK q \in Parameters : /\ IsSent(c, q) /\ Place[q] <= Place[p]
                                  /\ headers[i] = HeaderAt(c, Place[q])
      BY <2>3
    <3>2. ~(q \in Texts /\ CannotBeRead(Wanted(q)))
      BY <1>13, <3>1 DEF LostWithText
    <3>3. QED BY <1>3, <1>9, <3>1, <3>2
  <2>5. ASSUME NEW i \in 1 .. at - 1 PROVE headers[i].key # headers[at].key
    <3>1. i \in 1 .. Len(headers) /\ i < at
      BY <1>10
    <3>2. PICK q \in Parameters : headers[i] = HeaderAt(c, Place[q])
      BY <1>4, <3>1
    <3>3. Place[q] < Place[p]
      BY <1>6, <2>1, <3>1, <3>2
    <3>4. q # p
      BY <1>3, <1>k, <3>3
    <3>5. QED BY <1>8, <2>2, <3>1, <3>2, <3>4
  <2>6. text = Token(TextOf(p, c[p]))
    BY <1>1, <2>2, <2>4, <2>5, ToldOf DEF text, heard
  <2>7. ~(p \in Texts /\ CannotBeRead(Wanted(p)))
    <3>1. Place[p] <= Place[p]
      BY <1>3, <1>k
    <3>2. QED BY <1>13, <3>1 DEF LostWithText
  <2>8. InForce(p) /\ Wanted(p) # Empty(p)
    BY <1>13, SentWhenWanted DEF c
  <2>9. CASE p \in Texts
    <3>1. Arrives(text, Wanted(p))
      BY <1>p, <2>6, <2>7, <2>8, <2>9, Written DEF c
    <3>2. Empty(p) = <<>>
      BY <2>9, Kinds DEF Empty
    <3>3. Told(p) = text
      BY <1>2, <2>9, <3>2
    <3>4. QED BY <1>13, <2>9, <3>1, <3>3
  <2>10. CASE p \notin Texts
    <3>1. /\ text = TextOf(p, c[p]) /\ text # <<>>
          /\ (IF p \in Switches THEN TRUE
              ELSE CHOOSE k \in 1 .. MaxNumber : Numeral[k] = Head(text)) = Wanted(p)
      BY <1>p, <2>6, <2>8, <2>10, Written, Zenon DEF c
    <3>2. Told(p) = Wanted(p)
      <4>1. CASE p \in Switches
        BY <1>2, <2>10, <3>1, <4>1, Zenon
      <4>2. CASE p \notin Switches
        BY <1>2, <2>10, <3>1, <4>2
      <4>3. QED BY <4>1, <4>2
    <3>3. QED BY <1>13, <2>8, <2>10, <3>2, Zenon
  <2>11. QED BY <2>9, <2>10
<1>14. QED BY <1>11, <1>12, <1>13
=============================================================================
