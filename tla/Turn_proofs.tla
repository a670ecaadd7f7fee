----------------------------- MODULE Turn_proofs -----------------------------
(***************************************************************************)
(* The prompts of the agent runner's query and the two queues the loop     *)
(* matches results with, for any providers and any number of prompts.      *)
(*                                                                         *)
(* What is outstanding changes in three ways: a prompt comes in, a prompt  *)
(* leaves, or the one being handled goes back behind those asked meanwhile,*)
(* which is a leaving and a coming in. The first lemmas say what that does *)
(* to a sequence, wherever in it it happens; the invariant adds to         *)
(* PromptsMatch what makes it inductive: no absorbed prompt is outstanding,*)
(* a follow-up is not yet one of the query's, and when no stream is read   *)
(* there is neither a follow-up nor an answer to handle.                   *)
(***************************************************************************)
EXTENDS Turn, SequenceTheorems, FiniteSetTheorems, TLAPS

(* Sequences of prompts *)

Items(q) == {q[i] : i \in DOMAIN q}
Distinct(q) == \A i, j \in DOMAIN q : q[i] = q[j] => i = j

\* What is outstanding: the prompt handled, those asked, those steered.
Out(h, a, s) == (IF h = None THEN <<>> ELSE <<h>>) \o a \o s

\* q is r without the place k.
LEMMA Embedded ==
    ASSUME NEW q, NEW r, NEW k \in DOMAIN r, NEW up \in [DOMAIN q -> DOMAIN r \ {k}],
           \A i, j \in DOMAIN q : up[i] = up[j] => i = j,
           \A j \in DOMAIN r \ {k} : \E i \in DOMAIN q : up[i] = j,
           \A i \in DOMAIN q : q[i] = r[up[i]]
    PROVE  /\ Items(r) = Items(q) \union {r[k]}
           /\ Distinct(r) <=> Distinct(q) /\ r[k] \notin Items(q)
<1>1. Items(r) = Items(q) \union {r[k]}
  BY DEF Items
<1>2. ASSUME Distinct(r) PROVE Distinct(q) /\ r[k] \notin Items(q)
  <2>1. ASSUME NEW i \in DOMAIN q, NEW j \in DOMAIN q, q[i] = q[j] PROVE i = j
    <3>1. up[i] \in DOMAIN r /\ up[j] \in DOMAIN r /\ r[up[i]] = r[up[j]]
      BY <2>1
    <3>2. up[i] = up[j]
      BY <1>2, <3>1 DEF Distinct
    <3> QED BY <3>2
  <2>2. ASSUME NEW i \in DOMAIN q PROVE q[i] # r[k]
    <3>1. up[i] \in DOMAIN r /\ up[i] # k
      OBVIOUS
    <3> QED BY <1>2, <3>1 DEF Distinct
  <2> QED BY <2>1, <2>2 DEF Distinct, Items
<1>3. ASSUME Distinct(q), r[k] \notin Items(q) PROVE Distinct(r)
  <2> SUFFICES ASSUME NEW i \in DOMAIN r, NEW j \in DOMAIN r, r[i] = r[j] PROVE i = j
    BY DEF Distinct
  <2>1. \A e \in DOMAIN r \ {k} : r[e] # r[k]
    BY <1>3 DEF Items
  <2>2. CASE i = k \/ j = k
    BY <2>1, <2>2
  <2>3. CASE i # k /\ j # k
    <3>1. PICK f \in DOMAIN q : up[f] = i /\ q[f] = r[i]
      BY <2>3
    <3>2. PICK g \in DOMAIN q : up[g] = j /\ q[g] = r[j]
      BY <2>3
    <3>3. f = g
      BY <1>3, <3>1, <3>2 DEF Distinct
    <3> QED BY <3>1, <3>2, <3>3
  <2> QED BY <2>2, <2>3
<1> QED BY <1>1, <1>2, <1>3

\* A prompt is in a sequence somewhere, or it is not: with it, the sequence is
\* longer by one, and as distinct as it was if the prompt is new.
LEMMA Spliced ==
    ASSUME NEW x \in Seq(Nat), NEW y \in Seq(Nat), NEW n \in Nat
    PROVE  /\ x \o y \in Seq(Nat) /\ (x \o <<n>>) \o y \in Seq(Nat)
           /\ Len((x \o <<n>>) \o y) = Len(x \o y) + 1
           /\ Items((x \o <<n>>) \o y) = Items(x \o y) \union {n}
           /\ Distinct((x \o <<n>>) \o y) <=> Distinct(x \o y) /\ n \notin Items(x \o y)
<1> DEFINE q == x \o y
           r == (x \o <<n>>) \o y
           k == Len(x) + 1
           up == [i \in 1..Len(q) |-> IF i < k THEN i ELSE i + 1]
<1>1. /\ Len(x) \in Nat /\ Len(y) \in Nat
      /\ x \o <<n>> \in Seq(Nat) /\ Len(x \o <<n>>) = k
      /\ q \in Seq(Nat) /\ Len(q) = Len(x) + Len(y)
      /\ r \in Seq(Nat) /\ Len(r) = Len(x) + 1 + Len(y)
  BY ConcatProperties, LenProperties
<1>2. DOMAIN q = 1..Len(q) /\ DOMAIN r = 1..Len(q) + 1
  BY <1>1, LenProperties
<1>3. \A i \in 1..Len(q) : q[i] = r[up[i]]
  <2> SUFFICES ASSUME NEW i \in 1..Len(q) PROVE q[i] = r[up[i]]
    OBVIOUS
  <2>1. q[i] = IF i <= Len(x) THEN x[i] ELSE y[i - Len(x)]
    BY <1>1, ConcatProperties
  <2>2. CASE i <= Len(x)
    <3>1. up[i] = i
      BY <1>1, <2>2
    <3>2. r[i] = (x \o <<n>>)[i] /\ (x \o <<n>>)[i] = x[i]
      BY <1>1, <2>2, ConcatProperties
    <3> QED BY <2>1, <2>2, <3>1, <3>2
  <2>3. CASE ~(i <= Len(x))
    <3>1. up[i] = i + 1 /\ i + 1 \in k + 1..Len(r)
      BY <1>1, <2>3
    <3>2. r[i + 1] = y[(i + 1) - k]
      BY <1>1, <3>1, ConcatProperties
    <3> QED BY <1>1, <2>1, <2>3, <3>1, <3>2
  <2> QED BY <2>2, <2>3
<1>4. r[k] = n
  <2>1. r[k] = (x \o <<n>>)[k] /\ (x \o <<n>>)[k] = n
    BY <1>1, ConcatProperties
  <2> QED BY <2>1
<1>5. /\ \A i \in 1..Len(q) : up[i] \in 1..Len(q) + 1 /\ up[i] # k
      /\ \A i, j \in 1..Len(q) : up[i] = up[j] => i = j
      /\ \A j \in 1..Len(q) + 1 : j # k => \E i \in 1..Len(q) : up[i] = j
  <2>1. /\ \A i \in 1..Len(q) : up[i] \in 1..Len(q) + 1 /\ up[i] # k
        /\ \A i, j \in 1..Len(q) : up[i] = up[j] => i = j
    BY <1>1, SMTT(30)
  <2>2. ASSUME NEW j \in 1..Len(q) + 1, j # k PROVE \E i \in 1..Len(q) : up[i] = j
    <3>1. CASE j < k
      BY <1>1, <3>1
    <3>2. CASE j > k
      <4>1. j - 1 \in 1..Len(q) /\ up[j - 1] = j
        BY <1>1, <3>2
      <4> QED BY <4>1
    <3> QED BY <1>1, <2>2, <3>1, <3>2
  <2> QED BY <2>1, <2>2
<1>6. k \in 1..Len(q) + 1 /\ up \in [1..Len(q) -> (1..Len(q) + 1) \ {k}]
  BY <1>5, <1>1
<1> HIDE DEF q, r, k, up
<1>7. /\ k \in DOMAIN r /\ up \in [DOMAIN q -> DOMAIN r \ {k}]
      /\ \A i, j \in DOMAIN q : up[i] = up[j] => i = j
      /\ \A j \in DOMAIN r \ {k} : \E i \in DOMAIN q : up[i] = j
      /\ \A i \in DOMAIN q : q[i] = r[up[i]]
  BY <1>2, <1>3, <1>5, <1>6
<1>8. Items(r) = Items(q) \union {r[k]} /\ (Distinct(r) <=> Distinct(q) /\ r[k] \notin Items(q))
  BY <1>7, Embedded
<1> QED BY <1>1, <1>4, <1>8 DEF q, r

\* p is q and one prompt more.
With(p, q, n) ==
    /\ Len(p) = Len(q) + 1
    /\ Items(p) = Items(q) \union {n}
    /\ Distinct(p) <=> Distinct(q) /\ n \notin Items(q)

\* p is q with n behind it.
Grown(p, q, n) == p = Append(q, n)

\* A sequence that is not empty begins with its head.
LEMMA HeadFirst ==
    ASSUME NEW s \in Seq(Nat), s # <<>>
    PROVE  Head(s) \in Nat /\ Tail(s) \in Seq(Nat) /\ s = <<Head(s)>> \o Tail(s)
<1>1. Head(s) \in Nat /\ Tail(s) \in Seq(Nat) /\ <<Head(s)>> \in Seq(Nat)
  BY HeadTailProperties
<1>2. <<Head(s)>> \o Tail(s) \in Seq(Nat) /\ Len(<<Head(s)>> \o Tail(s)) = Len(s)
  BY <1>1, ConcatProperties, HeadTailProperties, EmptySeq
<1>3. \A i \in 1..Len(s) : (<<Head(s)>> \o Tail(s))[i] = s[i]
  BY <1>1, ConcatProperties, HeadTailProperties, EmptySeq
<1> QED BY <1>1, <1>2, <1>3, SeqEqual

\* The prompt handled comes before the others.
LEMMA OutForms ==
    ASSUME NEW h \in Nat, NEW a \in Seq(Nat), NEW s \in Seq(Nat)
    PROVE  /\ Out(h, a, s) \in Seq(Nat) /\ a \o s \in Seq(Nat)
           /\ Out(None, a, s) = a \o s
           /\ h # None => /\ Out(h, a, s) = <<h>> \o (a \o s)
                          /\ Out(h, a, s) # <<>>
                          /\ Head(Out(h, a, s)) = h /\ Tail(Out(h, a, s)) = a \o s
<1>1. a \o s \in Seq(Nat) /\ <<>> \o a = a /\ <<h>> \in Seq(Nat) /\ <<h>> # <<>>
  BY ConcatProperties, ConcatEmptySeq
<1>2. (<<h>> \o a) \o s = <<h>> \o (a \o s)
  BY <1>1, ConcatAssociative
<1>3. Out(None, a, s) = a \o s
  BY <1>1 DEF Out
<1>4. h # None => Out(h, a, s) = <<h>> \o (a \o s)
  BY <1>2 DEF Out
<1>5. Out(h, a, s) \in Seq(Nat)
  <2>1. CASE h = None
    BY <1>1, <1>3, <2>1
  <2>2. CASE h # None
    BY <1>1, <1>4, <2>2, ConcatProperties
  <2> QED BY <2>1, <2>2
<1>6. <<h>> \o (a \o s) # <<>> /\ Head(<<h>> \o (a \o s)) = h
  BY <1>1, ConcatProperties, LenProperties
<1>7. Tail(<<h>> \o (a \o s)) = a \o s
  <2>1. <<h>> \o (a \o s) \in Seq(Nat)
    BY <1>1, ConcatProperties
  <2>2. /\ Tail(<<h>> \o (a \o s)) \in Seq(Nat)
        /\ Len(Tail(<<h>> \o (a \o s))) = Len(a \o s)
        /\ \A i \in 1..Len(a \o s) : Tail(<<h>> \o (a \o s))[i] = (<<h>> \o (a \o s))[i + 1]
    BY <2>1, <1>1, <1>6, HeadTailProperties, ConcatProperties, LenProperties
  <2>3. \A i \in 1..Len(a \o s) : (<<h>> \o (a \o s))[i + 1] = (a \o s)[i]
    BY <1>1, ConcatProperties, LenProperties
  <2> QED BY <2>2, <2>3, <1>1, SeqEqual
<1> QED BY <1>1, <1>3, <1>4, <1>5, <1>6, <1>7

\* Concatenation is associative.
LEMMA Reassociated ==
    ASSUME NEW x \in Seq(Nat), NEW y \in Seq(Nat), NEW z \in Seq(Nat)
    PROVE  x \o (y \o z) = (x \o y) \o z
<1>1. PICK q \in Seq(Nat) : q = x \o y
  BY ConcatProperties
<1>2. PICK p \in Seq(Nat) : p = y \o z
  BY ConcatProperties
<1>3. /\ Len(q) = Len(x) + Len(y) /\ Len(p) = Len(y) + Len(z)
      /\ Len(x) \in Nat /\ Len(y) \in Nat /\ Len(z) \in Nat
  BY <1>1, <1>2, ConcatProperties, LenProperties
<1>4. /\ x \o p \in Seq(Nat) /\ q \o z \in Seq(Nat)
      /\ Len(x \o p) = Len(x) + Len(p) /\ Len(q \o z) = Len(q) + Len(z)
  BY ConcatProperties
<1>5. \A i \in 1..Len(x \o p) : (x \o p)[i] = (q \o z)[i]
  <2> TAKE i \in 1..Len(x \o p)
  <2>0. i \in Nat /\ i \in 1..Len(x) + Len(p) /\ i \in 1..Len(q) + Len(z)
    BY <1>3, <1>4
  <2>1. (x \o p)[i] = IF i <= Len(x) THEN x[i] ELSE p[i - Len(x)]
    BY <2>0, ConcatProperties
  <2>2. (q \o z)[i] = IF i <= Len(q) THEN q[i] ELSE z[i - Len(q)]
    BY <2>0, ConcatProperties
  <2>3. i <= Len(q) => q[i] = IF i <= Len(x) THEN x[i] ELSE y[i - Len(x)]
    BY <1>1, <1>3, ConcatProperties
  <2>4. i > Len(x) => p[i - Len(x)] = IF i - Len(x) <= Len(y) THEN y[i - Len(x)] ELSE z[(i - Len(x)) - Len(y)]
    BY <1>2, <1>3, <1>4, ConcatProperties
  <2>5. CASE i <= Len(x)
    BY <1>3, <2>0, <2>1, <2>2, <2>3, <2>5
  <2>6. CASE i > Len(x) /\ i <= Len(q)
    <3>1. i - Len(x) <= Len(y) /\ ~(i <= Len(x))
      BY <1>3, <2>0, <2>6
    <3> QED BY <2>1, <2>2, <2>3, <2>4, <2>6, <3>1
  <2>7. CASE i > Len(q)
    <3>1. (i - Len(x)) - Len(y) = i - Len(q) /\ ~(i - Len(x) <= Len(y)) /\ i > Len(x) /\ ~(i <= Len(x))
      BY <1>3, <2>0, <2>7, SMTT(30)
    <3> QED BY <1>3, <2>0, <2>1, <2>2, <2>4, <2>7, <3>1
  <2>8. i <= Len(x) \/ (i > Len(x) /\ i <= Len(q)) \/ i > Len(q)
    BY <1>3, <2>0
  <2> QED BY <2>5, <2>6, <2>7, <2>8, Zenon
<1>6. Len(x \o p) = Len(q \o z)
  BY <1>3, <1>4
<1>7. x \o p = q \o z
  BY <1>4, <1>5, <1>6, SeqEqual
<1> QED BY <1>1, <1>2, <1>7

\* Whatever is handled, it comes first.
LEMMA OutFront ==
    ASSUME NEW h \in Nat
    PROVE  \E f \in Seq(Nat) : \A b, t : Out(h, b, t) = (f \o b) \o t
<1>1. (IF h = None THEN <<>> ELSE <<h>>) \in Seq(Nat)
  OBVIOUS
<1> QED BY <1>1, Zenon DEF Out

\* The prompt handled is one of them,
LEMMA OutHandled ==
    ASSUME NEW h \in Nat \ {None}, NEW a \in Seq(Nat), NEW s \in Seq(Nat)
    PROVE  With(Out(h, a, s), Out(None, a, s), h)
<1>1. a \o s \in Seq(Nat) /\ <<>> \in Seq(Nat) /\ <<h>> \in Seq(Nat)
  BY OutForms, EmptySeq
<1>2. <<>> \o (a \o s) = a \o s /\ <<>> \o <<h>> = <<h>>
  BY <1>1, ConcatEmptySeq
<1>3. With((<<>> \o <<h>>) \o (a \o s), <<>> \o (a \o s), h)
  BY <1>1, Spliced DEF With
<1>4. Out(h, a, s) = <<h>> \o (a \o s) /\ Out(None, a, s) = a \o s
  BY OutForms
<1> QED BY <1>2, <1>3, <1>4, Zenon

\* ... and so is the first asked, which is what handling begins with;
LEMMA OutAsked ==
    ASSUME NEW a \in Seq(Nat), NEW s \in Seq(Nat), a # <<>>, Head(a) # None
    PROVE  /\ Out(Head(a), Tail(a), s) = Out(None, a, s)
           /\ With(Out(None, a, s), Out(None, Tail(a), s), Head(a))
           /\ Out(None, a, s) # <<>>
           /\ Tail(Out(None, a, s)) = Out(None, Tail(a), s)
<1>1. Head(a) \in Nat /\ Tail(a) \in Seq(Nat) /\ a = <<Head(a)>> \o Tail(a)
  BY HeadFirst
<1>2. Out(Head(a), Tail(a), s) = (<<Head(a)>> \o Tail(a)) \o s
  BY DEF Out
<1>3. Out(None, a, s) = a \o s /\ Out(None, Tail(a), s) = Tail(a) \o s
  BY <1>1, OutForms
<1>4. Out(Head(a), Tail(a), s) = Out(None, a, s)
  BY <1>1, <1>2, <1>3, Zenon
<1>5. /\ Out(Head(a), Tail(a), s) # <<>>
      /\ Tail(Out(Head(a), Tail(a), s)) = Tail(a) \o s
  BY <1>1, OutForms
<1>6. With(Out(Head(a), Tail(a), s), Out(None, Tail(a), s), Head(a))
  BY <1>1, OutHandled
<1> QED BY <1>3, <1>4, <1>5, <1>6, Zenon

\* ... what is asked comes in before what is steered,
LEMMA OutAppended ==
    ASSUME NEW h \in Nat, NEW a \in Seq(Nat), NEW s \in Seq(Nat), NEW n \in Nat
    PROVE  /\ Append(a, n) \in Seq(Nat)
           /\ With(Out(h, Append(a, n), s), Out(h, a, s), n)
           /\ s = <<>> => Grown(Out(h, Append(a, n), s), Out(h, a, s), n)
<1>1. PICK f \in Seq(Nat) : \A b, t : Out(h, b, t) = (f \o b) \o t
  BY OutFront
<1>2. PICK x \in Seq(Nat) : x = f \o a
  BY ConcatProperties
<1>x. <<n>> \in Seq(Nat) /\ x \o <<n>> \in Seq(Nat)
  BY ConcatProperties
<1>3. Append(a, n) = a \o <<n>> /\ Append(a, n) \in Seq(Nat)
  BY AppendIsConcat, AppendProperties
<1>4. f \o (a \o <<n>>) = x \o <<n>>
  BY <1>2, <1>x, ConcatAssociative
<1>5. Out(h, Append(a, n), s) = (x \o <<n>>) \o s /\ Out(h, a, s) = x \o s
  BY <1>1, <1>2, <1>3, <1>4, Zenon
<1>6. ASSUME s = <<>> PROVE Grown(Out(h, Append(a, n), s), Out(h, a, s), n)
  <2>1. (x \o <<n>>) \o s = x \o <<n>> /\ x \o s = x
    BY <1>x, <1>6, ConcatEmptySeq
  <2>2. Append(x, n) = x \o <<n>>
    BY AppendIsConcat
  <2> QED BY <1>5, <2>1, <2>2, Zenon DEF Grown
<1>7. With((x \o <<n>>) \o s, x \o s, n)
  BY Spliced DEF With
<1> QED BY <1>3, <1>5, <1>6, <1>7, Zenon

\* ... what is steered behind it,
LEMMA OutSteered ==
    ASSUME NEW h \in Nat, NEW a \in Seq(Nat), NEW s \in Seq(Nat), NEW n \in Nat
    PROVE  /\ Append(s, n) \in Seq(Nat)
           /\ Grown(Out(h, a, Append(s, n)), Out(h, a, s), n)
           /\ With(Out(h, a, Append(s, n)), Out(h, a, s), n)
<1>1. PICK f \in Seq(Nat) : \A b, t : Out(h, b, t) = (f \o b) \o t
  BY OutFront
<1>2. PICK x \in Seq(Nat) : x = f \o a
  BY ConcatProperties
<1>x. PICK q \in Seq(Nat) : q = x \o s
  BY ConcatProperties
<1>e. <<n>> \in Seq(Nat) /\ <<>> \in Seq(Nat) /\ q \o <<n>> \in Seq(Nat)
  BY ConcatProperties, EmptySeq
<1>3. Append(s, n) = s \o <<n>> /\ Append(s, n) \in Seq(Nat)
  BY AppendIsConcat, AppendProperties
<1>4. x \o (s \o <<n>>) = q \o <<n>>
  BY <1>x, <1>e, ConcatAssociative
<1>5. Out(h, a, Append(s, n)) = q \o <<n>> /\ Out(h, a, s) = q
  BY <1>1, <1>2, <1>x, <1>3, <1>4, Zenon
<1>6. q \o <<n>> = Append(q, n)
  BY AppendIsConcat
<1>7. With((q \o <<n>>) \o <<>>, q \o <<>>, n)
  BY <1>e, Spliced DEF With
<1>8. (q \o <<n>>) \o <<>> = q \o <<n>> /\ q \o <<>> = q
  BY <1>e, ConcatEmptySeq
<1> QED BY <1>3, <1>5, <1>6, <1>7, <1>8, Zenon DEF Grown

\* ... and the first of those leaves, or stays to be asked.
LEMMA OutTaken ==
    ASSUME NEW h \in Nat, NEW a \in Seq(Nat), NEW s \in Seq(Nat), s # <<>>
    PROVE  /\ With(Out(h, a, s), Out(h, a, Tail(s)), Head(s))
           /\ Append(a, Head(s)) \in Seq(Nat)
           /\ Out(h, Append(a, Head(s)), Tail(s)) = Out(h, a, s)
<1>1. PICK f \in Seq(Nat) : \A b, t : Out(h, b, t) = (f \o b) \o t
  BY OutFront
<1>2. PICK n \in Nat : n = Head(s)
  BY HeadFirst
<1>3. PICK r \in Seq(Nat) : r = Tail(s)
  BY HeadFirst
<1>4. s = <<n>> \o r
  BY <1>2, <1>3, HeadFirst
<1>5. PICK x \in Seq(Nat) : x = f \o a
  BY ConcatProperties
<1>6. Append(a, n) = a \o <<n>> /\ Append(a, n) \in Seq(Nat) /\ <<n>> \in Seq(Nat)
  BY AppendIsConcat, AppendProperties
<1>7. x \o (<<n>> \o r) = (x \o <<n>>) \o r
  BY <1>6, Reassociated, ZenonT(30)
<1>a. f \o (a \o <<n>>) = x \o <<n>>
  BY <1>5, <1>6, ConcatAssociative, SMTT(30)
<1>8. /\ Out(h, a, s) = (x \o <<n>>) \o r
      /\ Out(h, a, r) = x \o r
      /\ Out(h, Append(a, n), r) = (x \o <<n>>) \o r
  BY <1>1, <1>4, <1>5, <1>6, <1>7, <1>a, Zenon
<1>9. With((x \o <<n>>) \o r, x \o r, n)
  BY Spliced DEF With
<1> QED BY <1>2, <1>3, <1>6, <1>8, <1>9, Zenon

-----------------------------------------------------------------------------
(* The invariant *)

\* The types the steps rely on: a follow-up has both its fields.
Typed ==
    /\ TypeOK
    /\ follow \in [prompt : 0..given, stage : {"none", "scripts", "hooks"}]

\* A follow-up in flight is a prompt the query has not got; when no stream is
\* read none is in flight, and nothing is handled.
FollowIsNew ==
    /\ follow.stage # "none" => follow.prompt \in (1..given) \ mine
    /\ ~open => handling = None /\ follow.stage = "none"

\* What a provider never answers is not outstanding.
AbsorbedIsGone == Items(Outstanding) \intersect absorbed = {}

\* A prompt of the query waits, or something has been made of it.
Accounted ==
    \A n \in mine : \/ n \in Items(Outstanding) \union absorbed \union unsaid
                    \/ \E r \in rows : r.of = n

InOrder == Distinct(Outstanding) /\ AbsorbedIsGone /\ Accounted

IInv == Typed /\ FollowIsNew /\ InOrder /\ ArchiveMatches /\ JobsMatch

\* The last of the properties in terms of the sequence of outstanding prompts.
LEMMA NoneIsLostMeans == NoneIsLost <=> Distinct(Outstanding) /\ Accounted
<1>1. \A n : (\E i \in DOMAIN Outstanding : Outstanding[i] = n) <=> n \in Items(Outstanding)
  BY DEF Items
<1> QED BY <1>1 DEF NoneIsLost, Distinct, Accounted

\* The invariant is the type invariant and the property, and more.
LEMMA InvariantGives == IInv => TypeOK /\ PromptsMatch
BY NoneIsLostMeans DEF IInv, InOrder, Typed, PromptsMatch

\* Every queue is a sequence of prompts of the query.
LEMMA Shapes ==
    ASSUME Typed
    PROVE  /\ given \in Nat /\ mine \subseteq 1..given /\ absorbed \subseteq mine
           /\ handling \in Nat /\ handling \in mine \union {None}
           /\ asked \in Seq(Nat) /\ steering \in Seq(Nat) /\ archive \in Seq(Nat) /\ jobs \in Seq(Nat)
           /\ asked \in Seq(mine) /\ steering \in Seq(mine)
           /\ archive \in Seq(mine) /\ jobs \in Seq(mine \union {None})
           /\ Outstanding = Out(handling, asked, steering)
           /\ Outstanding \in Seq(Nat) /\ Len(Outstanding) \in Nat
           /\ Items(Outstanding) \subseteq mine
           /\ asked \o steering \in Seq(Nat) /\ Len(asked \o steering) \in Nat
           /\ DOMAIN jobs = 1..Len(jobs) /\ Len(jobs) \in Nat
           /\ handling = None => Outstanding = asked \o steering
           /\ IsFiniteSet(absorbed) /\ Cardinality(absorbed) \in Nat
<1>1. /\ given \in Nat /\ mine \subseteq 1..given /\ absorbed \subseteq mine
      /\ handling \in mine \union {None}
      /\ asked \in Seq(mine) /\ steering \in Seq(mine)
      /\ archive \in Seq(mine) /\ jobs \in Seq(mine \union {None})
  BY TurnAssumption DEF Typed, TypeOK
<1>2. mine \subseteq Nat /\ mine \union {None} \subseteq Nat /\ handling \in Nat
  BY <1>1 DEF None
<1>3. asked \in Seq(Nat) /\ steering \in Seq(Nat) /\ archive \in Seq(Nat) /\ jobs \in Seq(Nat)
  BY <1>1, <1>2, SeqMonotonic
<1>4. Outstanding = Out(handling, asked, steering)
  BY DEF Outstanding, Out
<1>5. Outstanding \in Seq(Nat) /\ Len(Outstanding) \in Nat
  BY <1>2, <1>3, <1>4, OutForms, LenProperties
<1>6. Items(Outstanding) \subseteq mine
  <2> DEFINE f == IF handling = None THEN <<>> ELSE <<handling>>
  <2>1. f \in Seq(mine)
    BY <1>1
  <2> HIDE DEF f
  <2>2. f \o asked \in Seq(mine)
    BY <1>1, <2>1, ConcatProperties
  <2>3. (f \o asked) \o steering \in Seq(mine)
    <3>1. PICK q \in Seq(mine) : q = f \o asked
      BY <2>2
    <3>2. q \o steering \in Seq(mine)
      BY <1>1, ConcatProperties
    <3> QED BY <3>1, <3>2
  <2>4. Outstanding = (f \o asked) \o steering
    BY DEF Outstanding, f
  <2>5. PICK q \in Seq(mine) : q = Outstanding
    BY <2>3, <2>4
  <2>6. \A i \in DOMAIN q : q[i] \in mine
    BY LenProperties, ElementOfSeq
  <2> QED BY <2>5, <2>6 DEF Items
<1>7. asked \o steering \in Seq(Nat) /\ Len(asked \o steering) \in Nat
  BY <1>3, ConcatProperties, LenProperties
<1>8. DOMAIN jobs = 1..Len(jobs) /\ Len(jobs) \in Nat
  BY <1>3, LenProperties
<1>9. handling = None => Outstanding = asked \o steering
  <2>1. Out(None, asked, steering) = asked \o steering
    BY <1>2, <1>3, OutForms
  <2> QED BY <1>4, <2>1, Zenon
<1>10. IsFiniteSet(absorbed) /\ Cardinality(absorbed) \in Nat
  <2>1. IsFiniteSet(1..given)
    BY <1>1, FS_Interval
  <2>2. absorbed \in SUBSET (1..given)
    BY <1>1
  <2> QED BY <2>1, <2>2, FS_Subset, FS_CardinalityType
<1> QED BY <1>1, <1>2, <1>3, <1>4, <1>5, <1>6, <1>7, <1>8, <1>9, <1>10

\* What is outstanding, as a sequence.
OutstandingIs ==
    /\ Outstanding = Out(handling, asked, steering) /\ Outstanding \in Seq(Nat)
    /\ handling = None => Outstanding = asked \o steering

\* So it is after a step.
LEMMA ShapesThen == Typed' => OutstandingIs'
<1>1. Typed => OutstandingIs
  BY Shapes, Zenon DEF OutstandingIs
<1> QED BY <1>1, PTL

-----------------------------------------------------------------------------
(* No prompt is lost or asked twice *)

\* A new prompt of the query is outstanding.
LEMMA ComesIn ==
    ASSUME Typed, InOrder, NEW n, n \notin mine, mine' = mine \union {n},
           With(Outstanding', Outstanding, n), UNCHANGED <<absorbed, unsaid, rows>>
    PROVE  InOrder'
<1>1. absorbed \subseteq mine /\ Items(Outstanding) \subseteq mine
  BY Shapes
<1>2. Items(Outstanding') = Items(Outstanding) \union {n} /\ Distinct(Outstanding')
  BY <1>1 DEF With, InOrder
<1>3. AbsorbedIsGone'
  BY <1>1, <1>2 DEF InOrder, AbsorbedIsGone
<1>4. Accounted'
  BY <1>2 DEF InOrder, Accounted
<1> QED BY <1>2, <1>3, <1>4 DEF InOrder

\* One that leaves was answered, or never will be.
LEMMA GoesOut ==
    ASSUME InOrder, NEW n, UNCHANGED mine, With(Outstanding, Outstanding', n),
           absorbed \subseteq absorbed', absorbed' \subseteq absorbed \union {n},
           unsaid \subseteq unsaid', rows \subseteq rows',
           n \in absorbed' \union unsaid' \/ \E r \in rows' : r.of = n
    PROVE  InOrder'
<1>1. Items(Outstanding) = Items(Outstanding') \union {n}
  BY DEF With
<1>2. Distinct(Outstanding') /\ n \notin Items(Outstanding')
  BY Zenon DEF With, InOrder
<1>3. AbsorbedIsGone'
  BY <1>1, <1>2 DEF InOrder, AbsorbedIsGone
<1>4. Accounted'
  BY <1>1 DEF InOrder, Accounted
<1> QED BY <1>2, <1>3, <1>4 DEF InOrder

\* One that changes its place is where it was for these purposes.
LEMMA StaysIn ==
    ASSUME InOrder, UNCHANGED <<mine, absorbed>>, unsaid \subseteq unsaid', rows \subseteq rows',
           Items(Outstanding') = Items(Outstanding), Distinct(Outstanding')
    PROVE  InOrder'
BY DEF InOrder, AbsorbedIsGone, Accounted

-----------------------------------------------------------------------------
(* One kind of step at a time *)

\* The queues are left alone, or only divided otherwise.
LEMMA QueuesRest ==
    ASSUME IInv, Outstanding' = Outstanding, asked' \o steering' = asked \o steering,
           UNCHANGED <<mine, absorbed, archive, jobs, mixed>>,
           unsaid \subseteq unsaid', rows \subseteq rows'
    PROVE  InOrder' /\ ArchiveMatches' /\ JobsMatch'
<1>1. InOrder'
  <2>1. Items(Outstanding') = Items(Outstanding) /\ Distinct(Outstanding')
    BY DEF IInv, InOrder
  <2> QED BY <2>1, StaysIn DEF IInv
<1>2. ArchiveMatches'
  BY DEF IInv, ArchiveMatches
<1>3. JobsMatch'
  BY DEF IInv, JobsMatch
<1> QED BY <1>1, <1>2, <1>3

\* No stream is read, or one with a single prompt.
LEMMA QueuesFresh ==
    ASSUME Typed', handling' = None, steering' = <<>>, absorbed' = {},
           \/ mine' = {} /\ asked' = <<>> /\ archive' = <<>> /\ jobs' = <<>>
           \/ \E n \in Nat : mine' = {n} /\ asked' = <<n>> /\ archive' = <<n>> /\ jobs' = <<n>>
    PROVE  InOrder' /\ ArchiveMatches' /\ JobsMatch'
<1>1. asked' \in Seq(Nat) /\ asked' \o steering' = asked' /\ Outstanding' = asked'
  <2>1. asked' \in Seq(Nat)
    <3>1. <<>> \in Seq(Nat) /\ \A n \in Nat : <<n>> \in Seq(Nat)
      OBVIOUS
    <3> QED BY <3>1
  <2>2. asked' \o <<>> = asked'
    BY <2>1, ConcatEmptySeq
  <2>3. Outstanding' = asked' \o steering'
    BY ShapesThen DEF OutstandingIs
  <2> QED BY <2>1, <2>2, <2>3
<1>2. Distinct(Outstanding')
  BY <1>1 DEF Distinct
<1>3. mine' = Items(Outstanding')
  <2>1. CASE mine' = {} /\ asked' = <<>>
    BY <1>1, <2>1 DEF Items
  <2>2. ASSUME NEW n \in Nat, mine' = {n} /\ asked' = <<n>> PROVE mine' = Items(Outstanding')
    <3>1. DOMAIN asked' = {1} /\ asked'[1] = n
      BY <2>2
    <3> QED BY <1>1, <2>2, <3>1 DEF Items
  <2> QED BY <2>1, <2>2
<1>4. InOrder'
  BY <1>2, <1>3 DEF InOrder, AbsorbedIsGone, Accounted
<1>5. archive' = asked' /\ jobs' = asked' /\ Len(asked') \in Nat
  BY <1>1, LenProperties
<1>6. Cardinality(absorbed') = 0
  BY FS_EmptySet
<1>7. ArchiveMatches'
  BY <1>1, <1>5, <1>6 DEF ArchiveMatches
<1>8. JobsMatch'
  BY <1>1, <1>5 DEF JobsMatch
<1> QED BY <1>4, <1>7, <1>8

\* A follow-up is pushed, as a turn of its own or into the turn that is on.
LEMMA QueuesPush ==
    ASSUME IInv, Typed', FollowPush
    PROVE  InOrder' /\ ArchiveMatches' /\ JobsMatch'
<1>t. Typed
  BY DEF IInv
<1>1. PICK n \in Nat : n = follow.prompt /\ n \notin mine
  BY <1>t, Shapes, SMTT(30) DEF IInv, FollowIsNew, FollowPush
<1>2. /\ mine' = mine \union {n} /\ archive' = Append(archive, n) /\ jobs' = Append(jobs, n)
      /\ UNCHANGED <<handling, absorbed, unsaid, rows>>
  BY <1>1 DEF FollowPush
<1>3. /\ handling \in Nat /\ asked \in Seq(Nat) /\ steering \in Seq(Nat) /\ archive \in Seq(Nat)
      /\ jobs \in Seq(Nat) /\ Outstanding = Out(handling, asked, steering)
      /\ Outstanding \in Seq(Nat) /\ Len(Outstanding) \in Nat /\ Cardinality(absorbed) \in Nat
      /\ asked \o steering \in Seq(Nat)
  BY <1>t, Shapes
<1>4. \/ asked' = Append(asked, n) /\ steering' = steering
         /\ mixed' = IF steering # <<>> THEN "overtaken" ELSE mixed
      \/ steering' = Append(steering, n) /\ UNCHANGED <<asked, mixed>>
  BY <1>1 DEF FollowPush
<1>5. Outstanding' = Out(handling, asked', steering')
  BY <1>2, ShapesThen DEF OutstandingIs
<1>6. /\ With(Outstanding', Outstanding, n)
      /\ mixed' # "overtaken" => /\ mixed' = mixed /\ Outstanding' = Append(Outstanding, n)
                                 /\ asked' \o steering' = Append(asked \o steering, n)
  <2>1. CASE /\ asked' = Append(asked, n) /\ steering' = steering
             /\ mixed' = IF steering # <<>> THEN "overtaken" ELSE mixed
    <3>1. With(Outstanding', Outstanding, n)
      BY <1>3, <1>5, <2>1, OutAppended
    <3>2. ASSUME steering = <<>>
          PROVE  Outstanding' = Append(Outstanding, n) /\ asked' \o steering' = Append(asked \o steering, n)
      <4>1. Outstanding' = Append(Outstanding, n)
        <5>1. Grown(Out(handling, Append(asked, n), steering), Out(handling, asked, steering), n)
          BY <1>3, <3>2, OutAppended
        <5> QED BY <1>3, <1>5, <2>1, <5>1, Zenon DEF Grown
      <4>2. asked \o <<>> = asked /\ Append(asked, n) \o <<>> = Append(asked, n)
        BY <1>3, ConcatEmptySeq, AppendProperties
      <4> QED BY <2>1, <3>2, <4>1, <4>2
    <3> QED BY <2>1, <3>1, <3>2
  <2>2. CASE steering' = Append(steering, n) /\ UNCHANGED <<asked, mixed>>
    <3>1. With(Outstanding', Outstanding, n) /\ Outstanding' = Append(Outstanding, n)
      <4>1. /\ Grown(Out(handling, asked, Append(steering, n)), Out(handling, asked, steering), n)
            /\ With(Out(handling, asked, Append(steering, n)), Out(handling, asked, steering), n)
        BY <1>3, OutSteered
      <4> QED BY <1>3, <1>5, <2>2, <4>1, Zenon DEF Grown
    <3>2. None \in Nat /\ Append(steering, n) \in Seq(Nat)
      BY <1>3, OutSteered DEF None
    <3>3. Grown(Out(None, asked, Append(steering, n)), Out(None, asked, steering), n)
      BY <1>3, <3>2, OutSteered
    <3>4. Out(None, asked, steering) = asked \o steering
      BY <1>3, <3>2, OutForms
    <3>5. Out(None, asked, Append(steering, n)) = asked \o Append(steering, n)
      BY <1>3, <3>2, OutForms, ZenonT(30)
    <3>6. asked' \o steering' = Append(asked \o steering, n)
      BY <2>2, <3>3, <3>4, <3>5, Zenon DEF Grown
    <3> QED BY <2>2, <3>1, <3>6
  <2> QED BY <1>4, <2>1, <2>2
<1>7. InOrder'
  BY <1>t, <1>1, <1>2, <1>6, ComesIn DEF IInv
<1>8. ArchiveMatches'
  <2>1. Len(Outstanding') = Len(Outstanding) + 1
    BY <1>6 DEF With
  <2>2. Len(archive') = Len(archive) + 1
    BY <1>2, <1>3, AppendProperties
  <2>3. Len(archive') = Len(Outstanding') + Cardinality(absorbed')
    BY <1>2, <1>3, <2>1, <2>2 DEF IInv, ArchiveMatches
  <2>4. absorbed' = {} /\ mixed' # "overtaken" => archive' = Outstanding'
    BY <1>2, <1>6 DEF IInv, ArchiveMatches
  <2> QED BY <2>3, <2>4 DEF ArchiveMatches
<1>9. JobsMatch'
  <2> SUFFICES ASSUME absorbed' = {}, mixed' = "none"
               PROVE  /\ Len(jobs') = Len(asked' \o steering')
                      /\ \A i \in DOMAIN jobs' : jobs'[i] \in {(asked' \o steering')[i], None}
    BY DEF JobsMatch
  <2> DEFINE w == asked \o steering
  <2>1. /\ Len(jobs) = Len(w)
        /\ \A i \in DOMAIN jobs : jobs[i] \in {w[i], None}
    BY <1>2, <1>6 DEF IInv, JobsMatch
  <2>2. asked' \o steering' = Append(w, n) /\ w \in Seq(Nat)
    BY <1>3, <1>6
  <2> HIDE DEF w
  <2>3. /\ Len(Append(w, n)) = Len(w) + 1 /\ Len(w) \in Nat
        /\ Len(Append(jobs, n)) = Len(jobs) + 1
        /\ Append(w, n)[Len(w) + 1] = n /\ Append(jobs, n)[Len(jobs) + 1] = n
        /\ \A i \in 1..Len(w) : Append(w, n)[i] = w[i]
        /\ \A i \in 1..Len(jobs) : Append(jobs, n)[i] = jobs[i]
        /\ DOMAIN Append(jobs, n) = 1..Len(jobs) + 1 /\ DOMAIN jobs = 1..Len(jobs)
    BY <1>3, <2>2, AppendProperties, LenProperties
  <2>4. \A i \in DOMAIN Append(jobs, n) : Append(jobs, n)[i] \in {Append(w, n)[i], None}
    BY <2>1, <2>3
  <2> QED BY <1>2, <2>1, <2>2, <2>3, <2>4
<1> QED BY <1>7, <1>8, <1>9

\* The turn takes a steered prompt in, or it waits for a turn of its own.
LEMMA QueuesSteered ==
    ASSUME IInv, Typed', Steered
    PROVE  InOrder' /\ ArchiveMatches' /\ JobsMatch'
<1>t. Typed
  BY DEF IInv
<1>1. /\ handling \in Nat /\ asked \in Seq(Nat) /\ steering \in Seq(Nat) /\ steering # <<>>
      /\ Outstanding = Out(handling, asked, steering) /\ Len(Outstanding) \in Nat
      /\ IsFiniteSet(absorbed) /\ Cardinality(absorbed) \in Nat
  BY <1>t, Shapes DEF Steered
<1>2. /\ UNCHANGED <<handling, mine, archive, jobs, mixed, unsaid, rows>>
      /\ steering' = Tail(steering)
  BY DEF Steered
<1>3. Outstanding' = Out(handling, asked', Tail(steering))
  BY <1>2, ShapesThen DEF OutstandingIs
<1>4. CASE asked' = Append(asked, Head(steering)) /\ UNCHANGED absorbed
  <2>1. Outstanding' = Outstanding
    BY <1>1, <1>3, <1>4, OutTaken
  <2>2. asked' \o steering' = asked \o steering
    <3>1. None \in Nat /\ Append(asked, Head(steering)) \in Seq(Nat) /\ Tail(steering) \in Seq(Nat)
      BY <1>1, OutTaken, HeadFirst DEF None
    <3>2. Out(None, Append(asked, Head(steering)), Tail(steering)) = Out(None, asked, steering)
      BY <1>1, <3>1, OutTaken
    <3>3. Out(None, asked, steering) = asked \o steering
      BY <1>1, <3>1, OutForms
    <3>4. Out(None, Append(asked, Head(steering)), Tail(steering))
             = Append(asked, Head(steering)) \o Tail(steering)
      BY <3>1, OutForms
    <3> QED BY <1>2, <1>4, <3>2, <3>3, <3>4, Zenon
  <2> QED BY <1>2, <1>4, <2>1, <2>2, QueuesRest
<1>5. CASE absorbed' = absorbed \union {Head(steering)} /\ UNCHANGED asked
  <2>1. With(Outstanding, Outstanding', Head(steering))
    BY <1>1, <1>3, <1>5, OutTaken
  <2>2. InOrder'
    BY <1>2, <1>5, <2>1, GoesOut DEF IInv
  <2>3. Head(steering) \notin absorbed
    BY <2>1 DEF With, IInv, InOrder, AbsorbedIsGone
  <2>4. Cardinality(absorbed') = Cardinality(absorbed) + 1 /\ absorbed' # {}
    BY <1>1, <1>5, <2>3, FS_AddElement
  <2>5. Len(Outstanding) = Len(Outstanding') + 1 /\ Len(Outstanding') \in Nat
    <3>1. Outstanding' \in Seq(Nat)
      BY ShapesThen DEF OutstandingIs
    <3> QED BY <2>1, <3>1, LenProperties DEF With
  <2>6. ArchiveMatches' /\ JobsMatch'
    BY <1>1, <1>2, <2>4, <2>5 DEF IInv, ArchiveMatches, JobsMatch
  <2> QED BY <2>2, <2>6
<1> QED BY <1>4, <1>5 DEF Steered

\* The first of the prompts outstanding leaves, and the first of the archive's queue.
LEMMA ArchiveShortens ==
    ASSUME Typed, ArchiveMatches, UNCHANGED <<absorbed, mixed>>, Outstanding # <<>>,
           Outstanding' = Tail(Outstanding), archive' = Rest(archive)
    PROVE  ArchiveMatches'
<1>1. /\ archive \in Seq(Nat) /\ Outstanding \in Seq(Nat) /\ Len(Outstanding) \in Nat
      /\ Cardinality(absorbed) \in Nat
  BY Shapes
<1>2. Len(Outstanding') = Len(Outstanding) - 1 /\ Len(Outstanding) > 0
  BY <1>1, HeadTailProperties, EmptySeq
<1>3. archive # <<>>
  BY <1>1, <1>2, EmptySeq DEF ArchiveMatches
<1>4. archive' = Tail(archive) /\ Len(archive') = Len(archive) - 1
  BY <1>1, <1>3, HeadTailProperties DEF Rest
<1>5. Len(archive') = Len(Outstanding') + Cardinality(absorbed')
  BY <1>1, <1>2, <1>4 DEF ArchiveMatches
<1>6. absorbed' = {} /\ mixed' # "overtaken" => archive' = Outstanding'
  BY <1>4 DEF ArchiveMatches
<1> QED BY <1>5, <1>6 DEF ArchiveMatches

\* The turn is over: the first job is done.
LEMMA JobsShorten ==
    ASSUME Typed, JobsMatch, UNCHANGED <<absorbed, mixed>>, asked \o steering # <<>>,
           asked' \o steering' = Tail(asked \o steering), jobs' = Rest(jobs)
    PROVE  JobsMatch'
<1> SUFFICES ASSUME absorbed' = {}, mixed' = "none"
             PROVE  /\ Len(jobs') = Len(asked' \o steering')
                    /\ \A i \in DOMAIN jobs' : jobs'[i] \in {(asked' \o steering')[i], None}
  BY DEF JobsMatch
<1>1. PICK w \in Seq(Nat) : w = asked \o steering
  BY Shapes
<1>2. jobs \in Seq(Nat) /\ Len(jobs) = Len(w) /\ \A i \in DOMAIN jobs : jobs[i] \in {w[i], None}
  BY <1>1, Shapes DEF JobsMatch
<1>3. w # <<>> /\ asked' \o steering' = Tail(w) /\ Len(w) \in Nat \ {0}
  BY <1>1, EmptySeq
<1>4. jobs # <<>> /\ jobs' = Tail(jobs)
  BY <1>2, <1>3, EmptySeq DEF Rest
<1>5. /\ Tail(jobs) \in Seq(Nat) /\ Len(Tail(jobs)) = Len(jobs) - 1
      /\ \A i \in 1..Len(Tail(jobs)) : Tail(jobs)[i] = jobs[i + 1]
      /\ Len(Tail(w)) = Len(w) - 1 /\ \A i \in 1..Len(Tail(w)) : Tail(w)[i] = w[i + 1]
  BY <1>2, <1>3, <1>4, HeadTailProperties
<1>6. DOMAIN Tail(jobs) = 1..Len(Tail(jobs)) /\ DOMAIN jobs = 1..Len(jobs)
  BY <1>2, <1>5, LenProperties
<1>7. \A i \in DOMAIN Tail(jobs) : Tail(jobs)[i] \in {Tail(w)[i], None}
  <2> TAKE i \in DOMAIN Tail(jobs)
  <2>1. i \in 1..Len(Tail(jobs))
    BY <1>6
  <2>2. i \in 1..Len(Tail(w)) /\ i + 1 \in DOMAIN jobs
    <3>1. Len(Tail(w)) = Len(Tail(jobs)) /\ Len(jobs) \in Nat /\ Len(Tail(jobs)) = Len(jobs) - 1
      BY <1>2, <1>3, <1>5
    <3>2. i + 1 \in 1..Len(jobs)
      BY <2>1, <3>1
    <3> QED BY <1>6, <2>1, <3>1, <3>2, Zenon
  <2> QED BY <1>2, <1>5, <2>1, <2>2
<1>8. Len(Tail(jobs)) = Len(Tail(w))
  BY <1>2, <1>5
<1> QED BY <1>3, <1>4, <1>7, <1>8, Zenon

\* The prompt a result, or the error of a request, is taken to be about.
LEMMA FirstAsked ==
    ASSUME Typed, handling = None, asked # <<>>
    PROVE  /\ Head(asked) \in Nat \ {None} /\ Head(asked) \in mine /\ Tail(asked) \in Seq(Nat)
           /\ Outstanding = Out(None, asked, steering) /\ Outstanding # <<>>
           /\ Out(Head(asked), Tail(asked), steering) = Outstanding
           /\ Out(None, Tail(asked), steering) = Tail(Outstanding)
           /\ With(Outstanding, Out(None, Tail(asked), steering), Head(asked))
           /\ asked \o steering = Outstanding
           /\ Tail(asked) \o steering = Tail(Outstanding)
<1>1. asked \in Seq(Nat) /\ steering \in Seq(Nat) /\ asked \in Seq(mine) /\ mine \subseteq Nat \ {None}
      /\ Outstanding = Out(None, asked, steering) /\ asked \o steering = Outstanding
  BY Shapes, SMTT(30) DEF None
<1>2. Head(asked) \in mine /\ Tail(asked) \in Seq(Nat)
  BY <1>1, HeadTailProperties
<1>3. /\ Out(Head(asked), Tail(asked), steering) = Out(None, asked, steering)
      /\ With(Out(None, asked, steering), Out(None, Tail(asked), steering), Head(asked))
      /\ Out(None, asked, steering) # <<>>
      /\ Tail(Out(None, asked, steering)) = Out(None, Tail(asked), steering)
  BY <1>1, <1>2, OutAsked
<1>4. Out(None, Tail(asked), steering) = Tail(asked) \o steering
  BY <1>1, <1>2, OutForms
<1> QED BY <1>1, <1>2, <1>3, <1>4, Zenon

\* A result, with text or without.
LEMMA QueuesResult ==
    ASSUME IInv, Typed', Result
    PROVE  InOrder' /\ ArchiveMatches' /\ JobsMatch'
<1>t. Typed /\ handling = None /\ asked # <<>>
  BY DEF IInv, Result
<1>1. /\ asked' = Tail(asked) /\ jobs' = Rest(jobs)
      /\ UNCHANGED <<mine, steering, absorbed, mixed, rows>>
  BY DEF Result
<1>2. JobsMatch'
  BY <1>t, <1>1, FirstAsked, JobsShorten DEF IInv
<1>3. Outstanding' = Out(handling', Tail(asked), steering)
  BY <1>1, ShapesThen DEF OutstandingIs
<1>4. CASE handling' = Head(asked) /\ UNCHANGED <<archive, unsaid>>
  <2>1. Outstanding' = Outstanding
    BY <1>t, <1>3, <1>4, FirstAsked
  <2>2. InOrder'
    <3>1. Items(Outstanding') = Items(Outstanding) /\ Distinct(Outstanding')
      BY <2>1 DEF IInv, InOrder
    <3> QED BY <1>1, <1>4, <3>1, StaysIn DEF IInv
  <2>3. ArchiveMatches'
    BY <1>1, <1>4, <2>1 DEF IInv, ArchiveMatches
  <2> QED BY <1>2, <2>2, <2>3
<1>5. CASE archive' = Rest(archive) /\ unsaid' = unsaid \union {Head(asked)} /\ UNCHANGED handling
  <2>1. Outstanding' = Out(None, Tail(asked), steering)
    BY <1>t, <1>3, <1>5
  <2>2. Outstanding' = Tail(Outstanding) /\ Outstanding # <<>>
    BY <1>t, <2>1, FirstAsked
  <2>3. With(Outstanding, Outstanding', Head(asked))
    BY <1>t, <2>1, FirstAsked
  <2>4. InOrder'
    BY <1>1, <1>5, <2>3, GoesOut DEF IInv
  <2>5. ArchiveMatches'
    BY <1>t, <1>1, <1>5, <2>2, ArchiveShortens DEF IInv
  <2> QED BY <1>2, <2>4, <2>5
<1> QED BY <1>4, <1>5 DEF Result

\* A request failed, and has no result.
LEMMA QueuesError ==
    ASSUME IInv, Typed', ErrorEvent
    PROVE  InOrder' /\ ArchiveMatches' /\ JobsMatch'
<1>t. Typed /\ handling = None /\ asked # <<>>
  BY DEF IInv, ErrorEvent
<1>1. /\ asked' = Tail(asked) /\ absorbed' = absorbed \union {Head(asked)}
      /\ UNCHANGED <<handling, mine, steering, archive, mixed, jobs, unsaid, rows>>
  BY DEF ErrorEvent
<1>2. Outstanding' = Out(None, Tail(asked), steering) /\ Outstanding' \in Seq(Nat)
  BY <1>t, <1>1, ShapesThen DEF OutstandingIs
<1>3. With(Outstanding, Outstanding', Head(asked))
  BY <1>t, <1>2, FirstAsked
<1>4. InOrder'
  BY <1>1, <1>3, GoesOut DEF IInv
<1>5. Head(asked) \notin absorbed
  BY <1>3 DEF With, IInv, InOrder, AbsorbedIsGone
<1>6. IsFiniteSet(absorbed) /\ Cardinality(absorbed) \in Nat
  BY <1>t, Shapes
<1>7. Cardinality(absorbed') = Cardinality(absorbed) + 1 /\ absorbed' # {}
  BY <1>1, <1>5, <1>6, FS_AddElement
<1>8. Len(Outstanding) = Len(Outstanding') + 1 /\ Len(Outstanding') \in Nat
  BY <1>2, <1>3, LenProperties DEF With
<1>9. ArchiveMatches' /\ JobsMatch'
  BY <1>1, <1>6, <1>7, <1>8 DEF IInv, ArchiveMatches, JobsMatch
<1> QED BY <1>4, <1>9

\* The prompt handled has had its answer, or will not have one.
LEMMA QueuesOver ==
    ASSUME IInv, Typed', Judged, Over, unsaid \subseteq unsaid', rows \subseteq rows',
           handling \in unsaid' \/ \E r \in rows' : r.of = handling
    PROVE  InOrder' /\ ArchiveMatches' /\ JobsMatch'
<1>t. Typed
  BY DEF IInv
<1>1. /\ handling \in Nat \ {None} /\ asked \in Seq(Nat) /\ steering \in Seq(Nat)
      /\ Outstanding = Out(handling, asked, steering)
  BY <1>t, Shapes DEF Judged
<1>2. /\ handling' = None /\ archive' = Rest(archive)
      /\ UNCHANGED <<asked, jobs, mixed, mine, steering, absorbed>>
  BY DEF Judged, Over
<1>3. Outstanding' = Out(None, asked, steering)
  BY <1>2, ShapesThen DEF OutstandingIs
<1>4. With(Outstanding, Outstanding', handling)
  BY <1>1, <1>3, OutHandled
<1>5. Outstanding' = Tail(Outstanding) /\ Outstanding # <<>>
  <2>1. /\ Out(None, asked, steering) = asked \o steering
        /\ Out(handling, asked, steering) # <<>>
        /\ Tail(Out(handling, asked, steering)) = asked \o steering
    BY <1>1, OutForms, ZenonT(30)
  <2> QED BY <1>1, <1>3, <2>1, Zenon
<1>6. InOrder'
  BY <1>2, <1>4, GoesOut DEF IInv
<1>7. ArchiveMatches'
  BY <1>t, <1>2, <1>5, ArchiveShortens DEF IInv
<1>8. JobsMatch'
  BY <1>2 DEF IInv, JobsMatch
<1> QED BY <1>6, <1>7, <1>8

\* The prompt handled is asked again, alone or behind others.
LEMMA QueuesAgain ==
    ASSUME IInv, Typed', Judged, NEW mark, AskAgain(mark),
           unsaid \subseteq unsaid', rows \subseteq rows',
           (mark = "nudged" /\ jobs' = jobs) \/ (mark = "none" /\ jobs' = Append(jobs, None))
    PROVE  InOrder' /\ ArchiveMatches' /\ JobsMatch'
<1>t. Typed
  BY DEF IInv
<1>1. /\ handling \in Nat \ {None} /\ asked \in Seq(Nat) /\ steering \in Seq(Nat)
      /\ Outstanding = Out(handling, asked, steering) /\ asked \o steering \in Seq(Nat)
      /\ Outstanding \in Seq(Nat) /\ None \in Nat /\ jobs \in Seq(Nat)
  BY <1>t, Shapes DEF Judged, None
<1>2. /\ handling' = None /\ asked' = Append(asked, handling)
      /\ UNCHANGED <<archive, mine, steering, absorbed>>
  BY DEF Judged, AskAgain
<1>3. /\ asked \o steering # <<>> => mixed' = "overtaken"
      /\ asked \o steering = <<>> /\ mixed = "none" => mixed' = mark
      /\ asked \o steering = <<>> /\ mixed # "none" => mixed' = mixed
  BY DEF AskAgain
<1>4. Outstanding' = Out(None, Append(asked, handling), steering) /\ Outstanding' \in Seq(Nat)
      /\ Outstanding' = asked' \o steering'
  BY <1>2, ShapesThen DEF OutstandingIs
<1>5. /\ With(Outstanding', Out(None, asked, steering), handling)
      /\ With(Outstanding, Out(None, asked, steering), handling)
  BY <1>1, <1>4, OutAppended, OutHandled, ZenonT(30)
<1>6. Len(Outstanding') = Len(Outstanding) /\ Items(Outstanding') = Items(Outstanding)
  BY <1>5 DEF With
<1>7. Distinct(Outstanding')
  BY <1>5, Zenon DEF With, IInv, InOrder
<1>8. InOrder'
  BY <1>2, <1>6, <1>7, StaysIn DEF IInv
<1>9. ASSUME asked \o steering = <<>>
      PROVE  Outstanding' = <<handling>> /\ Outstanding = <<handling>>
  <2>1. asked = <<>> /\ steering = <<>>
    BY <1>1, <1>9, ConcatEqualIffEmpty
  <2>2. <<handling>> \in Seq(Nat) /\ <<>> \in Seq(Nat)
    BY <1>1
  <2>3. <<>> \o <<handling>> = <<handling>> /\ <<handling>> \o <<>> = <<handling>> /\ <<>> \o <<>> = <<>>
    BY <2>2, ConcatEmptySeq
  <2>4. Append(<<>>, handling) = <<handling>>
    OBVIOUS
  <2>5. Outstanding' = <<handling>>
    BY <1>2, <1>4, <2>1, <2>3, <2>4, Zenon
  <2>6. Outstanding = <<handling>>
    <3>0. handling \in Nat /\ handling # None
      BY <1>1
    <3>1. Out(handling, <<>>, <<>>) = (<<handling>> \o <<>>) \o <<>>
      BY <3>0 DEF Out
    <3> QED BY <1>1, <2>1, <2>3, <3>1, Zenon
  <2> QED BY <2>5, <2>6
<1>10. ArchiveMatches'
  <2>1. Len(archive') = Len(Outstanding') + Cardinality(absorbed')
    BY <1>2, <1>6 DEF IInv, ArchiveMatches
  <2>2. absorbed' = {} /\ mixed' # "overtaken" => archive' = Outstanding'
    <3> SUFFICES ASSUME absorbed' = {}, mixed' # "overtaken" PROVE archive' = Outstanding'
      OBVIOUS
    <3>1. asked \o steering = <<>> /\ mixed # "overtaken"
      BY <1>3
    <3> QED BY <1>2, <1>9, <3>1 DEF IInv, ArchiveMatches
  <2> QED BY <2>1, <2>2 DEF ArchiveMatches
<1>11. JobsMatch'
  <2> SUFFICES ASSUME absorbed' = {}, mixed' = "none"
               PROVE  /\ Len(jobs') = Len(asked' \o steering')
                      /\ \A i \in DOMAIN jobs' : jobs'[i] \in {(asked' \o steering')[i], None}
    BY DEF JobsMatch
  <2>1. asked \o steering = <<>> /\ mixed = "none" /\ mark = "none"
    BY <1>3
  <2>2. asked' \o steering' = <<handling>>
    BY <1>4, <1>9, <2>1
  <2>3. Len(jobs) = 0
    <3>1. Len(asked \o steering) = 0
      BY <2>1
    <3> QED BY <1>2, <2>1, <3>1 DEF IInv, JobsMatch
  <2>4. jobs = <<>>
    BY <1>1, <2>3, EmptySeq
  <2>5. jobs' = <<None>>
    BY <2>1, <2>4
  <2> QED BY <2>2, <2>5
<1> QED BY <1>8, <1>10, <1>11

-----------------------------------------------------------------------------
(* Types *)

\* A queue that loses its first, or gets one more, holds the same kind of prompts.
LEMMA QueueTypes ==
    ASSUME NEW S, NEW s \in Seq(S)
    PROVE  /\ Rest(s) \in Seq(S)
           /\ s # <<>> => Head(s) \in S /\ Tail(s) \in Seq(S)
           /\ \A T : S \subseteq T => /\ s \in Seq(T)
                                      /\ \A n \in T : Append(s, n) \in Seq(T)
<1>1. s # <<>> => Head(s) \in S /\ Tail(s) \in Seq(S)
  BY HeadTailProperties
<1>2. Rest(s) \in Seq(S)
  BY <1>1 DEF Rest
<1>3. ASSUME NEW T, S \subseteq T PROVE s \in Seq(T) /\ \A n \in T : Append(s, n) \in Seq(T)
  <2>1. s \in Seq(T)
    BY <1>3, SeqMonotonic
  <2> QED BY <2>1, AppendProperties
<1> QED BY <1>1, <1>2, <1>3

Stages == {"none", "scripts", "hooks"}

\* What a handled result's end may do to the types: a prompt goes back, or a row or a
\* silence is added about it.
LEMMA JudgedTypes ==
    ASSUME Typed, FollowIsNew, Judged, Handled
    PROVE  Typed' /\ FollowIsNew'
<1>t. TypeOK
  BY DEF Typed
<1>1. handling \in mine /\ handling \in 1..given /\ handling' = None /\ open
  BY <1>t, Zenon DEF Judged, TypeOK, FollowIsNew, Handled, HookBlocks, Retry, RetryLimit, Reply,
     ErrorResult, Unwrapped, Scratchpad, TaskBlocks, TaskLog, Over, AskAgain
<1>2. UNCHANGED <<style, given, open, task, aborted, mine, steering, absorbed, follow, late>>
  BY DEF Judged
<1>3. asked' \in Seq(mine)
  <2>1. asked' = asked \/ asked' = Append(asked, handling)
    BY Zenon DEF Handled, HookBlocks, Retry, RetryLimit, Reply,
       ErrorResult, Unwrapped, Scratchpad, TaskBlocks, TaskLog, Over, AskAgain
  <2> QED BY <1>t, <1>1, <2>1, QueueTypes DEF TypeOK
<1>4. archive' \in Seq(mine)
  <2>1. archive' = archive \/ archive' = Rest(archive)
    BY Zenon DEF Handled, HookBlocks, Retry, RetryLimit, Reply,
       ErrorResult, Unwrapped, Scratchpad, TaskBlocks, TaskLog, Over, AskAgain
  <2> QED BY <1>t, <2>1, QueueTypes DEF TypeOK
<1>5. jobs' \in Seq(mine \union {None})
  <2>1. jobs' = jobs \/ jobs' = Append(jobs, None)
    BY Zenon DEF Handled, HookBlocks, Retry, RetryLimit, Reply,
       ErrorResult, Unwrapped, Scratchpad, TaskBlocks, TaskLog, Over
  <2>2. jobs \in Seq(mine \union {None}) /\ None \in mine \union {None}
    BY <1>t DEF TypeOK
  <2> QED BY <2>1, <2>2, AppendProperties
<1>6. rows' \subseteq [kind : {"reply", "notice", "error", "log"}, of : 1..given]
  <2>1. \/ rows' = rows
        \/ \E k \in {"reply", "notice", "error", "log"} : rows' = rows \union {[kind |-> k, of |-> handling]}
    BY DEF Handled, HookBlocks, Retry, RetryLimit, Reply, ErrorResult, Unwrapped, Scratchpad,
       TaskBlocks, TaskLog, Leave, Stopped, Write
  <2> QED BY <1>t, <1>1, <2>1 DEF TypeOK
<1>7. unsaid' \subseteq 1..given
  <2>1. unsaid' = unsaid \/ unsaid' = unsaid \union {handling}
    BY DEF Handled, HookBlocks, Retry, RetryLimit, Reply, ErrorResult, Unwrapped, Scratchpad,
       TaskBlocks, TaskLog, Leave
  <2> QED BY <1>t, <1>1, <2>1 DEF TypeOK
<1>8. /\ unwrappedNudged' \in BOOLEAN /\ taskBlockNudged' \in BOOLEAN
      /\ postHookRetryCount' \in 0..1
  <2>1. unwrappedNudged \in BOOLEAN /\ taskBlockNudged \in BOOLEAN /\ postHookRetryCount \in 0..1
    BY <1>t DEF TypeOK
  <2>2. unwrappedNudged' = unwrappedNudged \/ unwrappedNudged' = TRUE
    BY Zenon DEF Handled, HookBlocks, Retry, RetryLimit, Reply, ErrorResult, Unwrapped, Scratchpad,
       TaskBlocks, TaskLog, flagVars
  <2>3. taskBlockNudged' = taskBlockNudged \/ taskBlockNudged' = TRUE
    BY Zenon DEF Handled, HookBlocks, Retry, RetryLimit, Reply, ErrorResult, Unwrapped, Scratchpad,
       TaskBlocks, TaskLog, flagVars
  <2>4. postHookRetryCount' = postHookRetryCount \/ postHookRetryCount' = 0 \/ postHookRetryCount' = 1
    BY Zenon DEF Handled, HookBlocks, Retry, RetryLimit, Reply, ErrorResult, Unwrapped, Scratchpad,
       TaskBlocks, TaskLog, Passes, flagVars
  <2>5. unwrappedNudged' \in BOOLEAN /\ taskBlockNudged' \in BOOLEAN
    BY <2>1, <2>2, <2>3, Zenon
  <2>6. postHookRetryCount' \in 0..1
    BY <2>1, <2>4
  <2> QED BY <2>5, <2>6, Zenon
<1>9. mixed' \in {"none", "nudged", "overtaken"}
  <2>1. mixed' = mixed \/ mixed' = "overtaken" \/ mixed' = "nudged" \/ mixed' = "none"
    BY DEF Handled, HookBlocks, Retry, RetryLimit, Reply, ErrorResult, Unwrapped, Scratchpad,
       TaskBlocks, TaskLog, Over, AskAgain
  <2> QED BY <1>t, <2>1 DEF TypeOK
<1>10. TypeOK'
  BY <1>t, <1>1, <1>2, <1>3, <1>4, <1>5, <1>6, <1>7, <1>8, <1>9 DEF TypeOK
<1> QED BY <1>1, <1>2, <1>10 DEF Typed, FollowIsNew

\* Every step keeps the types, and a follow-up apart from the query's prompts.
LEMMA TypedStep ==
    ASSUME Typed, FollowIsNew, [Next]_vars
    PROVE  Typed' /\ FollowIsNew'
<1>t. TypeOK /\ follow \in [prompt : 0..given, stage : Stages] /\ given \in Nat
  BY Shapes DEF Typed, Stages
<1>b. open \in BOOLEAN /\ task \in BOOLEAN /\ aborted \in BOOLEAN
      /\ unwrappedNudged \in BOOLEAN /\ taskBlockNudged \in BOOLEAN
  BY <1>t, Zenon DEF TypeOK
<1> USE DEF Stages
<1>n. given < MaxPrompts /\ given' = given + 1 =>
        given' \in 0..MaxPrompts /\ given' \in 1..given' /\ 1..given \subseteq 1..given' /\ given' \notin 1..given
        /\ 0..given \subseteq 0..given'
  BY <1>t, TurnAssumption
<1>a. CASE UNCHANGED vars
  BY <1>a, <1>t DEF vars, queryVars, flagVars, Typed, TypeOK, FollowIsNew
<1>1. ASSUME NEW t \in BOOLEAN, Query(t) PROVE Typed' /\ FollowIsNew'
  <2>1. <<given'>> \in Seq({given'}) /\ <<given'>> \in Seq({given'} \union {None})
        /\ <<>> \in Seq({given'})
    OBVIOUS
  <2>2. /\ given' \in 0..MaxPrompts /\ {given'} \subseteq 1..given' /\ 1..given \subseteq 1..given'
        /\ 0..given \subseteq 0..given'
    BY <1>1, <1>n DEF Query
  <2>3. handling' = None /\ open' = TRUE /\ follow' = follow /\ follow.stage = "none"
    BY <1>1 DEF Query, FollowIsNew
  <2>4. TypeOK'
    <3>1. /\ mine' = {given'} /\ absorbed' = {} /\ steering' = <<>> /\ mixed' = "none"
          /\ asked' = <<given'>> /\ archive' = <<given'>> /\ jobs' = <<given'>>
      BY <1>1 DEF Query
    <3>2. /\ unwrappedNudged' = FALSE /\ taskBlockNudged' = FALSE /\ postHookRetryCount' = 0
          /\ open' = TRUE /\ task' = t /\ aborted' = FALSE
      BY <1>1 DEF Query, Fresh
    <3>3. {open', task', aborted', unwrappedNudged', taskBlockNudged'} \subseteq BOOLEAN
      BY <3>2, Zenon
    <3>4. UNCHANGED <<style, follow, late, unsaid, rows>>
      BY <1>1 DEF Query
    <3>5. /\ late' \subseteq 1..given' /\ unsaid' \subseteq 1..given'
          /\ follow'.prompt \in 0..given' /\ follow'.stage \in {"none", "scripts", "hooks"}
          /\ rows' \subseteq [kind : {"reply", "notice", "error", "log"}, of : 1..given']
      BY <1>t, <2>2, <3>4 DEF TypeOK
    <3>6. /\ mine' \subseteq 1..given' /\ absorbed' \subseteq mine' /\ style' \in Styles
          /\ asked' \in Seq(mine') /\ steering' \in Seq(mine') /\ archive' \in Seq(mine')
          /\ jobs' \in Seq(mine' \union {None}) /\ handling' \in mine' \union {None}
          /\ mixed' \in {"none", "nudged", "overtaken"} /\ postHookRetryCount' \in 0..1
      BY <1>t, <2>1, <2>2, <2>3, <3>1, <3>2, <3>4 DEF TypeOK
    <3> QED BY <2>2, <3>3, <3>5, <3>6 DEF TypeOK
  <2> QED BY <1>t, <2>2, <2>3, <2>4 DEF Typed, FollowIsNew
<1>2. ASSUME NEW t \in BOOLEAN, BatchStopped(t) PROVE Typed' /\ FollowIsNew'
  <2>1. /\ given' \in 0..MaxPrompts /\ given' \in 1..given' /\ 1..given \subseteq 1..given'
        /\ 0..given \subseteq 0..given'
    BY <1>2, <1>n DEF BatchStopped
  <2>2. rows' \subseteq [kind : {"reply", "notice", "error", "log"}, of : 1..given']
    BY <1>2, <1>t, <2>1 DEF BatchStopped, Stopped, Write, TypeOK
  <2>3. TypeOK'
    BY <1>2, <1>t, <1>b, <2>1, <2>2 DEF BatchStopped, TypeOK, queryVars, flagVars
  <2> QED BY <1>2, <1>t, <2>1, <2>3 DEF BatchStopped, queryVars, Typed, FollowIsNew
<1>3. CASE FollowPoll
  <2>1. /\ given' \in 0..MaxPrompts /\ given' \in 1..given' /\ 1..given \subseteq 1..given'
        /\ given' \notin mine /\ mine \subseteq 1..given
    BY <1>3, <1>n, <1>t DEF FollowPoll, TypeOK
  <2>2. follow' = [prompt |-> given', stage |-> "scripts"] /\ open
    BY <1>3 DEF FollowPoll
  <2>3. TypeOK'
    BY <1>3, <1>t, <1>b, <2>1, <2>2 DEF FollowPoll, TypeOK, queryVars, flagVars
  <2> QED BY <1>3, <2>1, <2>2, <2>3 DEF FollowPoll, queryVars, Typed, FollowIsNew
<1>4. CASE Abort
  BY <1>4, <1>t, <1>b DEF Abort, Typed, TypeOK, FollowIsNew, flagVars
<1>5. CASE FollowScripts
  <2>1. \/ follow' = NoFollow
        \/ follow' = [follow EXCEPT !.stage = "hooks"]
    BY <1>5 DEF FollowScripts
  <2>2. /\ follow' \in [prompt : 0..given, stage : Stages]
        /\ follow'.stage # "none" => follow'.prompt = follow.prompt /\ follow.stage # "none"
    BY <1>5, <1>t, <2>1 DEF NoFollow, None, FollowScripts
  <2>3. TypeOK'
    BY <1>5, <1>t, <1>b, <2>2 DEF FollowScripts, TypeOK, queryVars, flagVars
  <2>4. ~open => follow'.stage = "none"
    BY <1>5, <2>2 DEF FollowScripts, FollowIsNew
  <2> QED BY <1>5, <2>2, <2>3, <2>4 DEF FollowScripts, queryVars, Typed, FollowIsNew
<1>6. CASE FollowStopped
  <2>1. follow.prompt \in 1..given /\ follow' = NoFollow
    BY <1>6 DEF FollowStopped, FollowIsNew
  <2>2. rows' \subseteq [kind : {"reply", "notice", "error", "log"}, of : 1..given]
    BY <1>6, <1>t, <2>1 DEF FollowStopped, Stopped, Write, TypeOK
  <2>3. TypeOK'
    BY <1>6, <1>t, <1>b, <2>1, <2>2 DEF FollowStopped, NoFollow, None, TypeOK, queryVars, flagVars
  <2> QED BY <1>6, <1>t, <2>1, <2>3 DEF FollowStopped, NoFollow, None, queryVars, Typed, FollowIsNew
<1>7. CASE FollowPush
  <2>1. PICK n \in 1..given : n = follow.prompt
    BY <1>7 DEF FollowPush, FollowIsNew
  <2>2. /\ mine' = mine \union {n} /\ archive' = Append(archive, n) /\ jobs' = Append(jobs, n)
        /\ follow' = NoFollow /\ open
        /\ UNCHANGED <<style, given, open, task, aborted, handling, absorbed, late, unsaid, rows>>
    BY <1>7, <2>1 DEF FollowPush, FollowIsNew
  <2>3. mine' \subseteq 1..given /\ mine \subseteq mine' /\ n \in mine'
    BY <1>t, <2>2 DEF TypeOK
  <2>4. /\ archive' \in Seq(mine') /\ jobs' \in Seq(mine' \union {None})
        /\ asked \in Seq(mine') /\ Append(asked, n) \in Seq(mine')
        /\ steering \in Seq(mine') /\ Append(steering, n) \in Seq(mine')
    <3>1. archive' \in Seq(mine')
      BY <1>t, <2>2, <2>3, QueueTypes DEF TypeOK
    <3>2. asked \in Seq(mine') /\ Append(asked, n) \in Seq(mine')
      BY <1>t, <2>3, QueueTypes DEF TypeOK
    <3>3. steering \in Seq(mine') /\ Append(steering, n) \in Seq(mine')
      BY <1>t, <2>3, QueueTypes DEF TypeOK
    <3>4. jobs' \in Seq(mine' \union {None})
      <4>1. PICK T : T = mine' \union {None}
        OBVIOUS
      <4>2. jobs \in Seq(mine \union {None}) /\ mine \union {None} \subseteq T /\ n \in T
        BY <1>t, <2>3, <4>1 DEF TypeOK
      <4>3. Append(jobs, n) \in Seq(T)
        BY <4>2, QueueTypes
      <4> QED BY <2>2, <4>1, <4>3
    <3> QED BY <3>1, <3>2, <3>3, <3>4
  <2>5. asked' \in Seq(mine') /\ steering' \in Seq(mine')
    BY <1>7, <2>1, <2>4 DEF FollowPush
  <2>6. mixed' \in {"none", "nudged", "overtaken"}
    BY <1>7, <1>t DEF FollowPush, TypeOK
  <2>7. unwrappedNudged' = FALSE /\ taskBlockNudged' = FALSE /\ postHookRetryCount' = 0
    BY <1>7 DEF FollowPush, Fresh
  <2>8. TypeOK'
    <3>1. {open', task', aborted', unwrappedNudged', taskBlockNudged'} \subseteq BOOLEAN
      BY <1>b, <2>2, <2>7, Zenon
    <3>2. follow'.prompt \in 0..given' /\ follow'.stage \in {"none", "scripts", "hooks"}
      BY <1>t, <2>2 DEF NoFollow, None
    <3>3. /\ mine' \subseteq 1..given' /\ absorbed' \subseteq mine' /\ style' \in Styles
          /\ given' \in 0..MaxPrompts /\ handling' \in mine' \union {None}
          /\ late' \subseteq 1..given' /\ unsaid' \subseteq 1..given' /\ postHookRetryCount' \in 0..1
          /\ rows' \subseteq [kind : {"reply", "notice", "error", "log"}, of : 1..given']
      BY <1>t, <2>2, <2>3, <2>7 DEF TypeOK
    <3> QED BY <2>4, <2>5, <2>6, <3>1, <3>2, <3>3 DEF TypeOK
  <2> QED BY <1>t, <2>2, <2>8 DEF NoFollow, None, Typed, FollowIsNew
<1>8. CASE Steered
  <2>1. /\ Head(steering) \in mine /\ Tail(steering) \in Seq(mine)
        /\ Append(asked, Head(steering)) \in Seq(mine)
    BY <1>8, <1>t, QueueTypes DEF Steered, TypeOK
  <2>2. absorbed' \subseteq mine /\ asked' \in Seq(mine)
    BY <1>8, <1>t, <2>1 DEF Steered, TypeOK
  <2>3. TypeOK'
    BY <1>8, <1>t, <1>b, <2>1, <2>2 DEF Steered, TypeOK, flagVars
  <2> QED BY <1>8, <1>t, <2>3 DEF Steered, Typed, FollowIsNew
<1>9. ASSUME NEW n \in late, FollowLate(n) PROVE Typed' /\ FollowIsNew'
  <2>1. n \in 1..given
    BY <1>t, <1>9 DEF TypeOK
  <2>2. rows' \subseteq [kind : {"reply", "notice", "error", "log"}, of : 1..given]
    BY <1>9, <1>t, <2>1 DEF FollowLate, Write, TypeOK
  <2>3. TypeOK'
    BY <1>9, <1>t, <1>b, <2>2 DEF FollowLate, TypeOK, queryVars, flagVars
  <2> QED BY <1>9, <1>t, <2>3 DEF FollowLate, queryVars, Typed, FollowIsNew
<1>10. CASE Result
  <2>1. /\ Head(asked) \in mine /\ Tail(asked) \in Seq(mine) /\ Rest(archive) \in Seq(mine)
        /\ Rest(jobs) \in Seq(mine \union {None})
    BY <1>10, <1>t, QueueTypes DEF Result, TypeOK
  <2>2. /\ handling' \in mine \union {None} /\ archive' \in Seq(mine) /\ unsaid' \subseteq 1..given
    BY <1>10, <1>t, <2>1 DEF Result, TypeOK
  <2>3. TypeOK'
    BY <1>10, <1>t, <1>b, <2>1, <2>2 DEF Result, TypeOK, flagVars
  <2> QED BY <1>10, <1>t, <2>3 DEF Result, Typed, FollowIsNew
<1>11. CASE Handled
  <2>1. Judged
    BY <1>11 DEF Handled, HookBlocks, Retry, RetryLimit, Reply, ErrorResult, Unwrapped, Scratchpad,
       TaskBlocks, TaskLog, Passes
  <2> QED BY <1>11, <2>1, JudgedTypes
<1>12. CASE ErrorEvent
  <2>1. Head(asked) \in mine /\ Tail(asked) \in Seq(mine)
    BY <1>12, <1>t, QueueTypes DEF ErrorEvent, TypeOK
  <2>2. TypeOK'
    BY <1>12, <1>t, <1>b, <2>1 DEF ErrorEvent, TypeOK, flagVars
  <2> QED BY <1>12, <1>t, <2>2 DEF ErrorEvent, Typed, FollowIsNew
<1>13. ASSUME Throws \/ Ends PROVE Typed' /\ FollowIsNew'
  <2>1. Close /\ handling = None
    BY <1>13 DEF Throws, Ends
  <2>2. rows' \subseteq [kind : {"reply", "notice", "error", "log"}, of : 1..given]
    BY <1>13, <1>t DEF Throws, Ends, Write, TypeOK
  <2>3. late' \subseteq 1..given
    BY <1>t, <2>1 DEF Close, TypeOK, FollowIsNew
  <2>4. <<>> \in Seq({}) /\ <<>> \in Seq({} \union {None})
    OBVIOUS
  <2>5. TypeOK'
    <3>1. /\ open' = FALSE /\ aborted' = FALSE /\ mine' = {} /\ absorbed' = {} /\ mixed' = "none"
          /\ asked' = <<>> /\ steering' = <<>> /\ archive' = <<>> /\ jobs' = <<>>
          /\ follow' = NoFollow
          /\ UNCHANGED <<style, given, task, handling, unwrappedNudged, taskBlockNudged,
                         postHookRetryCount, unsaid>>
      BY <2>1 DEF Close, flagVars
    <3>2. {open', task', aborted', unwrappedNudged', taskBlockNudged'} \subseteq BOOLEAN
      BY <1>b, <3>1, Zenon
    <3>3. follow'.prompt \in 0..given' /\ follow'.stage \in {"none", "scripts", "hooks"}
      BY <1>t, <3>1 DEF NoFollow, None
    <3>4. /\ asked' \in Seq(mine') /\ steering' \in Seq(mine') /\ archive' \in Seq(mine')
          /\ jobs' \in Seq(mine' \union {None})
      BY <2>4, <3>1
    <3> QED BY <1>t, <2>1, <2>2, <2>3, <3>1, <3>2, <3>3, <3>4 DEF TypeOK
  <2> QED BY <1>t, <2>1, <2>5 DEF Close, NoFollow, None, Typed, FollowIsNew
<1> QED
  BY <1>a, <1>1, <1>2, <1>3, <1>4, <1>5, <1>6, <1>7, <1>8, <1>9, <1>10, <1>11, <1>12, <1>13 DEF Next

-----------------------------------------------------------------------------
(* Results find their prompts *)

\* The end of a handled result, whatever it is.
LEMMA QueuesHandled ==
    ASSUME IInv, Typed', Handled
    PROVE  InOrder' /\ ArchiveMatches' /\ JobsMatch'
<1>1. CASE HookBlocks \/ RetryLimit \/ Reply \/ ErrorResult \/ Scratchpad \/ TaskLog
  <2>1. Judged /\ Over
    BY <1>1 DEF HookBlocks, RetryLimit, Reply, ErrorResult, Scratchpad, TaskLog, Passes
  <2>2. \/ unsaid' = unsaid \union {handling} /\ rows' = rows
        \/ unsaid' = unsaid /\ \E k \in {"reply", "notice", "error", "log"} :
                                  rows' = rows \union {[kind |-> k, of |-> handling]}
    BY <1>1 DEF HookBlocks, RetryLimit, Reply, ErrorResult, Scratchpad, TaskLog, Leave, Stopped, Write
  <2>3. /\ unsaid \subseteq unsaid' /\ rows \subseteq rows'
        /\ handling \in unsaid' \/ \E r \in rows' : r.of = handling
    <3>1. ASSUME NEW k, rows' = rows \union {[kind |-> k, of |-> handling]}
          PROVE  rows \subseteq rows' /\ \E r \in rows' : r.of = handling
      <4>1. [kind |-> k, of |-> handling] \in rows' /\ [kind |-> k, of |-> handling].of = handling
        BY <3>1
      <4> QED BY <3>1, <4>1
    <3> QED BY <2>2, <3>1
  <2> QED BY <2>1, <2>3, QueuesOver
<1>2. CASE Retry
  <2>1. /\ Judged /\ AskAgain("none") /\ jobs' = Append(jobs, None)
        /\ unsaid' = unsaid /\ rows' = rows
    BY <1>2 DEF Retry
  <2> QED BY <2>1, QueuesAgain
<1>3. CASE Unwrapped \/ TaskBlocks
  <2>1. /\ Judged /\ AskAgain("nudged") /\ jobs' = jobs
        /\ unsaid' = unsaid /\ rows \subseteq rows'
    BY <1>3 DEF Unwrapped, TaskBlocks, Passes, Write
  <2> QED BY <2>1, QueuesAgain
<1> QED BY <1>1, <1>2, <1>3 DEF Handled

\* Every step keeps the queues in order and the archive and the jobs with them.
LEMMA QueuesStep ==
    ASSUME IInv, Typed', [Next]_vars
    PROVE  InOrder' /\ ArchiveMatches' /\ JobsMatch'
<1>0. ASSUME UNCHANGED <<handling, asked, steering, mine, absorbed, archive, jobs, mixed>>,
             unsaid \subseteq unsaid', rows \subseteq rows'
      PROVE  InOrder' /\ ArchiveMatches' /\ JobsMatch'
  <2>1. Outstanding' = Outstanding /\ asked' \o steering' = asked \o steering
    BY <1>0 DEF Outstanding
  <2> QED BY <1>0, <2>1, QueuesRest
<1>a. CASE UNCHANGED vars
  BY <1>a, <1>0 DEF vars, queryVars
<1>1. ASSUME NEW t \in BOOLEAN, Query(t) PROVE InOrder' /\ ArchiveMatches' /\ JobsMatch'
  <2>1. handling' = None /\ given' \in Nat
    BY <1>1, Shapes DEF Query, IInv, FollowIsNew
  <2>2. PICK n \in Nat : n = given'
    BY <2>1
  <2>3. /\ mine' = {n} /\ asked' = <<n>> /\ archive' = <<n>> /\ jobs' = <<n>>
        /\ steering' = <<>> /\ absorbed' = {}
    BY <1>1, <2>2 DEF Query
  <2> QED BY <2>1, <2>3, QueuesFresh
<1>2. ASSUME NEW t \in BOOLEAN, BatchStopped(t) PROVE InOrder' /\ ArchiveMatches' /\ JobsMatch'
  BY <1>2, <1>0 DEF BatchStopped, Stopped, Write, queryVars
<1>3. CASE FollowPoll \/ FollowScripts \/ FollowStopped
  BY <1>3, <1>0 DEF FollowPoll, FollowScripts, FollowStopped, Stopped, Write, queryVars
<1>4. CASE Abort
  BY <1>4, <1>0 DEF Abort
<1>5. ASSUME NEW n \in late, FollowLate(n) PROVE InOrder' /\ ArchiveMatches' /\ JobsMatch'
  BY <1>5, <1>0 DEF FollowLate, Write, queryVars
<1>6. CASE Throws \/ Ends
  <2>1. Close /\ handling = None
    BY <1>6 DEF Throws, Ends
  <2>2. /\ handling' = None /\ steering' = <<>> /\ absorbed' = {} /\ mine' = {}
        /\ asked' = <<>> /\ archive' = <<>> /\ jobs' = <<>>
    BY <2>1 DEF Close
  <2> QED BY <2>2, QueuesFresh
<1> QED
  BY <1>a, <1>1, <1>2, <1>3, <1>4, <1>5, <1>6, QueuesPush, QueuesSteered, QueuesResult,
     QueuesError, QueuesHandled DEF Next

\* At the start there is no prompt at all.
LEMMA InitHolds == Init => IInv
<1> SUFFICES ASSUME Init PROVE IInv
  OBVIOUS
<1>1. /\ asked = <<>> /\ steering = <<>> /\ archive = <<>> /\ jobs = <<>> /\ handling = None
      /\ mine = {} /\ absorbed = {}
  BY DEF Init
<1>2. <<>> \in Seq({}) /\ <<>> \in Seq({} \union {None}) /\ <<>> \in Seq(Nat)
  OBVIOUS
<1>3. Outstanding = <<>> /\ asked \o steering = <<>>
  BY <1>1, <1>2, ConcatEmptySeq DEF Outstanding
<1>4. {open, task, aborted, unwrappedNudged, taskBlockNudged} \subseteq BOOLEAN
  BY Zenon DEF Init
<1>5. /\ asked \in Seq(mine) /\ steering \in Seq(mine) /\ archive \in Seq(mine)
      /\ jobs \in Seq(mine \union {None}) /\ handling \in mine \union {None}
  BY <1>1, <1>2
<1>6. follow.prompt \in 0..given /\ follow.stage = "none"
      /\ follow \in [prompt : 0..given, stage : {"none", "scripts", "hooks"}]
  BY DEF Init, NoFollow, None
<1>7. /\ style \in Styles /\ given \in 0..MaxPrompts /\ postHookRetryCount \in 0..1
      /\ late \subseteq 1..given /\ unsaid \subseteq 1..given /\ mixed \in {"none", "nudged", "overtaken"}
      /\ rows \subseteq [kind : {"reply", "notice", "error", "log"}, of : 1..given]
      /\ mine \subseteq 1..given /\ absorbed \subseteq mine
  BY TurnAssumption DEF Init
<1>8. Typed
  BY <1>4, <1>5, <1>6, <1>7 DEF Typed, TypeOK
<1>9. FollowIsNew
  BY <1>1, <1>6 DEF FollowIsNew
<1>10. InOrder
  BY <1>1, <1>3 DEF InOrder, Distinct, AbsorbedIsGone, Accounted
<1>11. ArchiveMatches /\ JobsMatch
  BY <1>1, <1>3, FS_EmptySet DEF ArchiveMatches, JobsMatch
<1> QED BY <1>8, <1>9, <1>10, <1>11 DEF IInv

\* The invariant is inductive: types first, then the queues.
LEMMA StepHolds == IInv /\ [Next]_vars => IInv'
<1> SUFFICES ASSUME IInv, [Next]_vars PROVE IInv'
  OBVIOUS
<1>1. Typed' /\ FollowIsNew'
  BY TypedStep DEF IInv
<1> QED BY <1>1, QueuesStep DEF IInv

\* The loop's variables keep their types; prompts are those that were formed, each
\* flag is set at most once, a hook's retries stay at the limit.
THEOREM TurnTypes == Spec => []TypeOK
<1>1. IInv => TypeOK
  BY DEF IInv, Typed
<1> QED BY <1>1, InitHolds, StepHolds, PTL DEF Spec

\* Whatever pushes, hooks, retries, nudges and failed requests come between, the
\* archive's queue covers what is outstanding and names it while nothing was
\* overtaken, the usage jobs are those of the turns to come, and every prompt of
\* the query waits, was answered or cannot be.
THEOREM PromptsFound == Spec => []PromptsMatch
<1>1. IInv => PromptsMatch
  BY InvariantGives
<1> QED BY <1>1, InitHolds, StepHolds, PTL DEF Spec

=============================================================================
