--------------------------- MODULE Outbound_proofs ----------------------------
(***************************************************************************)
(* Proofs about what leaves a session. SeqNumbers: for any number of       *)
(* writers and rows, no row of the container shares its number with an     *)
(* inbound one. Delivery: for any sessions, queues and limits, a session is*)
(* drained by one chain at a time, from a snapshot that stays true, and    *)
(* what the chains do together is what Outbox promises.                    *)
(***************************************************************************)
EXTENDS Delivery, SeqNumbers, TLAPS, WellFoundedInduction

(* A non-empty set of natural numbers has a least element, and a bounded one a
   greatest: what MAX(seq) rests on. *)

\* The order on Nat, as the set of pairs the library's facts are about.
LEMMA LessIsWellFounded == IsWellFoundedOn(OpToRel(<, Nat), Nat)
BY NatLessThanWellFounded

\* Less-than, as the relation the library speaks of.
LEMMA LessIsOrder == \A a, b \in Nat : a < b => <<a, b>> \in OpToRel(<, Nat)
BY DEF OpToRel

\* A set of numbers has an element no other is less than.
LEMMA MinimalIsLeast ==
    ASSUME NEW R, IsWellFoundedOn(R, Nat), \A a, b \in Nat : a < b => <<a, b>> \in R,
           NEW T, T \subseteq Nat, T # {}
    PROVE  \E x \in T : \A y \in T : ~(y < x)
<1>1. ASSUME NEW Q, IsWellFoundedOn(Q, Nat), NEW U, U \subseteq Nat, U # {}
      PROVE  \E x \in U : \A y \in U : <<y, x>> \notin Q
  BY ONLY <1>1, WFMin
<1>2. \E x \in T : \A y \in T : <<y, x>> \notin R
  BY <1>1
<1> QED BY <1>2

\* The least number of a set: the oldest message, the first row.
LEMMA LeastExists ==
    ASSUME NEW T, T \subseteq Nat, T # {}
    PROVE  \E x \in T : \A y \in T : x <= y
<1>1. \E x \in T : \A y \in T : ~(y < x)
  BY LessIsWellFounded, LessIsOrder, MinimalIsLeast
<1> QED BY <1>1

\* The greatest number of a bounded set: MAX(seq).
LEMMA GreatestExists ==
    ASSUME NEW N \in Nat, NEW S, S \subseteq 0..N, S # {}
    PROVE  \E x \in S : \A y \in S : y <= x
<1> DEFINE T == {N - k : k \in S}
<1>1. \A k \in S : k \in 0..N /\ N - k \in Nat
  OBVIOUS
<1>. T \subseteq Nat /\ T # {}
  BY <1>1
<1>2. PICK t \in T : \A u \in T : t <= u
  <2> HIDE DEF T
  <2> QED BY LeastExists
<1>3. PICK n \in S : t = N - n
  OBVIOUS
<1>4. \A k \in S : k <= n
  <2> TAKE k \in S
  <2>1. N - n <= N - k
    BY <1>1, <1>2, <1>3
  <2> QED BY <1>1, <2>1
<1> QED BY <1>4

-----------------------------------------------------------------------------
(* The maxima *)

\* MAX(seq), 0 without rows, is a number in range.
LEMMA TopInRange ==
    ASSUME NEW S, S \subseteq 1..MaxSeq PROVE Top(S) \in 0..MaxSeq
<1> USE SeqAssumption
<1>1. CASE S = {}
  BY <1>1 DEF Top
<1>2. CASE S # {}
  <2>1. S \subseteq 0..MaxSeq
    OBVIOUS
  <2>2. \E n \in S : \A k \in S : k <= n
    BY <1>2, <2>1, GreatestExists
  <2>3. Top(S) \in S
    BY <1>2, <2>2 DEF Top
  <2> QED BY <2>1, <2>3
<1> QED BY <1>1, <1>2

\* The two maxima, and the larger of them.
LEMMA Maxima ==
    ASSUME SeqTypeOK
    PROVE  /\ Top(inSeqs) \in 0..MaxSeq /\ Top(outSeqs) \in 0..MaxSeq
           /\ Larger(Top(outSeqs), Top(inSeqs)) \in Nat
<1>1. inSeqs \subseteq 1..MaxSeq /\ outSeqs \subseteq 1..MaxSeq
  BY DEF SeqTypeOK
<1>2. Top(inSeqs) \in 0..MaxSeq
  BY <1>1, TopInRange
<1>3. Top(outSeqs) \in 0..MaxSeq
  BY <1>1, TopInRange
<1> QED BY <1>2, <1>3, SeqAssumption DEF Larger

\* The parity of what each side hands out.
LEMMA Parities ==
    ASSUME NEW n \in Nat
    PROVE  /\ NextEven(n) \in Nat \ {0} /\ NextEven(n) % 2 = 0
           /\ NextOdd(n) \in Nat \ {0} /\ NextOdd(n) % 2 = 1
BY DEF NextEven, NextOdd

-----------------------------------------------------------------------------
(* Types *)

\* Every step keeps the types.
LEMMA TypesStep == ASSUME SeqTypeOK, [SeqNext]_seqVars PROVE SeqTypeOK'
<1> USE SeqAssumption
<1>1. CASE UNCHANGED seqVars
  BY <1>1 DEF SeqTypeOK, seqVars, tables
<1>2. CASE HostInsert
  <2>1. NextEven(Top(inSeqs)) \in 1..MaxSeq
    BY <1>2, Maxima, Parities DEF HostInsert
  <2> QED BY <1>2, <2>1 DEF SeqTypeOK, HostInsert
<1>3. CASE HostDirect
  <2>1. Top(outSeqs) + 2 \in 1..MaxSeq
    BY <1>3, Maxima DEF HostDirect
  <2> QED BY <1>3, <2>1 DEF SeqTypeOK, HostDirect
<1>4. CASE Request
  <2>1. Larger(Top(outSeqs), Top(inSeqs)) \in Nat
    BY Maxima
  <2>2. NextOdd(Larger(Top(outSeqs), Top(inSeqs))) \in 1..MaxSeq
    BY <1>4, <2>1, Parities DEF Request
  <2> QED BY <1>4, <2>2 DEF SeqTypeOK, Request
<1>5. ASSUME NEW w \in Writers, ReadOut(w) PROVE SeqTypeOK'
  <2>1. Top(outSeqs) \in 0..MaxSeq
    BY Maxima
  <2> QED BY <1>5, <2>1 DEF SeqTypeOK, ReadOut, tables
<1>6. ASSUME NEW w \in Writers, ReadIn(w) PROVE SeqTypeOK'
  <2>1. Top(inSeqs) \in 0..MaxSeq
    BY Maxima
  <2> QED BY <1>6, <2>1 DEF SeqTypeOK, ReadIn, tables
<1>7. ASSUME NEW w \in Writers, Insert(w) PROVE SeqTypeOK'
  <2> DEFINE n == NextOdd(Larger(maxOut[w], maxIn[w]))
  <2>1. Larger(maxOut[w], maxIn[w]) \in Nat
    BY DEF SeqTypeOK, Larger
  <2>2. n \in 1..MaxSeq
    BY <1>7, <2>1, Parities DEF Insert
  <2> HIDE DEF n
  <2>3. /\ outSeqs' = outSeqs \union {n}
        /\ pc' = [pc EXCEPT ![w] = "idle"] /\ UNCHANGED <<inSeqs, direct, maxOut, maxIn>>
    BY <1>7 DEF Insert, n
  <2> QED BY <2>2, <2>3 DEF SeqTypeOK
<1> QED BY <1>1, <1>2, <1>3, <1>4, <1>5, <1>6, <1>7 DEF SeqNext

\* For any number of writers and rows the columns and what was read keep their
\* types: no number at all is handed out outside the range of the table.
THEOREM SeqTypes == SeqSpec => []SeqTypeOK
<1>1. SeqInit => SeqTypeOK
  BY SeqAssumption DEF SeqInit, SeqTypeOK
<1> QED BY <1>1, TypesStep, PTL DEF SeqSpec

-----------------------------------------------------------------------------
(* The two parities *)

\* The host numbers its table even, the container the other one odd.
Parity ==
    /\ SeqTypeOK
    /\ \A n \in inSeqs : n % 2 = 0
    /\ \A n \in outSeqs \ direct : n % 2 = 1

\* Every step keeps the parity of both sides.
LEMMA ParityStep ==
    ASSUME Parity, [SeqNext]_seqVars PROVE Parity'
<1> USE SeqAssumption DEF Parity
<1>1. SeqTypeOK'
  BY TypesStep
<1>2. CASE UNCHANGED seqVars
  BY <1>1, <1>2 DEF seqVars, tables
<1>3. CASE HostInsert
  <2>1. NextEven(Top(inSeqs)) % 2 = 0
    BY Maxima, Parities
  <2> QED BY <1>1, <1>3, <2>1 DEF HostInsert
<1>4. CASE HostDirect
  BY <1>1, <1>4 DEF HostDirect
<1>5. CASE Request
  <2>1. Larger(Top(outSeqs), Top(inSeqs)) \in Nat
    BY Maxima
  <2>2. NextOdd(Larger(Top(outSeqs), Top(inSeqs))) % 2 = 1
    BY <2>1, Parities
  <2> QED BY <1>1, <1>5, <2>2 DEF Request
<1>6. ASSUME NEW w \in Writers, ReadOut(w) \/ ReadIn(w) PROVE Parity'
  BY <1>1, <1>6 DEF ReadOut, ReadIn, tables
<1>7. ASSUME NEW w \in Writers, Insert(w) PROVE Parity'
  <2> DEFINE n == NextOdd(Larger(maxOut[w], maxIn[w]))
  <2>1. Larger(maxOut[w], maxIn[w]) \in Nat
    BY DEF SeqTypeOK, Larger
  <2>2. n % 2 = 1
    BY <2>1, Parities
  <2> HIDE DEF n
  <2>3. outSeqs' = outSeqs \union {n} /\ UNCHANGED <<inSeqs, direct>>
    BY <1>7 DEF Insert, n
  <2> QED BY <1>1, <2>2, <2>3
<1> QED BY <1>2, <1>3, <1>4, <1>5, <1>6, <1>7 DEF SeqNext

\* A row of messages_in has an even number, a row the container writes an odd one,
\* in every reachable state: the agent's edits and reactions are not ambiguous.
THEOREM RowsApart == SeqSpec => []ContainerRowsApart
<1>1. SeqInit => Parity
  BY SeqAssumption DEF SeqInit, SeqTypeOK, Parity
<1>2. Parity /\ [SeqNext]_seqVars => Parity'
  BY ParityStep
<1>3. Parity => ContainerRowsApart
  BY DEF Parity, ContainerRowsApart
<1> QED BY <1>1, <1>2, <1>3, PTL DEF SeqSpec

-----------------------------------------------------------------------------
(* Delivery: one sender at a time                                          *)

\* The guard set holds exactly what the chains are busy with: a chain at work has
\* its session in inflightDeliveries, an idle one holds none.
Guarded ==
    \A c \in Chains :
        /\ at[c] # None => at[c] \in inflight /\ stage[c] \in {"send", "sent"}
        /\ at[c] = None => stage[c] \in {"idle", "walk"}

IInv == TypeOK /\ Guarded /\ OneSender

\* What Advance does to the chain that calls it, and to nobody else.
LEMMA AdvanceTypes ==
    ASSUME TypeOK, NEW c \in Chains, Advance(c)
    PROVE  /\ stage' \in [Chains -> Stages] /\ at' \in [Chains -> Sessions \union {None}]
           /\ queue' \in [Chains -> SUBSET Seqs] /\ inflight' \subseteq Sessions
           /\ \A d \in Chains \ {c} :
                 stage'[d] = stage[d] /\ at'[d] = at[d] /\ queue'[d] = queue[d]
           /\ queue'[c] = queue[c] \ {First(queue[c])}
           /\ \/ at'[c] = None /\ stage'[c] = "walk" /\ inflight' = inflight \ {at[c]}
              \/ at'[c] = at[c] /\ stage'[c] = "send" /\ inflight' = inflight
BY DEF TypeOK, Advance, Stages

\* Leaving a row behind, recorded or not, keeps the chains apart: no other chain
\* is in this session, and no row this chain still holds is touched.
LEMMA AdvanceKeeps ==
    ASSUME IInv, NEW c \in Chains, at[c] # None, Advance(c),
           \A m \in Outs : settled'[m] = settled[m] \/ m = Current(c)
    PROVE  Guarded' /\ OneSender'
<1>1. Guarded'
  <2> SUFFICES ASSUME NEW d \in Chains
               PROVE  /\ at'[d] # None => at'[d] \in inflight' /\ stage'[d] \in {"send", "sent"}
                      /\ at'[d] = None => stage'[d] \in {"idle", "walk"}
    BY DEF Guarded
  <2>1. CASE d = c
    BY <2>1, AdvanceTypes DEF IInv, Guarded
  <2>2. CASE d # c
    <3>1. at[d] # None => at[d] # at[c]
      BY <2>2 DEF IInv, OneSender
    <3> QED BY <2>2, <3>1, AdvanceTypes DEF IInv, Guarded
  <2> QED BY <2>1, <2>2
<1>2. OneSender'
  <2> SUFFICES ASSUME NEW d \in Chains, at'[d] # None
               PROVE  /\ \A e \in Chains \ {d} : at'[e] # at'[d]
                      /\ \A i \in queue'[d] : settled'[<<at'[d], i>>] = "none"
    BY DEF OneSender
  <2>1. at'[d] = at[d] /\ at[d] # None /\ \A e \in Chains : at'[e] = at[e] \/ at'[e] = None
    BY AdvanceTypes DEF IInv
  <2>2. \A e \in Chains \ {d} : at'[e] # at'[d]
    BY <2>1 DEF IInv, OneSender
  <2>3. \A i \in queue'[d] : /\ i \in queue[d] /\ <<at[d], i>> # Current(c)
                             /\ <<at[d], i>> \in Outs
    BY <2>1, AdvanceTypes DEF IInv, OneSender, Current, TypeOK, Outs
  <2> QED BY <2>1, <2>2, <2>3 DEF IInv, OneSender
<1> QED BY <1>1, <1>2

\* Actions that touch neither chains nor outcomes.
LEMMA FrameKeeps ==
    ASSUME IInv, UNCHANGED <<at, queue, stage, inflight, settled>>
    PROVE  Guarded' /\ OneSender'
BY DEF IInv, Guarded, OneSender

\* At first no chain is at work and nothing is in flight.
LEMMA InitHolds == Init => IInv
<1> SUFFICES ASSUME Init PROVE IInv
  OBVIOUS
<1> USE DeliveryAssumption DEF Init
<1>1. written \in [Sessions -> 0..MaxOut] /\ seen \in [Outs -> 0..MaxSeen]
  OBVIOUS
<1>2. attempts \in [Outs -> 0..MaxAttempts - 1]
  OBVIOUS
<1>3. settled \in [Outs -> Outcomes] /\ stage \in [Chains -> Stages]
  BY DEF Outcomes, Stages
<1>4. /\ unrouted \subseteq Outs /\ running \subseteq Sessions /\ open \subseteq Sessions
      /\ inflight \subseteq Sessions /\ hung \subseteq Chains
  OBVIOUS
<1>5. /\ todo \in [Chains -> SUBSET Sessions] /\ at \in [Chains -> Sessions \union {None}]
      /\ queue \in [Chains -> SUBSET Seqs]
  OBVIOUS
<1>6. TypeOK
  BY <1>1, <1>2, <1>3, <1>4, <1>5 DEF TypeOK
<1>7. Guarded /\ OneSender
  BY DEF Guarded, OneSender
<1> QED BY <1>6, <1>7 DEF IInv

\* Every step keeps the invariant.
LEMMA StepHolds == ASSUME IInv, [Next]_vars PROVE IInv'
<1> USE DeliveryAssumption
<1>t. TypeOK
  BY DEF IInv
<1>a. CASE UNCHANGED vars
  <2>1. TypeOK'
    BY <1>a, <1>t DEF TypeOK, vars, fileVars, sessionVars, chainVars
  <2> QED BY <1>a, <2>1, FrameKeeps DEF IInv, vars, fileVars, chainVars
<1>1. ASSUME NEW s \in Sessions, Write(s) PROVE IInv'
  <2>1. written' \in [Sessions -> 0..MaxOut]
    <3>1. written[s] + 1 \in 0..MaxOut
      BY <1>1, <1>t DEF Write, TypeOK
    <3> QED BY <1>1, <1>t, <3>1 DEF Write, TypeOK
  <2>2. unrouted' \subseteq Outs
    <3>1. written[s] + 1 \in Seqs
      BY <1>1, <1>t DEF Write, TypeOK, Seqs
    <3>2. <<s, written[s] + 1>> \in Outs
      BY <3>1 DEF Outs
    <3>3. unrouted' = unrouted \/ unrouted' = unrouted \union {<<s, written[s] + 1>>}
      BY <1>1 DEF Write
    <3> QED BY <1>t, <3>2, <3>3 DEF TypeOK
  <2>3. TypeOK'
    BY <1>1, <1>t, <2>1, <2>2 DEF Write, TypeOK, sessionVars, chainVars
  <2> QED BY <1>1, <2>3, FrameKeeps DEF Write, IInv, chainVars
<1>2. ASSUME NEW s \in Sessions, ContainerUp(s) \/ ContainerDown(s) \/ CloseTask(s) PROVE IInv'
  <2>1. TypeOK'
    BY <1>2, <1>t DEF ContainerUp, ContainerDown, CloseTask, TypeOK, fileVars, chainVars
  <2> QED BY <1>2, <2>1, FrameKeeps DEF ContainerUp, ContainerDown, CloseTask, IInv, fileVars, chainVars
<1>3. CASE HostRestart
  <2>1. attempts' \in [Outs -> 0..MaxAttempts - 1]
    BY <1>3 DEF HostRestart
  <2>2. TypeOK'
    BY <1>3, <1>t, <2>1 DEF HostRestart, TypeOK, fileVars, sessionVars, Stages
  <2>3. Guarded' /\ OneSender'
    BY <1>3 DEF HostRestart, Guarded, OneSender
  <2> QED BY <2>2, <2>3 DEF IInv
<1>4. ASSUME NEW c \in Chains, Tick(c) \/ EnterFails(c) \/ TickEnds(c) PROVE IInv'
  <2>1. TypeOK'
    BY <1>4, <1>t DEF Tick, EnterFails, TickEnds, TypeOK, fileVars, sessionVars, Stages
  <2>2. /\ UNCHANGED <<at, queue, inflight, settled>> /\ at[c] = None
        /\ stage'[c] \in {"idle", "walk"} /\ \A d \in Chains \ {c} : stage'[d] = stage[d]
    BY <1>4 DEF Tick, EnterFails, TickEnds, fileVars, IInv, TypeOK, Guarded
  <2>3. Guarded' /\ OneSender'
    BY <2>2 DEF IInv, Guarded, OneSender
  <2> QED BY <2>1, <2>3 DEF IInv
<1>5. ASSUME NEW c \in Chains, NEW s \in Sessions, Enter(c, s) PROVE IInv'
  <2>1. Undelivered(s) \subseteq Seqs
    BY DEF Undelivered, Due
  <2>2. TypeOK'
    BY <1>5, <1>t, <2>1 DEF Enter, TypeOK, fileVars, sessionVars, Stages
  <2>3. CASE UNCHANGED <<inflight, stage, at, queue>>
    BY <1>5, <2>2, <2>3, FrameKeeps DEF Enter, IInv, fileVars
  <2>4. CASE s \notin inflight /\ Undelivered(s) # {}
    <3>1. /\ inflight' = inflight \union {s} /\ UNCHANGED settled
          /\ stage'[c] = "send" /\ at'[c] = s /\ queue'[c] = Undelivered(s)
          /\ \A d \in Chains \ {c} :
                stage'[d] = stage[d] /\ at'[d] = at[d] /\ queue'[d] = queue[d]
      BY <1>5, <2>4, <1>t DEF Enter, TypeOK, fileVars
    <3>2. \A d \in Chains : at[d] # s
      BY <2>4, DeliveryAssumption DEF IInv, Guarded
    <3>3. Guarded'
      BY <3>1, DeliveryAssumption DEF IInv, Guarded
    <3>4. OneSender'
      BY <3>1, <3>2 DEF IInv, OneSender, Undelivered
    <3> QED BY <2>2, <3>3, <3>4 DEF IInv
  <2> QED BY <1>5, <2>3, <2>4 DEF Enter
<1>6. ASSUME NEW c \in Chains, Effect(c) PROVE IInv'
  <2>1. seen' \in [Outs -> 0..MaxSeen]
    <3>1. \A k \in 0..MaxSeen : (IF k < MaxSeen THEN k + 1 ELSE k) \in 0..MaxSeen
      OBVIOUS
    <3>2. seen' = [seen EXCEPT ![Current(c)] = IF @ < MaxSeen THEN @ + 1 ELSE @]
      BY <1>6 DEF Effect
    <3> QED BY <1>t, <3>1, <3>2 DEF TypeOK
  <2>2. TypeOK'
    BY <1>6, <1>t, <2>1 DEF Effect, TypeOK, sessionVars, Stages
  <2>3. /\ UNCHANGED <<at, queue, inflight, settled>> /\ at[c] # None
        /\ stage'[c] = "sent" /\ \A d \in Chains \ {c} : stage'[d] = stage[d]
    BY <1>6, <1>t DEF Effect, Busy, TypeOK
  <2>4. Guarded' /\ OneSender'
    BY <2>3 DEF IInv, Guarded, OneSender
  <2> QED BY <2>2, <2>4 DEF IInv
<1>7. ASSUME NEW c \in Chains, Record(c) PROVE IInv'
  <2>1. Advance(c) /\ at[c] # None
    BY <1>7 DEF Record, Busy
  <2>2. settled' \in [Outs -> Outcomes] /\ attempts' \in [Outs -> 0..MaxAttempts - 1]
    <3>1. settled' \in [Outs -> Outcomes]
      BY <1>7, <1>t DEF Record, TypeOK, Outcomes
    <3>2. 0 \in 0..MaxAttempts - 1
      OBVIOUS
    <3>3. attempts' = [attempts EXCEPT ![Current(c)] = 0]
      BY <1>7 DEF Record
    <3> QED BY <1>t, <3>1, <3>2, <3>3 DEF TypeOK
  <2>3. TypeOK'
    BY <1>7, <1>t, <2>1, <2>2, AdvanceTypes DEF Record, TypeOK, sessionVars
  <2>4. \A m \in Outs : settled'[m] = settled[m] \/ m = Current(c)
    BY <1>7, <1>t DEF Record, TypeOK
  <2> QED BY <2>1, <2>3, <2>4, AdvanceKeeps DEF IInv
<1>8. ASSUME NEW c \in Chains, Fail(c) PROVE IInv'
  <2>1. Advance(c) /\ at[c] # None
    BY <1>8 DEF Fail, Busy
  <2>2. settled' \in [Outs -> Outcomes]
    BY <1>8, <1>t DEF Fail, TypeOK, Outcomes
  <2>3. attempts' \in [Outs -> 0..MaxAttempts - 1]
    BY <1>8, <1>t DEF Fail, TypeOK
  <2>4. TypeOK'
    BY <1>8, <1>t, <2>1, <2>2, <2>3, AdvanceTypes DEF Fail, TypeOK, sessionVars
  <2>5. \A m \in Outs : settled'[m] = settled[m] \/ m = Current(c)
    BY <1>8, <1>t DEF Fail, TypeOK
  <2> QED BY <2>1, <2>4, <2>5, AdvanceKeeps DEF IInv
<1>9. ASSUME NEW c \in Chains, Hang(c) PROVE IInv'
  <2>1. TypeOK'
    BY <1>9, <1>t DEF Hang, TypeOK, fileVars, sessionVars
  <2> QED BY <1>9, <2>1, FrameKeeps DEF Hang, IInv, fileVars
<1> QED
  BY <1>a, <1>1, <1>2, <1>3, <1>4, <1>5, <1>6, <1>7, <1>8, <1>9 DEF Next, Outside, Chain

\* Rows, outcomes and the chains' memory keep their types, the attempt counter its
\* limit.
THEOREM DeliveryTypes == Spec => []TypeOK
<1>1. IInv => TypeOK
  BY DEF IInv
<1> QED BY <1>1, InitHolds, StepHolds, PTL DEF Spec

\* A session has one sender at a time, whose snapshot of the table delivered stays
\* true until it is done with it.
THEOREM SingleSender == Spec => []OneSender
<1>1. IInv => OneSender
  BY DEF IInv
<1> QED BY <1>1, InitHolds, StepHolds, PTL DEF Spec

-----------------------------------------------------------------------------
(* Delivery: what the chains do together is what Outbox promises           *)

\* Outcomes are about rows that were written, and so is what a chain has still to do.
OutcomesWritten == \A m \in Outs : settled[m] # "none" => m[2] <= written[m[1]]
QueuesWritten ==
    \A c \in Chains : at[c] # None => queue[c] # {} /\ \A i \in queue[c] : i <= written[at[c]]

\* The inductive invariant the refinement rests on.
RInv == IInv /\ OutcomesWritten /\ QueuesWritten

\* The message a chain is at is one of its queue, written and without outcome.
LEMMA CurrentIsDue ==
    ASSUME RInv, NEW c \in Chains, at[c] # None
    PROVE  /\ First(queue[c]) \in queue[c] /\ Current(c) \in Outs
           /\ Current(c)[1] = at[c] /\ Current(c)[2] <= written[at[c]]
           /\ settled[Current(c)] = "none"
<1>1. queue[c] \subseteq Nat /\ queue[c] \subseteq Seqs /\ queue[c] # {} /\ at[c] \in Sessions
  BY DEF RInv, IInv, TypeOK, QueuesWritten, Seqs
<1>2. \E i \in queue[c] : \A j \in queue[c] : i <= j
  BY <1>1, LeastExists
<1>3. First(queue[c]) \in queue[c]
  BY <1>2 DEF First
<1> QED BY <1>1, <1>3 DEF RInv, IInv, OneSender, QueuesWritten, Current, Outs

\* What Advance leaves of the queue is what was read, less a row.
LEMMA AdvanceQueues ==
    ASSUME RInv, NEW c \in Chains, at[c] # None, Advance(c), UNCHANGED written
    PROVE  QueuesWritten'
<1> SUFFICES ASSUME NEW d \in Chains, at'[d] # None
             PROVE  queue'[d] # {} /\ \A i \in queue'[d] : i <= written[at'[d]]
  BY DEF QueuesWritten
<1>t. TypeOK
  BY DEF RInv, IInv
<1>1. CASE d # c
  BY <1>1, <1>t, AdvanceTypes DEF RInv, QueuesWritten
<1>2. CASE d = c
  <2>1. queue'[c] = queue[c] \ {First(queue[c])}
    BY <1>t, AdvanceTypes
  <2>2. queue'[c] # {} /\ at'[c] = at[c]
    BY <1>2, <1>t DEF Advance, TypeOK
  <2> QED BY <1>2, <2>1, <2>2 DEF RInv, QueuesWritten
<1> QED BY <1>1, <1>2

\* An outcome that is written is the current message's.
LEMMA OutcomesStay ==
    ASSUME RInv, NEW c \in Chains, at[c] # None, UNCHANGED written,
           \A m \in Outs : settled'[m] = settled[m] \/ m = Current(c)
    PROVE  OutcomesWritten'
BY CurrentIsDue DEF RInv, OutcomesWritten

\* Every step keeps queues and outcomes to rows that were written.
LEMMA WrittenStep ==
    ASSUME RInv, [Next]_vars PROVE OutcomesWritten' /\ QueuesWritten'
<1>t. TypeOK /\ OutcomesWritten /\ QueuesWritten
  BY DEF RInv, IInv
<1>0. ASSUME UNCHANGED <<written, settled, at, queue>> PROVE OutcomesWritten' /\ QueuesWritten'
  BY <1>0, <1>t DEF OutcomesWritten, QueuesWritten
<1>a. CASE UNCHANGED vars
  BY <1>a, <1>0 DEF vars, fileVars, chainVars
<1>1. ASSUME NEW s \in Sessions, Write(s) PROVE OutcomesWritten' /\ QueuesWritten'
  <2>1. \A r \in Sessions, i \in Seqs : i <= written[r] => i <= written'[r]
    BY <1>1, <1>t DEF Write, TypeOK, Seqs
  <2>2. UNCHANGED <<settled, at, queue>>
    BY <1>1 DEF Write, chainVars
  <2>3. OutcomesWritten'
    <3>1. \A m \in Outs : m[1] \in Sessions /\ m[2] \in Seqs
      BY DEF Outs
    <3> QED BY <2>1, <2>2, <3>1, <1>t DEF OutcomesWritten
  <2>4. QueuesWritten'
    <3>1. \A c \in Chains : at[c] # None => at[c] \in Sessions /\ queue[c] \subseteq Seqs
      BY <1>t DEF TypeOK
    <3> QED BY <2>1, <2>2, <3>1, <1>t DEF QueuesWritten
  <2> QED BY <2>3, <2>4
<1>2. ASSUME NEW s \in Sessions, ContainerUp(s) \/ ContainerDown(s) \/ CloseTask(s)
      PROVE  OutcomesWritten' /\ QueuesWritten'
  BY <1>2, <1>0 DEF ContainerUp, ContainerDown, CloseTask, fileVars, chainVars
<1>3. CASE HostRestart
  <2>1. UNCHANGED <<written, settled>> /\ \A c \in Chains : at'[c] = None
    BY <1>3 DEF HostRestart, fileVars
  <2> QED BY <2>1, <1>t DEF OutcomesWritten, QueuesWritten
<1>4. ASSUME NEW c \in Chains, Tick(c) \/ EnterFails(c) \/ TickEnds(c) \/ Hang(c)
      PROVE  OutcomesWritten' /\ QueuesWritten'
  BY <1>4, <1>0 DEF Tick, EnterFails, TickEnds, Hang, fileVars
<1>5. ASSUME NEW c \in Chains, NEW s \in Sessions, Enter(c, s)
      PROVE  OutcomesWritten' /\ QueuesWritten'
  <2>1. UNCHANGED <<written, settled>>
    BY <1>5 DEF Enter, fileVars
  <2>2. CASE UNCHANGED <<at, queue>>
    BY <2>1, <2>2, <1>0
  <2>3. CASE Undelivered(s) # {} /\ at' = [at EXCEPT ![c] = s]
             /\ queue' = [queue EXCEPT ![c] = Undelivered(s)]
    <3>1. \A d \in Chains : \/ at'[d] = at[d] /\ queue'[d] = queue[d]
                            \/ at'[d] = s /\ queue'[d] = Undelivered(s)
      BY <2>3, <1>t DEF TypeOK
    <3>2. \A i \in Undelivered(s) : i <= written[s]
      BY DEF Undelivered, Due
    <3> QED BY <2>1, <2>3, <3>1, <3>2, <1>t DEF OutcomesWritten, QueuesWritten
  <2> QED BY <1>5, <2>2, <2>3 DEF Enter
<1>6. ASSUME NEW c \in Chains, Effect(c) PROVE OutcomesWritten' /\ QueuesWritten'
  BY <1>6, <1>0 DEF Effect
<1>7. ASSUME NEW c \in Chains, Record(c) \/ Fail(c) PROVE OutcomesWritten' /\ QueuesWritten'
  <2>1. at[c] # None /\ Advance(c) /\ UNCHANGED written
    BY <1>7 DEF Record, Fail, Busy
  <2>2. \A m \in Outs : settled'[m] = settled[m] \/ m = Current(c)
    BY <1>7, <1>t DEF Record, Fail, TypeOK
  <2> QED BY <2>1, <2>2, AdvanceQueues, OutcomesStay
<1> QED BY <1>a, <1>1, <1>2, <1>3, <1>4, <1>5, <1>6, <1>7 DEF Next, Outside, Chain

\* Together with the guard set and the single sender this is inductive.
LEMMA DeliveryInductive == Spec => []RInv
<1>1. Init => RInv
  BY InitHolds DEF RInv, OutcomesWritten, QueuesWritten, Init
<1>2. RInv /\ [Next]_vars => RInv'
  BY StepHolds, WrittenStep DEF RInv
<1> QED BY <1>1, <1>2, PTL DEF Spec

\* A chain waits for the end of an attempt to send this message.
InSending(m) == \E c \in Chains : at[c] # None /\ stage[c] = "sent" /\ Current(c) = m

\* Where a message stands is told by its row, its outcome and who is sending it; the three
\* cases exclude each other.
Stands ==
    \A m \in Outs :
        /\ settled[m] # "none" => Standing(m) = settled[m]
        /\ settled[m] = "none" /\ ~(m[2] <= written[m[1]]) => Standing(m) = "absent"
        /\ settled[m] = "none" /\ m[2] <= written[m[1]] =>
              Standing(m) = IF InSending(m) THEN "sent" ELSE "queued"

\* A message that is being sent is written and has no outcome.
LEMMA SendingIsDue ==
    ASSUME RInv, NEW m \in Outs, InSending(m)
    PROVE  settled[m] = "none" /\ m[2] <= written[m[1]]
BY CurrentIsDue DEF InSending

\* Standing is what Stands says of it.
LEMMA StandsNow == RInv => Stands
<1> SUFFICES ASSUME RInv, NEW m \in Outs
             PROVE  /\ settled[m] # "none" => Standing(m) = settled[m]
                    /\ settled[m] = "none" /\ ~(m[2] <= written[m[1]]) => Standing(m) = "absent"
                    /\ settled[m] = "none" /\ m[2] <= written[m[1]] =>
                          Standing(m) = IF InSending(m) THEN "sent" ELSE "queued"
  BY DEF Stands
<1>1. written[m[1]] \in Int /\ m[1] \in Sessions /\ m[2] \in Int /\ m[1] # None
  BY DeliveryAssumption DEF RInv, IInv, TypeOK, Outs, Seqs
<1>2. written[m[1]] < m[2] <=> ~(m[2] <= written[m[1]])
  BY <1>1
<1>3. InSending(m) <=> \E c \in Chains : at[c] = m[1] /\ stage[c] = "sent" /\ Current(c) = m
  <2>1. \A c \in Chains : at[c] # None /\ Current(c) = m => at[c] = m[1]
    BY CurrentIsDue
  <2> QED BY <1>1, <2>1 DEF InSending
<1>4. settled[m] # "none" => m[2] <= written[m[1]]
  BY DEF RInv, OutcomesWritten
<1> QED BY <1>2, <1>3, <1>4, SendingIsDue DEF Standing

\* So it is after a step.
LEMMA StandsThen == RInv' => Stands'
BY StandsNow, PTL

\* A message of which nothing changes stands where it stood.
LEMMA StandsAsBefore ==
    ASSUME Stands, Stands', NEW m \in Outs,
           settled'[m] = settled[m], m[2] <= written'[m[1]] <=> m[2] <= written[m[1]],
           InSending(m)' <=> InSending(m)
    PROVE  Standing(m)' = Standing(m)
BY DEF Stands

\* When no chain begins or ends an attempt, nobody is sending anything else.
LEMMA SendingFrame ==
    ASSUME \A c \in Chains : \/ at'[c] = at[c] /\ stage'[c] = stage[c] /\ queue'[c] = queue[c]
                             \/ /\ stage[c] # "sent" \/ at[c] = None
                                /\ stage'[c] # "sent" \/ at'[c] = None
    PROVE  \A m : InSending(m)' <=> InSending(m)
BY DEF InSending, Current

\* A step of one chain's drain: its own message is being sent if the chain says so,
\* before and after, and nothing changes for the others.
LEMMA SendingOne ==
    ASSUME RInv, NEW c \in Chains, at[c] # None, NEW m \in Outs,
           \A d \in Chains \ {c} : at'[d] = at[d] /\ stage'[d] = stage[d] /\ queue'[d] = queue[d],
           stage'[c] # "sent" \/ (at'[c] = at[c] /\ queue'[c] = queue[c])
    PROVE  /\ m = Current(c) => (InSending(m) <=> stage[c] = "sent")
           /\ m = Current(c) => (InSending(m)' <=> stage'[c] = "sent")
           /\ m # Current(c) => (InSending(m)' <=> InSending(m))
<1>1. \A d \in Chains \ {c} : at[d] # None => Current(d) # Current(c)
  BY CurrentIsDue DEF RInv, IInv, OneSender
<1>2. m = Current(c) => (InSending(m) <=> stage[c] = "sent")
  BY <1>1 DEF InSending
<1>3. InSending(m)' <=> \E d \in Chains : at'[d] # None /\ stage'[d] = "sent"
                                          /\ <<at'[d], First(queue'[d])>> = m
  BY DEF InSending, Current
<1>4. \A d \in Chains \ {c} : <<at'[d], First(queue'[d])>> = Current(d)
  BY DEF Current
<1>5. CASE stage'[c] # "sent"
  <2>1. InSending(m)' <=> \E d \in Chains \ {c} : at[d] # None /\ stage[d] = "sent" /\ Current(d) = m
    BY <1>3, <1>4, <1>5
  <2>2. m # Current(c) => (InSending(m) <=>
          \E d \in Chains \ {c} : at[d] # None /\ stage[d] = "sent" /\ Current(d) = m)
    BY DEF InSending
  <2> QED BY <1>1, <1>2, <1>5, <2>1, <2>2
<1>6. CASE stage'[c] = "sent" /\ at'[c] = at[c] /\ queue'[c] = queue[c]
  <2>1. <<at'[c], First(queue'[c])>> = Current(c)
    BY <1>6 DEF Current
  <2>2. m = Current(c) => InSending(m)'
    BY <1>3, <1>6, <2>1
  <2>3. m # Current(c) => (InSending(m)' <=> InSending(m))
    BY <1>3, <1>4, <2>1 DEF InSending
  <2> QED BY <1>2, <1>6, <2>2, <2>3
<1> QED BY <1>5, <1>6

Standings == [m \in Outs |-> Standing(m)]

\* One message moves: that is a move of the abstract specification.
LEMMA MoveOne ==
    ASSUME NEW m \in Outs, NEW from, NEW to, Standing(m) = from, Standing(m)' = to,
           \A k \in Outs : k # m => Standing(k)' = Standing(k)
    PROVE  Abstract!Move(m, from, to)
<1>1. Standings' = [Standings EXCEPT ![m] = to]
  BY DEF Standings
<1> QED BY <1>1 DEF Abstract!Move, Standings

\* A step that begins and ends no attempt, writes no row and no outcome is none of
\* the abstract specification.
LEMMA NothingMoves ==
    ASSUME Stands, Stands', UNCHANGED <<written, settled, seen>>,
           \A m \in Outs : InSending(m)' <=> InSending(m)
    PROVE  UNCHANGED <<Standings, seen>>
BY StandsAsBefore DEF Standings

\* A new row is queued.
LEMMA WriteQueues ==
    ASSUME RInv, RInv', NEW s \in Sessions, Write(s)
    PROVE  \E m \in Outs : Abstract!Write(m)
<1>t. TypeOK /\ MaxOut \in Nat
  BY DeliveryAssumption DEF RInv, IInv
<1>s. Stands /\ Stands'
  BY StandsNow, StandsThen
<1>1. <<s, written[s] + 1>> \in Outs /\ UNCHANGED <<settled, seen, at, stage, queue>>
  BY <1>t DEF Write, TypeOK, Outs, Seqs, chainVars
<1>m. PICK m \in Outs : m = <<s, written[s] + 1>>
  BY <1>1
<1>2. \A k \in Outs : InSending(k)' <=> InSending(k)
  BY <1>1 DEF InSending, Current
<1>w. written[s] \in Int /\ written' = [written EXCEPT ![s] = @ + 1]
  BY <1>t DEF Write, TypeOK
<1>3. ~(m[2] <= written[m[1]]) /\ m[2] <= written'[m[1]]
  BY <1>t, <1>m, <1>w DEF TypeOK
<1>k. \A k \in Outs : k # m => (k[2] <= written'[k[1]] <=> k[2] <= written[k[1]])
  <2> SUFFICES ASSUME NEW k \in Outs, k # m
               PROVE  k[2] <= written'[k[1]] <=> k[2] <= written[k[1]]
    OBVIOUS
  <2>1. k = <<k[1], k[2]>> /\ k[1] \in Sessions /\ k[2] \in Int /\ written[k[1]] \in Int
    BY <1>t DEF TypeOK, Outs, Seqs
  <2>2. CASE k[1] = s
    BY <1>m, <1>t, <1>w, <2>1, <2>2 DEF TypeOK
  <2>3. CASE k[1] # s
    BY <1>t, <1>w, <2>1, <2>3 DEF TypeOK
  <2> QED BY <2>2, <2>3
<1>4. settled[m] = "none" /\ ~InSending(m)
  BY <1>3, SendingIsDue DEF RInv, OutcomesWritten
<1>5. Standing(m) = "absent"
  BY <1>3, <1>4, <1>s DEF Stands
<1>6. Standing(m)' = "queued"
  <2>1. settled'[m] = "none" /\ ~InSending(m)'
    BY <1>1, <1>2, <1>4
  <2> QED BY <1>3, <2>1, <1>s DEF Stands
<1>7. \A k \in Outs : k # m => Standing(k)' = Standing(k)
  BY <1>1, <1>2, <1>k, <1>s, StandsAsBefore
<1>8. Abstract!Move(m, "absent", "queued")
  BY <1>5, <1>6, <1>7, MoveOne
<1> QED BY <1>1, <1>8 DEF Abstract!Write

\* What a chain does to the message it is at: the others stand where they stood.
LEMMA OthersStay ==
    ASSUME RInv, RInv', NEW c \in Chains, at[c] # None, UNCHANGED written,
           \A d \in Chains \ {c} : at'[d] = at[d] /\ stage'[d] = stage[d] /\ queue'[d] = queue[d],
           stage'[c] # "sent" \/ (at'[c] = at[c] /\ queue'[c] = queue[c]),
           \A m \in Outs : settled'[m] = settled[m] \/ m = Current(c)
    PROVE  \A k \in Outs : k # Current(c) => Standing(k)' = Standing(k)
<1> SUFFICES ASSUME NEW k \in Outs, k # Current(c) PROVE Standing(k)' = Standing(k)
  OBVIOUS
<1>1. InSending(k)' <=> InSending(k)
  BY SendingOne
<1>2. settled'[k] = settled[k] /\ (k[2] <= written'[k[1]] <=> k[2] <= written[k[1]])
  OBVIOUS
<1> QED BY <1>1, <1>2, StandsNow, StandsThen, StandsAsBefore

\* And where that message stands, before and after.
LEMMA CurrentStands ==
    ASSUME RInv, RInv', NEW c \in Chains, at[c] # None, UNCHANGED written,
           \A d \in Chains \ {c} : at'[d] = at[d] /\ stage'[d] = stage[d] /\ queue'[d] = queue[d],
           stage'[c] # "sent" \/ (at'[c] = at[c] /\ queue'[c] = queue[c]),
           NEW m, m = Current(c)
    PROVE  /\ m \in Outs
           /\ Standing(m) = IF stage[c] = "sent" THEN "sent" ELSE "queued"
           /\ settled'[m] # "none" => Standing(m)' = settled'[m]
           /\ settled'[m] = "none" => Standing(m)' = IF stage'[c] = "sent" THEN "sent" ELSE "queued"
<1>1. /\ m \in Outs /\ settled[m] = "none" /\ m[2] <= written[m[1]] /\ m[2] <= written'[m[1]]
  BY CurrentIsDue
<1>2. (InSending(m) <=> stage[c] = "sent") /\ (InSending(m)' <=> stage'[c] = "sent")
  BY <1>1, SendingOne
<1>3. Standing(m) = IF stage[c] = "sent" THEN "sent" ELSE "queued"
  BY <1>1, <1>2, StandsNow DEF Stands
<1>4. settled'[m] # "none" => Standing(m)' = settled'[m]
  BY <1>1, StandsThen DEF Stands
<1>5. settled'[m] = "none" => Standing(m)' = IF stage'[c] = "sent" THEN "sent" ELSE "queued"
  BY <1>1, <1>2, StandsThen DEF Stands
<1> QED BY <1>1, <1>3, <1>4, <1>5

\* The outside sees a message that is queued.
LEMMA EffectSends ==
    ASSUME RInv, RInv', NEW c \in Chains, Effect(c)
    PROVE  \E m \in Outs : Abstract!Send(m)
<1> DEFINE m == Current(c)
<1>t. TypeOK
  BY DEF RInv, IInv
<1>1. /\ at[c] # None /\ stage[c] = "send" /\ stage'[c] = "sent"
      /\ UNCHANGED <<written, settled, at, queue>>
      /\ \A d \in Chains \ {c} : stage'[d] = stage[d]
  BY <1>t DEF Effect, Busy, TypeOK
<1>2. m \in Outs /\ Standing(m) = "queued" /\ settled[m] = "none"
  BY <1>1, CurrentStands, CurrentIsDue
<1>3. seen' = [seen EXCEPT ![m] = IF @ < MaxSeen THEN @ + 1 ELSE @]
  BY DEF Effect
<1>4. \E k \in Outs : k = m
  BY <1>2
<1>5. PICK k \in Outs : k = m
  BY <1>4
<1> HIDE DEF m
<1>6. Standing(k)' = "sent" /\ Standing(k) = "queued"
  <2>1. settled'[k] = "none"
    BY <1>1, <1>2, <1>5
  <2> QED BY <1>1, <1>2, <1>5, <2>1, CurrentStands DEF m
<1>7. \A j \in Outs : j # k => Standing(j)' = Standing(j)
  BY <1>1, <1>5, OthersStay DEF m
<1>8. Abstract!Move(k, "queued", "sent")
  BY <1>6, <1>7, MoveOne
<1> QED BY <1>3, <1>5, <1>8 DEF Abstract!Send

\* The end of an attempt: the outcome is known, or in doubt.
LEMMA EndMoves ==
    ASSUME RInv, RInv', NEW c \in Chains, Record(c) \/ Fail(c)
    PROVE  [Abstract!Next]_<<Standings, seen>>
<1>t. TypeOK
  BY DEF RInv, IInv
<1>1. at[c] # None /\ Advance(c) /\ UNCHANGED <<written, seen>> /\ stage[c] \in {"send", "sent"}
  BY DEF Record, Fail, Busy
<1>2. /\ stage'[c] # "sent"
      /\ \A d \in Chains \ {c} : at'[d] = at[d] /\ stage'[d] = stage[d] /\ queue'[d] = queue[d]
  BY <1>1, <1>t, AdvanceTypes
<1>3. PICK m \in Outs : m = Current(c)
  BY <1>1, CurrentIsDue
<1>4. /\ settled[m] = "none" /\ \A k \in Outs : settled'[k] = settled[k] \/ k = m
      /\ \/ settled'[m] = "delivered"
         \/ settled'[m] = "failed"
         \/ settled'[m] = "none"
  BY <1>1, <1>3, <1>t, CurrentIsDue DEF Record, Fail, TypeOK
<1>5. \A k \in Outs : k # m => Standing(k)' = Standing(k)
  BY <1>1, <1>2, <1>3, <1>4, OthersStay
<1>6. Standing(m) = IF stage[c] = "sent" THEN "sent" ELSE "queued"
  BY <1>1, <1>2, <1>3, CurrentStands
<1>7. /\ settled'[m] # "none" => Standing(m)' = settled'[m]
      /\ settled'[m] = "none" => Standing(m)' = "queued"
  BY <1>1, <1>2, <1>3, CurrentStands
<1>8. CASE settled'[m] = "delivered"
  <2>1. Abstract!Move(m, "sent", "delivered") \/ Abstract!Move(m, "queued", "delivered")
    BY <1>5, <1>6, <1>7, <1>8, MoveOne
  <2>2. Abstract!Confirm(m) \/ Abstract!Discard(m)
    BY <1>1, <2>1 DEF Abstract!Confirm, Abstract!Discard
  <2> QED BY <2>2 DEF Abstract!Next
<1>9. CASE settled'[m] = "failed"
  <2>1. Abstract!Move(m, "sent", "failed") \/ Abstract!Move(m, "queued", "failed")
    BY <1>5, <1>6, <1>7, <1>9, MoveOne
  <2>2. Abstract!GiveUp(m)
    BY <1>1, <2>1 DEF Abstract!GiveUp
  <2> QED BY <2>2 DEF Abstract!Next
<1>10. CASE settled'[m] = "none" /\ stage[c] # "sent"
  <2>1. \A k \in Outs : Standing(k)' = Standing(k)
    BY <1>5, <1>6, <1>7, <1>10
  <2> QED BY <1>1, <2>1 DEF Standings
<1>11. CASE settled'[m] = "none" /\ stage[c] = "sent"
  <2>1. Standing(m) = "sent" /\ Standing(m)' = "queued"
    BY <1>6, <1>7, <1>11
  <2>2. Standings' = [k \in Outs |-> IF k \in {m} THEN "queued" ELSE Standings[k]]
    BY <1>5, <2>1 DEF Standings
  <2>3. {m} \in SUBSET {k \in Outs : Standings[k] = "sent"}
    BY <2>1 DEF Standings
  <2>4. Abstract!Doubt
    BY <1>1, <2>2, <2>3 DEF Abstract!Doubt, Standings
  <2> QED BY <2>4 DEF Abstract!Next
<1> QED BY <1>4, <1>8, <1>9, <1>10, <1>11

\* The host dies: attempts that were under way are in doubt.
LEMMA RestartDoubts ==
    ASSUME RInv, RInv', HostRestart PROVE Abstract!Doubt
<1> DEFINE M == {m \in Outs : Standings[m] = "sent"}
<1>1. UNCHANGED <<written, settled, seen>> /\ \A c \in Chains : at'[c] = None
  BY DEF HostRestart, fileVars
<1>2. \A m \in Outs : ~InSending(m)'
  BY <1>1 DEF InSending
<1>3. \A m \in Outs : Standing(m)' = IF m \in M THEN "queued" ELSE Standing(m)
  <2> SUFFICES ASSUME NEW m \in Outs
               PROVE  Standing(m)' = IF m \in M THEN "queued" ELSE Standing(m)
    OBVIOUS
  <2>1. m \in M <=> Standing(m) = "sent"
    BY DEF Standings
  <2>2. CASE InSending(m)
    <3>1. settled[m] = "none" /\ m[2] <= written[m[1]]
      BY <2>2, SendingIsDue
    <3>2. Standing(m) = "sent"
      BY <3>1, <2>2, StandsNow DEF Stands
    <3>3. settled'[m] = "none" /\ m[2] <= written'[m[1]]
      BY <1>1, <3>1
    <3>4. Standing(m)' = "queued"
      BY <3>3, <1>2, StandsThen DEF Stands
    <3> QED BY <2>1, <3>2, <3>4
  <2>3. CASE ~InSending(m)
    <3>1. Standing(m) # "sent"
      BY <2>3, StandsNow DEF Stands, RInv, IInv, TypeOK, Outcomes
    <3>2. Standing(m)' = Standing(m)
      BY <1>1, <1>2, <2>3, StandsNow, StandsThen, StandsAsBefore
    <3> QED BY <2>1, <3>1, <3>2
  <2> QED BY <2>2, <2>3
<1>4. Standings' = [m \in Outs |-> IF m \in M THEN "queued" ELSE Standings[m]]
  BY <1>3 DEF Standings
<1>5. M \in SUBSET {m \in Outs : Standings[m] = "sent"}
  OBVIOUS
<1> HIDE DEF M
<1> QED BY <1>1, <1>4, <1>5 DEF Abstract!Doubt, Standings

\* Every step of the delivery is one of the abstract specification, or none.
LEMMA OutboxStep ==
    ASSUME RInv, RInv', [Next]_vars PROVE [Abstract!Next]_<<Standings, seen>>
<1>s. Stands /\ Stands'
  BY StandsNow, StandsThen
<1>t. TypeOK
  BY DEF RInv, IInv
<1>0. ASSUME UNCHANGED <<written, settled, seen, stage, at, queue>>
      PROVE  UNCHANGED <<Standings, seen>>
  BY <1>0, <1>s, NothingMoves, SendingFrame
<1>a. CASE UNCHANGED vars
  BY <1>a, <1>0 DEF vars, fileVars, chainVars
<1>1. ASSUME NEW s \in Sessions, Write(s) PROVE Abstract!Next
  BY <1>1, WriteQueues DEF Abstract!Next
<1>2. ASSUME NEW s \in Sessions, ContainerUp(s) \/ ContainerDown(s) \/ CloseTask(s)
      PROVE  UNCHANGED <<Standings, seen>>
  BY <1>2, <1>0 DEF ContainerUp, ContainerDown, CloseTask, fileVars, chainVars
<1>3. CASE HostRestart
  BY <1>3, RestartDoubts DEF Abstract!Next
<1>4. ASSUME NEW c \in Chains, Tick(c) \/ EnterFails(c) \/ TickEnds(c)
      PROVE  UNCHANGED <<Standings, seen>>
  <2>1. UNCHANGED <<written, settled, seen, at, queue>>
    BY <1>4 DEF Tick, EnterFails, TickEnds, fileVars
  <2>2. /\ stage[c] # "sent" /\ stage'[c] # "sent"
        /\ \A d \in Chains \ {c} : stage'[d] = stage[d]
    BY <1>4, <1>t DEF Tick, EnterFails, TickEnds, TypeOK
  <2> QED BY <2>1, <2>2, <1>s, NothingMoves, SendingFrame
<1>5. ASSUME NEW c \in Chains, NEW s \in Sessions, Enter(c, s)
      PROVE  UNCHANGED <<Standings, seen>>
  <2>1. UNCHANGED <<written, settled, seen>>
    BY <1>5 DEF Enter, fileVars
  <2>2. /\ stage[c] # "sent" /\ stage'[c] # "sent"
        /\ \A d \in Chains \ {c} : stage'[d] = stage[d] /\ at'[d] = at[d] /\ queue'[d] = queue[d]
    BY <1>5, <1>t DEF Enter, TypeOK
  <2> QED BY <2>1, <2>2, <1>s, NothingMoves, SendingFrame
<1>6. ASSUME NEW c \in Chains, Effect(c) PROVE Abstract!Next
  BY <1>6, EffectSends DEF Abstract!Next
<1>7. ASSUME NEW c \in Chains, Hang(c) PROVE UNCHANGED <<Standings, seen>>
  BY <1>7, <1>0 DEF Hang, fileVars
<1> QED
  BY <1>a, <1>1, <1>2, <1>3, <1>4, <1>5, <1>6, <1>7, EndMoves DEF Next, Outside, Chain

\* Delivery implements the outbox: one sender at a time, no sending once the outcome is
\* recorded, and a second sending only after an attempt in doubt. The chains interleave,
\* sends fail before or after the platform took them, the host restarts.
THEOREM OutboxImplemented == Spec => ImplementsOutbox
<1>1. Init => Abstract!Init
  <2> SUFFICES ASSUME Init PROVE Abstract!Init
    OBVIOUS
  <2>1. Stands
    BY InitHolds, StandsNow DEF RInv, OutcomesWritten, QueuesWritten, Init
  <2>2. \A m \in Outs : settled[m] = "none" /\ ~(m[2] <= written[m[1]])
    BY DEF Init, Outs, Seqs
  <2>3. \A m \in Outs : Standing(m) = "absent"
    BY <2>1, <2>2 DEF Stands
  <2> QED BY <2>3 DEF Init, Abstract!Init
<1>2. RInv /\ RInv' /\ [Next]_vars => [Abstract!Next]_<<[m \in Outs |-> Standing(m)], seen>>
  BY OutboxStep DEF Standings
<1> QED BY <1>1, <1>2, DeliveryInductive, PTL DEF Spec, ImplementsOutbox, Abstract!Spec

=============================================================================
