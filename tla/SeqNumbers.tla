----------------------------- MODULE SeqNumbers -----------------------------
(***************************************************************************)
(* Message numbers of one session. seq is what the agent calls a message   *)
(* by (edit_message, add_reaction), looked up in messages_in first and in  *)
(* messages_out next. Four programs hand numbers out, without a common     *)
(* lock: the host into messages_in (nextEvenSeq), the host into            *)
(* messages_out (writeOutboundDirect), the agent-runner and its MCP server *)
(* (writeMessageOut, a SELECT and later an INSERT), and the ncl command    *)
(* (the same under BEGIN IMMEDIATE).                                       *)
(***************************************************************************)
EXTENDS Integers, FiniteSets

CONSTANTS
    MaxSeq,        \* bound: no number above it is handed out
    Writers        \* processes that call writeMessageOut

ASSUME SeqAssumption == MaxSeq \in Nat

VARIABLES
    inSeqs,     \* messages_in.seq
    outSeqs,    \* messages_out.seq
    direct,     \* those of them the host's command gate took
    pc,         \* where each writer is in writeMessageOut
    maxOut,     \* the maxima it has read
    maxIn

tables == <<inSeqs, outSeqs, direct>>
seqVars == <<tables, pc, maxOut, maxIn>>

\* SELECT COALESCE(MAX(seq), 0)
Top(S) == IF S = {} THEN 0 ELSE CHOOSE n \in S : \A k \in S : k <= n

\* Mutant: the even number at or below the maximum.
EvenBelow(n) == n - (n % 2)
\* nextEvenSeq
NextEven(n) == IF n < 2 THEN 2 ELSE n + 2 - (n % 2)
\* Mutant: the next number, whatever its parity.
NextAny(n) == n + 1
\* writeMessageOut: the next odd number
NextOdd(n) == IF n % 2 = 0 THEN n + 1 ELSE n + 2

Larger(a, b) == IF a >= b THEN a ELSE b

SeqInit ==
    /\ inSeqs = {} /\ outSeqs = {} /\ direct = {}
    /\ pc = [w \in Writers |-> "idle"]
    /\ maxOut = [w \in Writers |-> 0] /\ maxIn = [w \in Writers |-> 0]

-----------------------------------------------------------------------------
\* insertMessage, insertTaskRow: read and write in one synchronous statement.
HostInsert ==
    /\ NextEven(Top(inSeqs)) <= MaxSeq
    /\ inSeqs' = inSeqs \union {NextEven(Top(inSeqs))}
    /\ UNCHANGED <<outSeqs, direct, pc, maxOut, maxIn>>

\* writeOutboundDirect: MAX(seq) of messages_out plus two, in one statement.
HostDirect ==
    /\ Top(outSeqs) + 2 <= MaxSeq
    /\ outSeqs' = outSeqs \union {Top(outSeqs) + 2}
    /\ direct' = direct \union {Top(outSeqs) + 2}
    /\ UNCHANGED <<inSeqs, pc, maxOut, maxIn>>

\* writeMessageOut, statement by statement.
ReadOut(w) ==
    /\ pc[w] = "idle"
    /\ pc' = [pc EXCEPT ![w] = "out"]
    /\ maxOut' = [maxOut EXCEPT ![w] = Top(outSeqs)]
    /\ UNCHANGED <<tables, maxIn>>

ReadIn(w) ==
    /\ pc[w] = "out"
    /\ pc' = [pc EXCEPT ![w] = "in"]
    /\ maxIn' = [maxIn EXCEPT ![w] = Top(inSeqs)]
    /\ UNCHANGED <<tables, maxOut>>

\* INSERT; if another process took the number meanwhile, seq being UNIQUE, it
\* fails and the table stays as it is.
Insert(w) ==
    LET n == NextOdd(Larger(maxOut[w], maxIn[w]))
    IN  /\ pc[w] = "in" /\ n <= MaxSeq
        /\ pc' = [pc EXCEPT ![w] = "idle"]
        /\ outSeqs' = outSeqs \union {n}
        /\ UNCHANGED <<inSeqs, direct, maxOut, maxIn>>

\* ncl writeRequest: the same three statements under the write lock on outbound.db.
Request ==
    LET n == NextOdd(Larger(Top(outSeqs), Top(inSeqs)))
    IN  /\ n <= MaxSeq
        /\ outSeqs' = outSeqs \union {n}
        /\ UNCHANGED <<inSeqs, direct, pc, maxOut, maxIn>>

SeqNext == \/ HostInsert \/ HostDirect \/ Request
        \/ \E w \in Writers : ReadOut(w) \/ ReadIn(w) \/ Insert(w)

SeqSpec == SeqInit /\ [][SeqNext]_seqVars

-----------------------------------------------------------------------------
(* Properties *)

\* Types of the two columns and of what a writer has read.
SeqTypeOK ==
    /\ inSeqs \subseteq 1..MaxSeq /\ outSeqs \subseteq 1..MaxSeq /\ direct \subseteq outSeqs
    /\ pc \in [Writers -> {"idle", "out", "in"}]
    /\ maxOut \in [Writers -> 0..MaxSeq] /\ maxIn \in [Writers -> 0..MaxSeq]

\* No row the container writes shares its number with a row of messages_in, however
\* the runner, its MCP server, ncl and the host race between their reads and writes:
\* an edit or a reaction of the agent finds the message it means.
ContainerRowsApart == inSeqs \intersect (outSeqs \ direct) = {}
=============================================================================
