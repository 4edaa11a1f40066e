--------------------------- MODULE CompletionLedger ----------------------------
(***************************************************************************)
(* What the benchmark mediator promises about paid completions, with no    *)
(* worker, journal file or connection in sight: a job is bought at most    *)
(* once, what was bought for it is settled at most once, and the server is *)
(* told the settled answer and no other.                                   *)
(***************************************************************************)
EXTENDS Naturals

CONSTANTS Jobs, Answers, NoAnswer

VARIABLES bought, settled, told

ledger == <<bought, settled, told>>

LedgerInit ==
  /\ bought = [j \in Jobs |-> 0]
  /\ settled = [j \in Jobs |-> NoAnswer]
  /\ told = [j \in Jobs |-> {}]

Buy(j) ==
  /\ bought[j] = 0
  /\ bought' = [bought EXCEPT ![j] = 1]
  /\ UNCHANGED <<settled, told>>

\* A purchase whose outcome was lost is never settled.
Settle(j) ==
  /\ bought[j] = 1 /\ settled[j] = NoAnswer
  /\ \E a \in Answers : settled' = [settled EXCEPT ![j] = a]
  /\ UNCHANGED <<bought, told>>

\* The server may be told again; it hears the same thing.
Tell(j) ==
  /\ settled[j] # NoAnswer
  /\ told' = [told EXCEPT ![j] = {settled[j]}]
  /\ UNCHANGED <<bought, settled>>

LedgerNext == \E j \in Jobs : Buy(j) \/ Settle(j) \/ Tell(j)

LedgerSpec == LedgerInit /\ [][LedgerNext]_ledger
================================================================================
