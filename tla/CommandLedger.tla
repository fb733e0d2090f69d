---------------------------- MODULE CommandLedger ----------------------------
(***************************************************************************)
(* What a terminal session promises about the commands it is given, for    *)
(* whoever reads its blocks: a command is taken only when no other runs,   *)
(* commands are taken in the order of their numbers, each has one block,   *)
(* and that block is closed once and for good.                             *)
(***************************************************************************)
EXTENDS Naturals

CONSTANT MaxCommands

VARIABLE ledger

Commands == 1..MaxCommands

LedgerInit == ledger = [n \in Commands |-> "absent"]

\* Taking a command: it streams, or it is closed at once because it could not
\* be written to the terminal.
Submit(n, s) ==
  /\ \A m \in Commands : ledger[m] # "streaming"
  /\ \A m \in Commands : m >= n => ledger[m] = "absent"
  /\ ledger' = [ledger EXCEPT ![n] = s]

Settle(n) ==
  /\ ledger[n] = "streaming"
  /\ ledger' = [ledger EXCEPT ![n] = "complete"]

LedgerNext ==
  \E n \in Commands : Settle(n) \/ \E s \in {"streaming", "complete"} : Submit(n, s)

LedgerSpec == LedgerInit /\ [][LedgerNext]_ledger
==============================================================================
