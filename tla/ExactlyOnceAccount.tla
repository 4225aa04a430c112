------------------------ MODULE ExactlyOnceAccount -------------------------
(***************************************************************************)
(* What the paper engine promises of its account, with no process, file or *)
(* crash in sight: a target position is turned into at most one order of a *)
(* symbol at a time, whose execution takes the account to that target, and *)
(* no order is executed twice.  "A killed/redeployed process resumes       *)
(* exactly where it left off" (eval_reports/memos/phase_4d_paper_armed.md) *)
(* says that a restart is no step of this account at all.                  *)
(***************************************************************************)
EXTENDS Integers

CONSTANT Symbols

VARIABLES
    account,        \* signed quantity held of each symbol
    outstanding,    \* orders placed and not yet executed, of each symbol
    executed        \* identities <<symbol, submit time>> of executed orders

accountVars == <<account, outstanding, executed>>

Id(o) == <<o.sym, o.t>>

Init ==
    /\ account = [s \in Symbols |-> 0]
    /\ outstanding = [s \in Symbols |-> {}]
    /\ executed = {}

\* One order, for the whole distance between the account and the target.
Place(o) ==
    /\ outstanding[o.sym] = {}
    /\ Id(o) \notin executed
    /\ o.qty # 0
    /\ account[o.sym] + o.qty = o.target
    /\ outstanding' = [outstanding EXCEPT ![o.sym] = {o}]
    /\ UNCHANGED <<account, executed>>

Execute(o) ==
    /\ Id(o) \notin executed
    /\ account' = [account EXCEPT ![o.sym] = @ + o.qty]
    /\ outstanding' = [outstanding EXCEPT ![o.sym] = @ \ {o}]
    /\ executed' = executed \cup {Id(o)}

Next ==
    \E s \in Symbols :
        \/ \E o \in outstanding[s] : Execute(o)
        \/ \E o \in outstanding'[s] : Place(o)

Spec == Init /\ [][Next]_accountVars

============================================================================
