-------------------------- MODULE SelfCheckContract --------------------------
(***************************************************************************)
(* What the self-check promises, without how it runs: a set of checks is   *)
(* chosen, every check gets a verdict, no verdict is ever changed, and the *)
(* results are published only when every chosen check has one.             *)
(***************************************************************************)
CONSTANTS Verdicts,  \* the terminal statuses
          Open       \* no verdict yet

VARIABLES verdict,   \* [chosen checks -> verdict or Open]
          published

Chosen == DOMAIN verdict

Init == DOMAIN verdict = {} /\ published = FALSE

(* Nothing has been decided yet, and the set of checks is (re)chosen.       *)
Choose ==
  /\ ~published
  /\ \A c \in Chosen : verdict[c] = Open
  /\ \A c \in DOMAIN verdict' : verdict'[c] = Open
  /\ UNCHANGED published

(* Some open checks get their verdicts.                                     *)
Decide ==
  /\ ~published
  /\ DOMAIN verdict' = Chosen
  /\ \A c \in Chosen :
       \/ verdict'[c] = verdict[c]
       \/ verdict[c] = Open /\ verdict'[c] \in Verdicts
  /\ UNCHANGED published

Publish ==
  /\ ~published
  /\ \A c \in Chosen : verdict[c] # Open
  /\ published' = TRUE
  /\ UNCHANGED verdict

Next == Choose \/ Decide \/ Publish

Spec == Init /\ [][Next]_<<verdict, published>>
================================================================================
