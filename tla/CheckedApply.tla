---------------------------- MODULE CheckedApply ----------------------------
(***************************************************************************)
(* What "apply with rollback" promises (uci.luadoc:30-72): the staged      *)
(* draft becomes the configuration in one step, and a checked apply stays  *)
(* open until it is either kept (confirmed) or undone; undoing it brings   *)
(* back both the configuration and the draft as they were before.          *)
(* UciApply.tla implements this with files, one copy at a time.            *)
(***************************************************************************)
CONSTANTS Configs,   \* names of the UCI configuration files
          Values,    \* abstract contents of one file
          None       \* no change staged / nothing open

VARIABLES cfg,       \* the committed configuration
          draft,     \* the staged change of each file, or None
          open       \* None, or what an undo would bring back

vars == <<cfg, draft, open>>

Empty == [c \in Configs |-> None]

Over(base, change) ==
  [c \in Configs |-> IF change[c] = None THEN base[c] ELSE change[c]]

Init == /\ cfg \in [Configs -> Values]
        /\ draft = Empty
        /\ open = None

Stage(c, v) == /\ open = None
               /\ draft' = [draft EXCEPT ![c] = v]
               /\ UNCHANGED <<cfg, open>>

Revert(c) == /\ open = None
             /\ draft' = [draft EXCEPT ![c] = None]
             /\ UNCHANGED <<cfg, open>>

Apply == /\ open = None
         /\ draft # Empty
         /\ cfg' = Over(cfg, draft)
         /\ draft' = Empty
         /\ open' \in {None, [cfg |-> cfg, draft |-> draft]}

Keep == /\ open # None
        /\ open' = None
        /\ UNCHANGED <<cfg, draft>>

Undo == /\ open # None
        /\ cfg' = open.cfg
        /\ draft' = open.draft
        /\ open' = None

Next == \/ \E c \in Configs : (\E v \in Values : Stage(c, v)) \/ Revert(c)
        \/ Apply \/ Keep \/ Undo

Spec == Init /\ [][Next]_vars
=============================================================================
