------------------------------ MODULE UciApply ------------------------------
(***************************************************************************)
(* luci/luci-base/luasrc/model/uci.lua: apply, confirm and rollback of     *)
(* staged UCI changes, and usr/libexec/uci_rollback.lua, the process that  *)
(* waits for the confirmation.  Every apply runs in a CGI process of its   *)
(* own, named by the token it draws; all of them share the files below     *)
(* /etc/config and /tmp, and nothing locks them.                           *)
(*                                                                         *)
(* A directory of backup files is a function from file names to contents,  *)
(* None where the file is missing; an empty directory and a missing one    *)
(* are identified, since the code treats them alike.  The length of the    *)
(* rollback timeout is abstracted: a sleeping worker may wake at any time. *)
(***************************************************************************)
EXTENDS Naturals, FiniteSets

CONSTANTS Configs,        \* names of the configuration files
          Values,         \* abstract contents of one file
          None,           \* a missing file, no staged change
          Affects,        \* ucitrack: the sections a section's reload affects
          Applies,        \* apply requests, each with the token it draws
          Workers,        \* runs of uci_rollback.lua per token
          Overlap,        \* may users stage and apply while an apply is open?
          CommitMayFail,  \* may a uci commit fail (disk full, read-only)?
          MayRestart,     \* may the container restart?
          MaxEdits        \* bound: staging requests in one behaviour

ASSUME ConstantsAssumption ==
  /\ None \notin Values
  /\ Affects \in [Configs -> SUBSET Configs]
  /\ "auto" \in Workers
  /\ Workers \subseteq {"auto", "manual"}
  /\ Overlap \in BOOLEAN
  /\ CommitMayFail \in BOOLEAN
  /\ MayRestart \in BOOLEAN
  /\ MaxEdits \in Nat

VARIABLES
  config,       \* /etc/config: committed content of each file
  staged,       \* /tmp/.uci: the delta of each file, or None
  running,      \* per service, the files' contents at its last reload
  pc,           \* control state of each apply request
  checked,      \* was the request an apply with rollback?
  list,         \* configlist of each request
  todo,         \* files (or services) the current loop has left
  bakConfigs,   \* /tmp/luci-config-bak/<token>
  bakChanges,   \* /tmp/luci-uci-bak/<token>
  confirmFile,  \* tokens with a file in /tmp/luci-uci-confirm
  worker,       \* control state of each run of uci_rollback.lua
  wtodo,        \* files (or services) its current loop has left
  seen,         \* tokens whose confirm handler found the file
  answered,     \* per token, the timer's state when confirm answered true
  edits         \* staging requests so far

fileVars  == <<config, staged, running, bakConfigs, bakChanges, confirmFile>>
applyVars == <<pc, checked, list, todo>>
workVars  == <<worker, wtodo>>
confVars  == <<seen, answered>>
vars == <<fileVars, applyVars, workVars, confVars, edits>>

ApplyStates == {"idle", "backup", "confirmfile", "commit", "reload", "done",
                "failed", "dead"}
Restoring   == {"restore", "reload", "clear"}
Finished    == {"kept", "rolledback", "crashed", "dead"}
WorkStates  == {"none", "sleep", "cleanup"} \cup Restoring \cup Finished

Content == Values \cup {None}
Empty == [c \in Configs |-> None]
Files(dir) == {c \in Configs : dir[c] # None}

\* _affected: the services to reload for a set of changed files, the
\* closure of the set under the ucitrack dependencies.
Affected(cs) ==
  {s \in Configs : \A T \in SUBSET Configs :
     (cs \subseteq T /\ \A c \in T : Affects[c] \subseteq T) => s \in T}

\* The files a service takes its settings from, as ucitrack declares them.
Inputs(s) == {c \in Configs : s \in Affected({c})}

Read(s) == [c \in Inputs(s) |-> config[c]]

\* Nothing is open: every earlier request has returned, and every worker has
\* finished or will only clean up after a confirmation.
Settled ==
  \A a \in Applies :
    /\ pc[a] \in {"idle", "done", "failed", "dead"}
    /\ a \in confirmFile => worker[a]["auto"] \in {"none"} \cup Finished
    /\ \A w \in Workers : worker[a][w] \notin Restoring

UserMayAct == Overlap \/ Settled

TypeOK ==
  /\ config \in [Configs -> Values]
  /\ staged \in [Configs -> Content]
  /\ DOMAIN running = Configs
  /\ \A s \in Configs : running[s] \in [Inputs(s) -> Values]
  /\ pc \in [Applies -> ApplyStates]
  /\ checked \in [Applies -> BOOLEAN]
  /\ list \in [Applies -> SUBSET Configs]
  /\ todo \in [Applies -> SUBSET Configs]
  /\ bakConfigs \in [Applies -> [Configs -> Content]]
  /\ bakChanges \in [Applies -> [Configs -> Content]]
  /\ confirmFile \subseteq Applies
  /\ worker \in [Applies -> [Workers -> WorkStates]]
  /\ wtodo \in [Applies -> [Workers -> SUBSET Configs]]
  /\ seen \subseteq Applies
  /\ answered \in [Applies -> WorkStates \cup {"never"}]
  /\ edits \in 0 .. MaxEdits

Init ==
  /\ config \in [Configs -> Values]
  /\ staged = Empty
  /\ running = [s \in Configs |-> Read(s)]
  /\ pc = [a \in Applies |-> "idle"]
  /\ checked = [a \in Applies |-> FALSE]
  /\ list = [a \in Applies |-> {}]
  /\ todo = [a \in Applies |-> {}]
  /\ bakConfigs = [a \in Applies |-> Empty]
  /\ bakChanges = [a \in Applies |-> Empty]
  /\ confirmFile = {}
  /\ worker = [a \in Applies |-> [w \in Workers |-> "none"]]
  /\ wtodo = [a \in Applies |-> [w \in Workers |-> {}]]
  /\ seen = {}
  /\ answered = [a \in Applies |-> "never"]
  /\ edits = 0

-----------------------------------------------------------------------------
(* Faulty variants of the steps below, one per property: each breaks it.   *)

\* BackupChanges before every file is copied.
BackupChangesEarly(a) ==
  /\ pc[a] = "backup"
  /\ bakChanges' = [bakChanges EXCEPT ![a] = staged]
  /\ pc' = [pc EXCEPT ![a] = "confirmfile"]
  /\ UNCHANGED <<config, staged, running, bakConfigs, confirmFile, checked,
                 list, todo, workVars, confVars, edits>>

\* Commit of a file whose delta somebody else has already committed.
CommitBlind(a, c) ==
  /\ pc[a] = "commit"
  /\ c \in todo[a]
  /\ config' = [config EXCEPT ![c] = staged[c]]
  /\ staged' = [staged EXCEPT ![c] = None]
  /\ todo' = [todo EXCEPT ![a] = @ \ {c}]
  /\ UNCHANGED <<running, bakConfigs, bakChanges, confirmFile, pc, checked,
                 list, workVars, confVars, edits>>

\* CommitDone and RestoreDone that forget the dependent services.
CommitDoneShallow(a) ==
  /\ pc[a] = "commit"
  /\ todo[a] = {}
  /\ todo' = [todo EXCEPT ![a] = list[a]]
  /\ pc' = [pc EXCEPT ![a] = IF list[a] = {} THEN "done" ELSE "reload"]
  /\ UNCHANGED <<fileVars, checked, list, workVars, confVars, edits>>

\* The timer does not look at the confirm file.
WakeBlind(a, w) ==
  /\ worker[a][w] = "sleep"
  /\ worker' = [worker EXCEPT ![a][w] = "restore"]
  /\ wtodo' = [wtodo EXCEPT ![a][w] = Files(bakConfigs[a])]
  /\ UNCHANGED <<fileVars, applyVars, confVars, edits>>

\* A confirmed timer goes back to sleep.
WakeAgain(a, w) ==
  /\ worker[a][w] = "sleep"
  /\ a \notin confirmFile
  /\ UNCHANGED vars

\* The rollback forgets the staged changes.
RestoreChangesNot(a, w) ==
  /\ worker[a][w] = "reload"
  /\ wtodo[a][w] = {}
  /\ worker' = [worker EXCEPT ![a][w] = "clear"]
  /\ UNCHANGED <<fileVars, applyVars, wtodo, confVars, edits>>

-----------------------------------------------------------------------------
(* The administrator's other requests.                                     *)

\* A view saves a change to the staging area (uci set + save).
Stage(c, v) ==
  /\ UserMayAct
  /\ edits < MaxEdits
  /\ edits' = edits + 1
  /\ staged' = [staged EXCEPT ![c] = v]
  /\ UNCHANGED <<config, running, bakConfigs, bakChanges, confirmFile,
                 applyVars, workVars, confVars>>

\* action_revert, the step that reverts one file.
Revert(c) ==
  /\ UserMayAct
  /\ staged[c] # None
  /\ staged' = [staged EXCEPT ![c] = None]
  /\ UNCHANGED <<config, running, bakConfigs, bakChanges, confirmFile,
                 applyVars, workVars, confVars, edits>>

-----------------------------------------------------------------------------
(* apply: one CGI process per request.                                     *)

\* The process reads the list of changed files; with rollback it draws a
\* token and empties the token's backup directories.
Start(a, rollback) ==
  /\ UserMayAct
  /\ pc[a] = "idle"
  /\ checked' = [checked EXCEPT ![a] = rollback]
  /\ list' = [list EXCEPT ![a] = Files(staged)]
  /\ todo' = [todo EXCEPT ![a] = Files(staged)]
  /\ pc' = [pc EXCEPT ![a] = IF rollback THEN "backup" ELSE "commit"]
  /\ UNCHANGED <<fileVars, workVars, confVars, edits>>

\* backup_configs: copy one file.
BackupConfig(a, c) ==
  /\ pc[a] = "backup"
  /\ c \in todo[a]
  /\ bakConfigs' = [bakConfigs EXCEPT ![a][c] = config[c]]
  /\ todo' = [todo EXCEPT ![a] = @ \ {c}]
  /\ UNCHANGED <<config, staged, running, bakChanges, confirmFile, pc,
                 checked, list, workVars, confVars, edits>>

\* backup_changes: copy the whole staging area, whatever it holds by now.
BackupChanges(a) ==
  /\ pc[a] = "backup"
  /\ todo[a] = {}
  /\ bakChanges' = [bakChanges EXCEPT ![a] = staged]
  /\ pc' = [pc EXCEPT ![a] = "confirmfile"]
  /\ UNCHANGED <<config, staged, running, bakConfigs, confirmFile, checked,
                 list, todo, workVars, confVars, edits>>

CreateConfirm(a) ==
  /\ pc[a] = "confirmfile"
  /\ confirmFile' = confirmFile \cup {a}
  /\ todo' = [todo EXCEPT ![a] = list[a]]
  /\ pc' = [pc EXCEPT ![a] = "commit"]
  /\ UNCHANGED <<config, staged, running, bakConfigs, bakChanges, checked,
                 list, workVars, confVars, edits>>

\* commit: merge one file's delta, if it still has one.
Commit(a, c) ==
  /\ pc[a] = "commit"
  /\ c \in todo[a]
  /\ config' = [config EXCEPT ![c] = IF staged[c] = None THEN @ ELSE staged[c]]
  /\ staged' = [staged EXCEPT ![c] = None]
  /\ todo' = [todo EXCEPT ![a] = @ \ {c}]
  /\ UNCHANGED <<running, bakConfigs, bakChanges, confirmFile, pc, checked,
                 list, workVars, confVars, edits>>

\* A commit fails: the loop breaks.  Without rollback the error is returned;
\* with rollback restore_changes raises an error of its own, since the module
\* has no variable fs, and the request dies there.  Nothing is restored.
CommitFails(a) ==
  /\ CommitMayFail
  /\ pc[a] = "commit"
  /\ todo[a] # {}
  /\ pc' = [pc EXCEPT ![a] = "failed"]
  /\ UNCHANGED <<fileVars, checked, list, todo, workVars, confVars, edits>>

\* All files committed: reload what they affect, or answer "No data".
CommitDone(a) ==
  /\ pc[a] = "commit"
  /\ todo[a] = {}
  /\ todo' = [todo EXCEPT ![a] = Affected(list[a])]
  /\ pc' = [pc EXCEPT ![a] = IF list[a] = {} THEN "done" ELSE "reload"]
  /\ UNCHANGED <<fileVars, checked, list, workVars, confVars, edits>>

\* luci-reload: one service reads its files again.
Reload(a, s) ==
  /\ pc[a] = "reload"
  /\ s \in todo[a]
  /\ running' = [running EXCEPT ![s] = Read(s)]
  /\ todo' = [todo EXCEPT ![a] = @ \ {s}]
  /\ UNCHANGED <<config, staged, bakConfigs, bakChanges, confirmFile, pc,
                 checked, list, workVars, confVars, edits>>

\* The request returns; with rollback it forks the timer and returns the token.
Return(a) ==
  /\ pc[a] = "reload"
  /\ todo[a] = {}
  /\ pc' = [pc EXCEPT ![a] = "done"]
  /\ worker' = [worker EXCEPT ![a]["auto"] = IF checked[a] THEN "sleep" ELSE @]
  /\ UNCHANGED <<fileVars, checked, list, todo, wtodo, confVars, edits>>

-----------------------------------------------------------------------------
(* confirm(token), called by whoever was given the token.                  *)

ConfirmAccess(a) ==
  /\ worker[a]["auto"] # "none"
  /\ a \in confirmFile
  /\ seen' = seen \cup {a}
  /\ UNCHANGED <<fileVars, applyVars, workVars, answered, edits>>

ConfirmRemove(a) ==
  /\ a \in seen
  /\ seen' = seen \ {a}
  /\ confirmFile' = confirmFile \ {a}
  /\ answered' = [answered EXCEPT ![a] =
                    IF @ = "never" THEN worker[a]["auto"] ELSE @]
  /\ UNCHANGED <<config, staged, running, bakConfigs, bakChanges, applyVars,
                 workVars, edits>>

-----------------------------------------------------------------------------
(* uci_rollback.lua <token>: the "auto" worker is forked by apply, the     *)
(* "manual" one is started by rollback(), with an action argument that the *)
(* script never looks at, for a token that has a confirm file.             *)

Rollback(a) ==
  /\ "manual" \in Workers
  /\ a \in confirmFile
  /\ worker[a]["manual"] = "none"
  /\ worker' = [worker EXCEPT ![a]["manual"] = "sleep"]
  /\ UNCHANGED <<fileVars, applyVars, wtodo, confVars, edits>>

\* The sleep is over and the confirm file is still there: roll back.
WakeUnconfirmed(a, w) ==
  /\ worker[a][w] = "sleep"
  /\ a \in confirmFile
  /\ worker' = [worker EXCEPT ![a][w] = "restore"]
  /\ wtodo' = [wtodo EXCEPT ![a][w] = Files(bakConfigs[a])]
  /\ UNCHANGED <<fileVars, applyVars, confVars, edits>>

WakeConfirmed(a, w) ==
  /\ worker[a][w] = "sleep"
  /\ a \notin confirmFile
  /\ worker' = [worker EXCEPT ![a][w] = "cleanup"]
  /\ UNCHANGED <<fileVars, applyVars, wtodo, confVars, edits>>

Cleanup(a, w) ==
  /\ worker[a][w] = "cleanup"
  /\ bakConfigs' = [bakConfigs EXCEPT ![a] = Empty]
  /\ bakChanges' = [bakChanges EXCEPT ![a] = Empty]
  /\ worker' = [worker EXCEPT ![a][w] = "kept"]
  /\ UNCHANGED <<config, staged, running, confirmFile, applyVars, wtodo,
                 confVars, edits>>

\* restore_configs: copy one file back, if it is still there.
RestoreConfig(a, w, c) ==
  /\ worker[a][w] = "restore"
  /\ c \in wtodo[a][w]
  /\ config' = [config EXCEPT ![c] = IF bakConfigs[a][c] = None THEN @
                                     ELSE bakConfigs[a][c]]
  /\ wtodo' = [wtodo EXCEPT ![a][w] = @ \ {c}]
  /\ UNCHANGED <<staged, running, bakConfigs, bakChanges, confirmFile,
                 applyVars, worker, confVars, edits>>

\* List the backup directory and reload what its files affect; listing a
\* directory that the other worker has removed ends the script.
RestoreDone(a, w) ==
  /\ worker[a][w] = "restore"
  /\ wtodo[a][w] = {}
  /\ worker' = [worker EXCEPT ![a][w] =
                  IF Files(bakConfigs[a]) = {} THEN "crashed" ELSE "reload"]
  /\ wtodo' = [wtodo EXCEPT ![a][w] = Affected(Files(bakConfigs[a]))]
  /\ UNCHANGED <<fileVars, applyVars, confVars, edits>>

RollbackReload(a, w, s) ==
  /\ worker[a][w] = "reload"
  /\ s \in wtodo[a][w]
  /\ running' = [running EXCEPT ![s] = Read(s)]
  /\ wtodo' = [wtodo EXCEPT ![a][w] = @ \ {s}]
  /\ UNCHANGED <<config, staged, bakConfigs, bakChanges, confirmFile,
                 applyVars, worker, confVars, edits>>

\* restore_changes: the saved deltas overwrite the staging area.
RestoreChanges(a, w) ==
  /\ worker[a][w] = "reload"
  /\ wtodo[a][w] = {}
  /\ staged' = [c \in Configs |-> IF bakChanges[a][c] = None THEN staged[c]
                                  ELSE bakChanges[a][c]]
  /\ worker' = [worker EXCEPT ![a][w] = "clear"]
  /\ UNCHANGED <<config, running, bakConfigs, bakChanges, confirmFile,
                 applyVars, wtodo, confVars, edits>>

\* The backups and, last of all, the confirm file are removed.
Clear(a, w) ==
  /\ worker[a][w] = "clear"
  /\ bakConfigs' = [bakConfigs EXCEPT ![a] = Empty]
  /\ bakChanges' = [bakChanges EXCEPT ![a] = Empty]
  /\ confirmFile' = confirmFile \ {a}
  /\ worker' = [worker EXCEPT ![a][w] = "rolledback"]
  /\ UNCHANGED <<config, staged, running, applyVars, wtodo, confVars, edits>>

-----------------------------------------------------------------------------
\* The container restarts: /tmp is a tmpfs and every process is gone, the
\* committed files live on a volume and the services start from them.
Restart ==
  /\ MayRestart
  /\ staged' = Empty
  /\ running' = [s \in Configs |-> Read(s)]
  /\ pc' = [a \in Applies |-> IF pc[a] \in {"idle", "done", "failed"}
                              THEN pc[a] ELSE "dead"]
  /\ todo' = [a \in Applies |-> {}]
  /\ bakConfigs' = [a \in Applies |-> Empty]
  /\ bakChanges' = [a \in Applies |-> Empty]
  /\ confirmFile' = {}
  /\ worker' = [a \in Applies |-> [w \in Workers |->
                  IF worker[a][w] \in {"none"} \cup Finished
                  THEN worker[a][w] ELSE "dead"]]
  /\ wtodo' = [a \in Applies |-> [w \in Workers |-> {}]]
  /\ seen' = {}
  /\ UNCHANGED <<config, checked, list, answered, edits>>

ApplyStep(a) ==
  \/ \E c \in Configs : BackupConfig(a, c) \/ Commit(a, c) \/ Reload(a, c)
  \/ BackupChanges(a) \/ CreateConfirm(a)
  \/ CommitFails(a) \/ CommitDone(a) \/ Return(a)

WorkerStep(a, w) ==
  \/ WakeUnconfirmed(a, w) \/ WakeConfirmed(a, w) \/ Cleanup(a, w)
  \/ \E c \in Configs : RestoreConfig(a, w, c) \/ RollbackReload(a, w, c)
  \/ RestoreDone(a, w) \/ RestoreChanges(a, w) \/ Clear(a, w)

Next ==
  \/ \E c \in Configs : (\E v \in Values : Stage(c, v)) \/ Revert(c)
  \/ \E a \in Applies : \/ \E rollback \in BOOLEAN : Start(a, rollback)
                        \/ ApplyStep(a)
                        \/ ConfirmAccess(a) \/ ConfirmRemove(a)
                        \/ Rollback(a)
                        \/ \E w \in Workers : WorkerStep(a, w)
  \/ Restart

\* The processes that were started run; nobody has to start, confirm or roll
\* back anything.
Fairness ==
  \A a \in Applies : /\ WF_vars(ApplyStep(a))
                     /\ WF_vars(ConfirmRemove(a))
                     /\ \A w \in Workers : WF_vars(WorkerStep(a, w))

Spec == Init /\ [][Next]_vars
FairSpec == Spec /\ Fairness

-----------------------------------------------------------------------------
(* Properties.                                                             *)

RolledBack(a) == worker[a]["auto"] \in Restoring \cup {"rolledback"}

\* A confirmation answered while the timer still slept is final: that timer
\* never starts to roll the apply back.
ConfirmStands ==
  \A a \in Applies :
    answered[a] = "sleep" => ~RolledBack(a)

\* What uci.luadoc says of confirm: answered true, it has cancelled the timer.
ConfirmCancelsTimer ==
  \A a \in Applies :
    answered[a] # "never" => ~RolledBack(a)

\* While the timer of a checked apply sleeps unconfirmed, the backup of every
\* file the apply committed is there to go back to.
BackupComplete ==
  \A a \in Applies :
    worker[a]["auto"] = "sleep" /\ a \in confirmFile /\ Workers = {"auto"}
      => Files(bakConfigs[a]) = list[a]

Busy == \/ \E a \in Applies : pc[a] \in {"commit", "reload"}
        \/ \E a \in Applies, w \in Workers :
             worker[a][w] \in {"restore", "reload"}
Broken == \/ \E a \in Applies : pc[a] = "failed"
          \/ \E a \in Applies, w \in Workers : worker[a][w] = "crashed"

\* Once no apply and no rollback is under way, every service runs on the
\* committed content of all the files it depends on, however the requests
\* and the rollbacks were interleaved.
ServicesCurrent ==
  ~Busy /\ ~Broken => \A s \in Configs : running[s] = Read(s)

\* Every timer that was forked reaches a verdict.
TimerDecides ==
  \A a \in Applies :
    worker[a]["auto"] = "sleep" ~> worker[a]["auto"] \in Finished

-----------------------------------------------------------------------------
(* What all this promises: CheckedApply.  The mapping moves the commit to  *)
(* the moment its loop starts and the undo to the moment the timer wakes;  *)
(* the reply to a confirm that comes later than that changes nothing.      *)

\* "Nothing is open" is not one of the things that can be.
ASSUME NoneAssumption ==
  None \notin [cfg : [Configs -> Values], draft : [Configs -> Content]]

Restored(base, dir) ==
  [c \in Configs |-> IF dir[c] = None THEN base[c] ELSE dir[c]]

Committing == {a \in Applies : pc[a] = "commit"}
\* Checked applies of something whose fate is not decided yet.
Open == {a \in Applies : /\ checked[a] /\ list[a] # {} /\ a \in confirmFile
                         /\ \/ pc[a] \in {"commit", "reload"}
                            \/ worker[a]["auto"] = "sleep"}

\* What is still to be committed, restored and staged again.
LeftToCommit(c) == \E a \in Committing : c \in todo[a]
Undoing(states) == {a \in Applies : worker[a]["auto"] \in states}

\* They have one element at most.
OneOf(S) == CHOOSE a \in S : TRUE

AbsCfg ==
  [c \in Configs |->
     IF LeftToCommit(c) /\ staged[c] # None THEN staged[c]
     ELSE IF \E a \in Undoing({"restore"}) : c \in wtodo[a]["auto"]
          THEN bakConfigs[OneOf(Undoing({"restore"}))][c]
          ELSE config[c]]

AbsDraft ==
  IF Undoing({"restore", "reload"}) # {}
  THEN Restored(staged, bakChanges[OneOf(Undoing({"restore", "reload"}))])
  ELSE [c \in Configs |-> IF LeftToCommit(c) THEN None ELSE staged[c]]

AbsOpen ==
  IF Open = {} THEN None
  ELSE [cfg   |-> Restored(config, bakConfigs[OneOf(Open)]),
        draft |-> bakChanges[OneOf(Open)]]

Abstract == INSTANCE CheckedApply
              WITH cfg <- AbsCfg, draft <- AbsDraft, open <- AbsOpen

\* The detailed specification implements the abstract one: an apply takes
\* effect as a whole, and a rollback brings back the configuration and the
\* staged changes exactly as they were.
ImplementsCheckedApply == Abstract!Spec
=============================================================================
