--------------------------- MODULE UciApplyProofs ---------------------------
(***************************************************************************)
(* Proofs about UciApply, for any number of files, contents and overlapping*)
(* applies, with failing commits, restarts and explicit rollbacks; and that*)
(* without those it implements CheckedApply.                               *)
(***************************************************************************)
EXTENDS UciApply, TLAPS

USE DEF ApplyStates, Restoring, Finished, WorkStates, Content

-----------------------------------------------------------------------------
(* The closure that _affected computes.                                    *)

\* Only known services are reloaded, and reloading for a set of files
\* includes whatever a reload for one of them includes.
LEMMA AffectedMonotone ==
  ASSUME NEW cs \in SUBSET Configs, NEW c \in cs
  PROVE  Affected(cs) \subseteq Configs /\ Affected({c}) \subseteq Affected(cs)
BY DEF Affected

LEMMA AffectedType ==
  ASSUME NEW cs
  PROVE  Affected(cs) \subseteq Configs
BY DEF Affected

LEMMA ReadType ==
  ASSUME config \in [Configs -> Values], NEW s \in Configs
  PROVE  Read(s) \in [Inputs(s) -> Values]
BY DEF Read, Inputs

-----------------------------------------------------------------------------
(* Type correctness.                                                       *)

LEMMA InitType == Init => TypeOK
<1>. USE ConstantsAssumption
<1>. SUFFICES ASSUME Init PROVE TypeOK
  OBVIOUS
<1>1. config \in [Configs -> Values]
  BY DEF Init
<1>2. DOMAIN running = Configs /\ \A s \in Configs : running[s] = Read(s)
  BY DEF Init
<1>3. \A s \in Configs : running[s] \in [Inputs(s) -> Values]
  BY <1>1, <1>2, ReadType
<1>. QED
  BY <1>1, <1>2, <1>3 DEF Init, TypeOK, Empty

\* The variables of the specification always have their types.
THEOREM TypeCorrect == Spec => []TypeOK
<1>. USE ConstantsAssumption
<1>1. Init => TypeOK
  BY InitType
<1>2. TypeOK /\ [Next]_vars => TypeOK'
  <2>. SUFFICES ASSUME TypeOK, [Next]_vars PROVE TypeOK'
    OBVIOUS
  <2>. USE DEF TypeOK
  <2>0. \A s \in Configs : Read(s) \in [Inputs(s) -> Values]
    BY ReadType
  <2>a. ASSUME NEW c \in Configs, NEW v \in Values, Stage(c, v) PROVE TypeOK'
    BY <2>a DEF Stage, applyVars, workVars, confVars
  <2>b. ASSUME NEW c \in Configs, Revert(c) PROVE TypeOK'
    BY <2>b DEF Revert, applyVars, workVars, confVars
  <2>c. ASSUME NEW a \in Applies, NEW r \in BOOLEAN, Start(a, r) PROVE TypeOK'
    BY <2>c DEF Start, fileVars, workVars, confVars, Files
  <2>d. ASSUME NEW a \in Applies, ApplyStep(a) PROVE TypeOK'
    <3>1. ASSUME NEW c \in Configs, BackupConfig(a, c) PROVE TypeOK'
      BY <3>1 DEF BackupConfig, workVars, confVars
    <3>2. ASSUME NEW c \in Configs, Commit(a, c) PROVE TypeOK'
      BY <3>2 DEF Commit, workVars, confVars
    <3>3. ASSUME NEW s \in Configs, Reload(a, s) PROVE TypeOK'
      BY <3>3, <2>0 DEF Reload, workVars, confVars
    <3>4. CASE BackupChanges(a)
      BY <3>4 DEF BackupChanges, workVars, confVars
    <3>5. CASE CreateConfirm(a)
      BY <3>5 DEF CreateConfirm, workVars, confVars
    <3>6. CASE CommitFails(a)
      BY <3>6 DEF CommitFails, fileVars, workVars, confVars
    <3>7. CASE CommitDone(a)
      BY <3>7, AffectedType DEF CommitDone, fileVars, workVars, confVars
    <3>8. CASE Return(a)
      BY <3>8 DEF Return, fileVars, confVars
    <3>. QED
      BY <2>d, <3>1, <3>2, <3>3, <3>4, <3>5, <3>6, <3>7, <3>8 DEF ApplyStep
  <2>e. ASSUME NEW a \in Applies, ConfirmAccess(a) PROVE TypeOK'
    BY <2>e DEF ConfirmAccess, fileVars, applyVars, workVars
  <2>f. ASSUME NEW a \in Applies, ConfirmRemove(a) PROVE TypeOK'
    BY <2>f DEF ConfirmRemove, applyVars, workVars
  <2>g. ASSUME NEW a \in Applies, Rollback(a) PROVE TypeOK'
    BY <2>g DEF Rollback, fileVars, applyVars, confVars
  <2>h. ASSUME NEW a \in Applies, NEW w \in Workers, WorkerStep(a, w)
        PROVE  TypeOK'
    <3>0. CASE WakeUnconfirmed(a, w)
      BY <3>0 DEF WakeUnconfirmed, Files, fileVars, applyVars, confVars
    <3>1. CASE WakeConfirmed(a, w)
      BY <3>1 DEF WakeConfirmed, fileVars, applyVars, confVars
    <3>2. CASE Cleanup(a, w)
      BY <3>2 DEF Cleanup, applyVars, confVars, Empty
    <3>3. ASSUME NEW c \in Configs, RestoreConfig(a, w, c) PROVE TypeOK'
      <4>1. config' \in [Configs -> Values]
        BY <3>3 DEF RestoreConfig
      <4>2. wtodo' \in [Applies -> [Workers -> SUBSET Configs]]
        BY <3>3 DEF RestoreConfig
      <4>. QED
        BY <3>3, <4>1, <4>2 DEF RestoreConfig, applyVars, confVars
    <3>4. ASSUME NEW s \in Configs, RollbackReload(a, w, s) PROVE TypeOK'
      BY <3>4, <2>0 DEF RollbackReload, applyVars, confVars
    <3>5. CASE RestoreDone(a, w)
      <4>1. Affected(Files(bakConfigs[a])) \in SUBSET Configs
        BY AffectedType
      <4>2. worker' \in [Applies -> [Workers -> WorkStates]]
        BY <3>5 DEF RestoreDone
      <4>3. wtodo' \in [Applies -> [Workers -> SUBSET Configs]]
        BY <3>5, <4>1 DEF RestoreDone
      <4>. QED
        BY <3>5, <4>2, <4>3 DEF RestoreDone, fileVars, applyVars, confVars
    <3>6. CASE RestoreChanges(a, w)
      BY <3>6 DEF RestoreChanges, applyVars, confVars
    <3>7. CASE Clear(a, w)
      BY <3>7 DEF Clear, applyVars, confVars, Empty
    <3>. QED
      BY <2>h, <3>0, <3>1, <3>2, <3>3, <3>4, <3>5, <3>6, <3>7 DEF WorkerStep
  <2>i. CASE Restart
    BY <2>i, <2>0 DEF Restart, Empty, Read
  <2>j. CASE UNCHANGED vars
    BY <2>j DEF vars, fileVars, applyVars, workVars, confVars
  <2>. QED
    BY <2>a, <2>b, <2>c, <2>d, <2>e, <2>f, <2>g, <2>h, <2>i, <2>j DEF Next
<1>. QED
  BY <1>1, <1>2, PTL DEF Spec
-----------------------------------------------------------------------------
(* A confirmation that the timer sees stands.                              *)

\* The inductive strengthening of ConfirmStands: a worker exists only once
\* its apply has returned, and what was confirmed during its sleep has no
\* confirm file any more, so the worker can only clean up.
ConfirmInv ==
  \A a \in Applies :
    /\ worker[a]["auto"] # "none" => pc[a] = "done"
    /\ answered[a] = "sleep" =>
         /\ a \notin confirmFile
         /\ worker[a]["auto"] \in {"sleep", "cleanup", "kept", "dead"}

LEMMA ConfirmStep == TypeOK /\ ConfirmInv /\ [Next]_vars => ConfirmInv'
<1>. USE ConstantsAssumption
<1>. SUFFICES ASSUME TypeOK, ConfirmInv, [Next]_vars PROVE ConfirmInv'
  OBVIOUS
<1>. USE DEF TypeOK, ConfirmInv
<1>a. ASSUME NEW c \in Configs, NEW v \in Values, Stage(c, v) PROVE ConfirmInv'
  BY <1>a DEF Stage, applyVars, workVars, confVars
<1>b. ASSUME NEW c \in Configs, Revert(c) PROVE ConfirmInv'
  BY <1>b DEF Revert, applyVars, workVars, confVars
<1>c. ASSUME NEW a \in Applies, NEW r \in BOOLEAN, Start(a, r)
      PROVE  ConfirmInv'
  BY <1>c DEF Start, fileVars, workVars, confVars
<1>d. ASSUME NEW a \in Applies, ApplyStep(a) PROVE ConfirmInv'
  <2>1. ASSUME NEW c \in Configs,
               BackupConfig(a, c) \/ Commit(a, c) \/ Reload(a, c)
        PROVE  ConfirmInv'
    BY <2>1 DEF BackupConfig, Commit, Reload, workVars, confVars
  <2>2. CASE BackupChanges(a) \/ CreateConfirm(a) \/ CommitFails(a)
             \/ CommitDone(a)
    BY <2>2 DEF BackupChanges, CreateConfirm, CommitFails, CommitDone,
                fileVars, workVars, confVars
  <2>3. CASE Return(a)
    BY <2>3 DEF Return, fileVars, confVars
  <2>. QED
    BY <1>d, <2>1, <2>2, <2>3 DEF ApplyStep
<1>e. ASSUME NEW a \in Applies, ConfirmAccess(a) \/ ConfirmRemove(a)
      PROVE  ConfirmInv'
  BY <1>e DEF ConfirmAccess, ConfirmRemove, fileVars, applyVars, workVars
<1>f. ASSUME NEW a \in Applies, Rollback(a) PROVE ConfirmInv'
  BY <1>f DEF Rollback, fileVars, applyVars, confVars
<1>g. ASSUME NEW a \in Applies, NEW w \in Workers, WorkerStep(a, w)
      PROVE  ConfirmInv'
  <2>0. CASE WakeUnconfirmed(a, w)
    BY <2>0 DEF WakeUnconfirmed, fileVars, applyVars, confVars
  <2>1. CASE WakeConfirmed(a, w)
    BY <2>1 DEF WakeConfirmed, fileVars, applyVars, confVars
  <2>2. CASE Cleanup(a, w)
    BY <2>2 DEF Cleanup, applyVars, confVars
  <2>3. ASSUME NEW c \in Configs,
               RestoreConfig(a, w, c) \/ RollbackReload(a, w, c)
        PROVE  ConfirmInv'
    BY <2>3 DEF RestoreConfig, RollbackReload, applyVars, confVars
  <2>4. CASE RestoreDone(a, w)
    BY <2>4 DEF RestoreDone, fileVars, applyVars, confVars
  <2>5. CASE RestoreChanges(a, w)
    BY <2>5 DEF RestoreChanges, applyVars, confVars
  <2>6. CASE Clear(a, w)
    BY <2>6 DEF Clear, applyVars, confVars
  <2>. QED
    BY <1>g, <2>0, <2>1, <2>2, <2>3, <2>4, <2>5, <2>6 DEF WorkerStep
<1>h. CASE Restart
  BY <1>h DEF Restart
<1>i. CASE UNCHANGED vars
  BY <1>i DEF vars, fileVars, applyVars, workVars, confVars
<1>. QED
  BY <1>a, <1>b, <1>c, <1>d, <1>e, <1>f, <1>g, <1>h, <1>i DEF Next

\* Confirmed while the timer slept is never rolled back by that timer.
THEOREM ConfirmationStands == Spec => []ConfirmStands
<1>1. Init => ConfirmInv
  BY ConstantsAssumption DEF Init, ConfirmInv
<1>2. ConfirmInv => ConfirmStands
  BY DEF ConfirmInv, ConfirmStands, RolledBack
<1>. QED
  BY <1>1, <1>2, TypeCorrect, ConfirmStep, PTL DEF Spec
-----------------------------------------------------------------------------
(* Services run on what is committed.                                      *)

\* Workers belong to applies whose backup is complete, and a commit loop
\* only has files of its own list left.
OrderInv ==
  \A a \in Applies :
    /\ a \in confirmFile \/ (\E w \in Workers : worker[a][w] # "none")
         => pc[a] \notin {"idle", "backup", "confirmfile"}
    /\ pc[a] = "commit" => todo[a] \subseteq list[a]

LEMMA OrderStep == TypeOK /\ OrderInv /\ [Next]_vars => OrderInv'
<1>. USE ConstantsAssumption
<1>. SUFFICES ASSUME TypeOK, OrderInv, [Next]_vars PROVE OrderInv'
  OBVIOUS
<1>. USE DEF TypeOK, OrderInv
<1>a. ASSUME NEW c \in Configs, NEW v \in Values, Stage(c, v) PROVE OrderInv'
  BY <1>a DEF Stage, applyVars, workVars, confVars
<1>b. ASSUME NEW c \in Configs, Revert(c) PROVE OrderInv'
  BY <1>b DEF Revert, applyVars, workVars, confVars
<1>c. ASSUME NEW a \in Applies, NEW r \in BOOLEAN, Start(a, r) PROVE OrderInv'
  BY <1>c DEF Start, fileVars, workVars, confVars
<1>d. ASSUME NEW a \in Applies, ApplyStep(a) PROVE OrderInv'
  <2>1. ASSUME NEW c \in Configs,
               BackupConfig(a, c) \/ Commit(a, c) \/ Reload(a, c)
        PROVE  OrderInv'
    <3>1. /\ todo' = [todo EXCEPT ![a] = todo[a] \ {c}]
          /\ UNCHANGED <<list, pc>>
      BY <2>1 DEF BackupConfig, Commit, Reload
    <3>2. UNCHANGED <<confirmFile, worker>>
      BY <2>1 DEF BackupConfig, Commit, Reload, workVars
    <3>. QED
      BY <3>1, <3>2
  <2>2. CASE BackupChanges(a) \/ CommitFails(a) \/ CommitDone(a)
    BY <2>2 DEF BackupChanges, CommitFails, CommitDone, fileVars, workVars
  <2>4. CASE CreateConfirm(a)
    <3>1. pc' = [pc EXCEPT ![a] = "commit"] /\ todo'[a] = list'[a]
      BY <2>4 DEF CreateConfirm
    <3>2. \A b \in Applies : b # a => /\ pc'[b] = pc[b]
                                      /\ todo'[b] = todo[b]
                                      /\ (b \in confirmFile' => b \in confirmFile)
      BY <2>4 DEF CreateConfirm
    <3>. QED
      BY <2>4, <3>1, <3>2 DEF CreateConfirm, workVars
  <2>3. CASE Return(a)
    <3>1. pc' = [pc EXCEPT ![a] = "done"]
      BY <2>3 DEF Return
    <3>2. \A b \in Applies : b # a => worker'[b] = worker[b]
      BY <2>3 DEF Return
    <3>. QED
      BY <2>3, <3>1, <3>2 DEF Return, fileVars
  <2>. QED
    BY <1>d, <2>1, <2>2, <2>3, <2>4 DEF ApplyStep
<1>e. ASSUME NEW a \in Applies, ConfirmAccess(a) \/ ConfirmRemove(a)
      PROVE  OrderInv'
  BY <1>e DEF ConfirmAccess, ConfirmRemove, fileVars, applyVars, workVars
<1>f. ASSUME NEW a \in Applies, Rollback(a) PROVE OrderInv'
  BY <1>f DEF Rollback, fileVars, applyVars, confVars
<1>g. ASSUME NEW a \in Applies, NEW w \in Workers, WorkerStep(a, w)
      PROVE  OrderInv'
  <2>1. worker[a][w] # "none"
    BY <1>g DEF WorkerStep, WakeUnconfirmed, WakeConfirmed, Cleanup,
                RestoreConfig, RollbackReload, RestoreDone, RestoreChanges,
                Clear
  <2>2. \A b \in Applies, x \in Workers :
          (b # a \/ x # w) => worker'[b][x] = worker[b][x]
    BY <1>g DEF WorkerStep, WakeUnconfirmed, WakeConfirmed, Cleanup,
                RestoreConfig, RollbackReload, RestoreDone, RestoreChanges,
                Clear
  <2>3. confirmFile' \subseteq confirmFile /\ UNCHANGED applyVars
    BY <1>g DEF WorkerStep, WakeUnconfirmed, WakeConfirmed, Cleanup,
                RestoreConfig, RollbackReload, RestoreDone, RestoreChanges,
                Clear, fileVars
  <2>4. ASSUME NEW b \in Applies, NEW x \in Workers, worker'[b][x] # "none"
        PROVE  \E y \in Workers : worker[b][y] # "none"
    BY <2>1, <2>2, <2>4
  <2>5. pc' = pc /\ todo' = todo /\ list' = list
    BY <2>3 DEF applyVars
  <2>. QED
    BY <2>3, <2>4, <2>5
<1>h. CASE Restart
  BY <1>h DEF Restart
<1>i. CASE UNCHANGED vars
  BY <1>i DEF vars, fileVars, applyVars, workVars, confVars
<1>. QED
  BY <1>a, <1>b, <1>c, <1>d, <1>e, <1>f, <1>g, <1>h, <1>i DEF Next

\* Request a, or worker w of a's token, has changed file c (or died trying)
\* and has not reloaded service s yet.
ApplyOwes(a, c, s) ==
  \/ pc[a] = "failed"
  \/ pc[a] = "commit" /\ c \in list[a] \ todo[a]
  \/ pc[a] = "reload" /\ s \in todo[a]

WorkerOwes(a, w, c, s) ==
  \/ worker[a][w] = "crashed"
  \/ /\ worker[a][w] = "restore"
     /\ c \notin wtodo[a][w]
     /\ c \in Files(bakConfigs[a]) \/ Files(bakConfigs[a]) = {}
  \/ worker[a][w] = "reload" /\ s \in wtodo[a][w]

Owed(c, s) == \E a \in Applies : \/ ApplyOwes(a, c, s)
                                \/ \E w \in Workers : WorkerOwes(a, w, c, s)

\* The inductive strengthening of ServicesCurrent: a service is behind a
\* file only while somebody is on the way to reload it.
ServiceInv ==
  \A c \in Configs : \A s \in Affected({c}) :
    running[s][c] = config[c] \/ Owed(c, s)

\* The form every step takes: what was owed stays owed, and what becomes
\* stale becomes owed.
LEMMA ServiceByCases ==
  ASSUME ServiceInv, NEW c \in Configs, NEW s \in Affected({c}),
         running[s][c] = config[c] => (running[s][c] = config[c] \/ Owed(c, s))',
         \A a \in Applies : ApplyOwes(a, c, s)
           => (running[s][c] = config[c] \/ Owed(c, s))',
         \A a \in Applies, w \in Workers : WorkerOwes(a, w, c, s)
           => (running[s][c] = config[c] \/ Owed(c, s))'
  PROVE  (running[s][c] = config[c] \/ Owed(c, s))'
BY DEF ServiceInv, Owed

LEMMA ApplyOwesStays ==
  ASSUME NEW c \in Configs, NEW s \in Affected({c}), NEW a \in Applies,
         pc'[a] = pc[a], list'[a] = list[a], todo'[a] = todo[a]
  PROVE  ApplyOwes(a, c, s) => Owed(c, s)'
BY DEF ApplyOwes, Owed

LEMMA WorkerOwesStays ==
  ASSUME NEW c \in Configs, NEW s \in Affected({c}), NEW a \in Applies,
         NEW w \in Workers, worker'[a][w] = worker[a][w],
         wtodo'[a][w] = wtodo[a][w],
         bakConfigs'[a] \in {bakConfigs[a], Empty}
  PROVE  WorkerOwes(a, w, c, s) => Owed(c, s)'
<1>1. CASE bakConfigs'[a] = bakConfigs[a]
  BY <1>1 DEF WorkerOwes, Owed, Files
<1>2. CASE bakConfigs'[a] = Empty
  <2>1. Files(bakConfigs'[a]) = {}
    BY <1>2 DEF Files, Empty
  <2>. QED
    BY <2>1 DEF WorkerOwes, Owed, Files
<1>. QED
  BY <1>1, <1>2

LEMMA ServiceApplyStep ==
  ASSUME TypeOK, ConfirmInv, OrderInv, ServiceInv,
         NEW a \in Applies, ApplyStep(a)
  PROVE  ServiceInv'
<1>. USE ConstantsAssumption DEF TypeOK
<1>. SUFFICES ASSUME NEW c \in Configs, NEW s \in Affected({c})
              PROVE  (running[s][c] = config[c] \/ Owed(c, s))'
  BY DEF ServiceInv
<1>. DEFINE Goal == (running[s][c] = config[c] \/ Owed(c, s))'
<1>0. s \in Configs /\ c \in Inputs(s)
  BY DEF Affected, Inputs
<1>1. \A b \in Applies : b # a =>
        /\ pc'[b] = pc[b] /\ list'[b] = list[b] /\ todo'[b] = todo[b]
        /\ bakConfigs'[b] = bakConfigs[b] /\ worker'[b] = worker[b]
        /\ wtodo'[b] = wtodo[b]
  BY DEF ApplyStep, BackupConfig, Commit, Reload, BackupChanges, CreateConfirm,
         CommitFails, CommitDone, Return, fileVars, workVars
<1>2. \A b \in Applies : b # a => (ApplyOwes(b, c, s) => Goal)
  BY <1>1, ApplyOwesStays
<1>3. \A b \in Applies, w \in Workers : WorkerOwes(b, w, c, s) => Goal
  <2>. SUFFICES ASSUME NEW b \in Applies, NEW w \in Workers,
                       WorkerOwes(b, w, c, s)
                PROVE  Goal
    OBVIOUS
  <2>1. worker[b][w] \in {"restore", "reload", "crashed"}
    BY DEF WorkerOwes
  <2>2. worker'[b][w] = worker[b][w] /\ wtodo'[b][w] = wtodo[b][w]
    <3>1. Return(a) => worker[a]["auto"] = "none"
      BY DEF Return, ConfirmInv
    <3>2. CASE Return(a)
      BY <2>1, <3>1, <3>2 DEF Return
    <3>3. CASE ~Return(a)
      BY <3>3 DEF ApplyStep, BackupConfig, Commit, Reload, BackupChanges,
           CreateConfirm, CommitFails, CommitDone, workVars
    <3>. QED
      BY <3>2, <3>3
  <2>3. bakConfigs'[b] = bakConfigs[b]
    BY <2>1 DEF ApplyStep, BackupConfig, Commit, Reload, BackupChanges,
         CreateConfirm, CommitFails, CommitDone, Return, fileVars, OrderInv
  <2>. QED
    BY <2>2, <2>3, WorkerOwesStays
<1>4. SUFFICES /\ ApplyOwes(a, c, s) => Goal
               /\ running[s][c] = config[c] => Goal
  BY <1>2, <1>3, ServiceByCases
<1>5. ASSUME NEW d \in Configs, Commit(a, d)
      PROVE  ApplyOwes(a, c, s)' \/ (config[c] = config'[c] /\ ~ApplyOwes(a, c, s))
  BY <1>5 DEF Commit, ApplyOwes, OrderInv
<1>6. CASE \E d \in Configs : BackupConfig(a, d) \/ Commit(a, d)
  BY <1>5, <1>6 DEF BackupConfig, Commit, ApplyOwes, Owed
<1>7. ASSUME NEW t \in Configs, Reload(a, t)
      PROVE  /\ ApplyOwes(a, c, s) => Goal
             /\ running[s][c] = config[c] => Goal
  <2>1. CASE s = t
    BY <1>7, <1>0, <2>1 DEF Reload, Read
  <2>2. CASE s # t
    BY <1>7, <2>2 DEF Reload, ApplyOwes, Owed
  <2>. QED
    BY <2>1, <2>2
<1>8. CASE BackupChanges(a) \/ CreateConfirm(a) \/ CommitFails(a)
  BY <1>8 DEF BackupChanges, CreateConfirm, CommitFails, ApplyOwes, Owed,
              fileVars
<1>9. CASE CommitDone(a)
  <2>1. c \in list[a] => s \in Affected(list[a])
    BY AffectedMonotone
  <2>2. list[a] # {} => pc'[a] = "reload" /\ todo'[a] = Affected(list[a])
    BY <1>9 DEF CommitDone
  <2>3. UNCHANGED <<running, config>> /\ pc[a] = "commit"
    BY <1>9 DEF CommitDone, fileVars
  <2>. QED
    BY <2>1, <2>2, <2>3 DEF ApplyOwes, Owed
<1>10. CASE Return(a)
  BY <1>10 DEF Return, ApplyOwes, fileVars
<1>. QED
  BY <1>6, <1>7, <1>8, <1>9, <1>10 DEF ApplyStep

LEMMA ServiceWorkerStep ==
  ASSUME TypeOK, OrderInv, ServiceInv,
         NEW a \in Applies, NEW w \in Workers, WorkerStep(a, w)
  PROVE  ServiceInv'
<1>. USE ConstantsAssumption DEF TypeOK
<1>. SUFFICES ASSUME NEW c \in Configs, NEW s \in Affected({c})
              PROVE  (running[s][c] = config[c] \/ Owed(c, s))'
  BY DEF ServiceInv
<1>. DEFINE Goal == (running[s][c] = config[c] \/ Owed(c, s))'
<1>0. s \in Configs /\ c \in Inputs(s)
  BY DEF Affected, Inputs
<1>1. UNCHANGED applyVars
  BY DEF WorkerStep, WakeUnconfirmed, WakeConfirmed, Cleanup, RestoreConfig,
         RestoreDone, RollbackReload, RestoreChanges, Clear
<1>2. \A b \in Applies : ApplyOwes(b, c, s) => Goal
  BY <1>1, ApplyOwesStays DEF applyVars
<1>3. \A b \in Applies, x \in Workers : b # a \/ x # w =>
        (WorkerOwes(b, x, c, s) => Goal)
  <2>1. \A b \in Applies : bakConfigs'[b] \in {bakConfigs[b], Empty}
    <3>1. \/ bakConfigs' = bakConfigs
          \/ bakConfigs' = [bakConfigs EXCEPT ![a] = Empty]
      BY DEF WorkerStep, WakeUnconfirmed, WakeConfirmed, Cleanup,
             RestoreConfig, RestoreDone, RollbackReload, RestoreChanges,
             Clear, fileVars
    <3>. QED
      BY <3>1
  <2>2. \A b \in Applies, x \in Workers : b # a \/ x # w =>
          worker'[b][x] = worker[b][x] /\ wtodo'[b][x] = wtodo[b][x]
    <3>1. \E st : worker' = [worker EXCEPT ![a][w] = st]
      <4>1. worker = [worker EXCEPT ![a][w] = worker[a][w]]
        OBVIOUS
      <4>. QED
        BY <4>1 DEF WorkerStep, WakeUnconfirmed, WakeConfirmed, Cleanup,
                    RestoreConfig, RestoreDone, RollbackReload, RestoreChanges,
                    Clear
    <3>2. \E left : wtodo' = [wtodo EXCEPT ![a][w] = left]
      <4>1. wtodo = [wtodo EXCEPT ![a][w] = wtodo[a][w]]
        OBVIOUS
      <4>. QED
        BY <4>1 DEF WorkerStep, WakeUnconfirmed, WakeConfirmed, Cleanup,
                    RestoreConfig, RestoreDone, RollbackReload, RestoreChanges,
                    Clear
    <3>. QED
      BY <3>1, <3>2
  <2>3. ASSUME NEW b \in Applies, NEW x \in Workers, b # a \/ x # w
        PROVE  WorkerOwes(b, x, c, s) => Goal
    <3>1. bakConfigs'[b] \in {bakConfigs[b], Empty}
      BY <2>1
    <3>2. worker'[b][x] = worker[b][x] /\ wtodo'[b][x] = wtodo[b][x]
      BY <2>2, <2>3
    <3>3. WorkerOwes(b, x, c, s) => Owed(c, s)'
      BY <3>1, <3>2, WorkerOwesStays
    <3>. QED
      BY <3>3
  <2>. QED
    BY <2>3
<1>4. SUFFICES /\ WorkerOwes(a, w, c, s) => Goal
               /\ running[s][c] = config[c] => Goal
  BY <1>2, <1>3, ServiceByCases
<1>5. CASE WakeUnconfirmed(a, w) \/ WakeConfirmed(a, w) \/ Cleanup(a, w)
  BY <1>5 DEF WakeUnconfirmed, WakeConfirmed, Cleanup, WorkerOwes, fileVars
<1>6. ASSUME NEW d \in Configs, RestoreConfig(a, w, d)
      PROVE  /\ WorkerOwes(a, w, c, s) => Goal
             /\ running[s][c] = config[c] => Goal
  <2>1. WorkerOwes(a, w, c, s) => WorkerOwes(a, w, c, s)'
    BY <1>6 DEF RestoreConfig, WorkerOwes, Files
  <2>2. config'[c] # config[c] => WorkerOwes(a, w, c, s)'
    BY <1>6 DEF RestoreConfig, WorkerOwes, Files
  <2>. QED
    BY <1>6, <2>1, <2>2 DEF RestoreConfig, Owed
<1>7. CASE RestoreDone(a, w)
  <2>1. c \in Files(bakConfigs[a]) => s \in Affected(Files(bakConfigs[a]))
    <3>1. Files(bakConfigs[a]) \in SUBSET Configs
      BY DEF Files
    <3>. QED
      BY <3>1, AffectedMonotone
  <2>2. /\ Files(bakConfigs[a]) = {} => worker'[a][w] = "crashed"
        /\ Files(bakConfigs[a]) # {} =>
             /\ worker'[a][w] = "reload"
             /\ wtodo'[a][w] = Affected(Files(bakConfigs[a]))
    BY <1>7 DEF RestoreDone
  <2>3. WorkerOwes(a, w, c, s) => WorkerOwes(a, w, c, s)'
    BY <1>7, <2>1, <2>2 DEF RestoreDone, WorkerOwes
  <2>. QED
    BY <1>7, <2>3 DEF RestoreDone, Owed, fileVars
<1>8. ASSUME NEW t \in Configs, RollbackReload(a, w, t)
      PROVE  /\ WorkerOwes(a, w, c, s) => Goal
             /\ running[s][c] = config[c] => Goal
  <2>1. CASE s = t
    BY <1>8, <1>0, <2>1 DEF RollbackReload, Read
  <2>2. CASE s # t
    BY <1>8, <2>2 DEF RollbackReload, WorkerOwes, Owed
  <2>. QED
    BY <2>1, <2>2
<1>9. CASE RestoreChanges(a, w) \/ Clear(a, w)
  BY <1>9 DEF RestoreChanges, Clear, WorkerOwes
<1>. QED
  BY <1>5, <1>6, <1>7, <1>8, <1>9 DEF WorkerStep

LEMMA ServiceStep ==
  TypeOK /\ ConfirmInv /\ OrderInv /\ ServiceInv /\ [Next]_vars => ServiceInv'
<1>. USE ConstantsAssumption
<1>. SUFFICES ASSUME TypeOK, ConfirmInv, OrderInv, ServiceInv, [Next]_vars
              PROVE  ServiceInv'
  OBVIOUS
<1>1. ASSUME UNCHANGED <<config, running, bakConfigs, list, todo, wtodo>>,
             \A a \in Applies : pc[a] # "idle" => pc'[a] = pc[a],
             \A a \in Applies, w \in Workers :
               worker[a][w] # "none" => worker'[a][w] = worker[a][w]
      PROVE  ServiceInv'
  <2>1. \A a \in Applies : \A c, s :
          ApplyOwes(a, c, s) => ApplyOwes(a, c, s)'
    BY <1>1 DEF ApplyOwes
  <2>2. \A a \in Applies, w \in Workers : \A c, s :
          WorkerOwes(a, w, c, s) => WorkerOwes(a, w, c, s)'
    BY <1>1 DEF WorkerOwes
  <2>. QED
    BY <1>1, <2>1, <2>2 DEF ServiceInv, Owed
<1>2. ASSUME NEW a \in Applies, NEW r \in BOOLEAN, Start(a, r)
      PROVE  ServiceInv'
  <2>1. \A b \in Applies : \A c, s : ApplyOwes(b, c, s) => ApplyOwes(b, c, s)'
    BY <1>2 DEF Start, ApplyOwes, TypeOK
  <2>2. \A b \in Applies, w \in Workers : \A c, s :
          WorkerOwes(b, w, c, s) => WorkerOwes(b, w, c, s)'
    BY <1>2 DEF Start, WorkerOwes, fileVars, workVars
  <2>. QED
    BY <1>2, <2>1, <2>2 DEF Start, ServiceInv, Owed, fileVars
<1>3. CASE \E c \in Configs : (\E v \in Values : Stage(c, v)) \/ Revert(c)
  BY <1>1, <1>3 DEF Stage, Revert, applyVars, workVars
<1>4. CASE \E a \in Applies : ConfirmAccess(a) \/ ConfirmRemove(a)
  BY <1>1, <1>4 DEF ConfirmAccess, ConfirmRemove, fileVars, applyVars, workVars
<1>5. ASSUME NEW a \in Applies, Rollback(a) PROVE ServiceInv'
  <2>1. \A b \in Applies, w \in Workers :
          worker[b][w] # "none" => worker'[b][w] = worker[b][w]
    BY <1>5 DEF Rollback, TypeOK
  <2>. QED
    BY <1>1, <1>5, <2>1 DEF Rollback, fileVars, applyVars
<1>6. CASE Restart
  BY <1>6 DEF Restart, ServiceInv, Read, Inputs, Affected
<1>7. CASE UNCHANGED vars
  BY <1>1, <1>7 DEF vars, fileVars, applyVars, workVars
<1>. QED
  BY <1>2, <1>3, <1>4, <1>5, <1>6, <1>7, ServiceApplyStep, ServiceWorkerStep
  DEF Next

\* When no apply and no rollback is under way and none has died half-way,
\* every service has read the committed content of every file it depends on.
THEOREM ServicesStayCurrent == Spec => []ServicesCurrent
<1>1. Init => ConfirmInv /\ OrderInv
  BY ConstantsAssumption DEF Init, ConfirmInv, OrderInv
<1>2. Init => ServiceInv
  BY DEF Init, ServiceInv, Read, Inputs, Affected
<1>3. TypeOK /\ ServiceInv => ServicesCurrent
  <2>. SUFFICES ASSUME TypeOK, ServiceInv, ~Busy, ~Broken, NEW s \in Configs
                PROVE  running[s] = Read(s)
    BY DEF ServicesCurrent
  <2>1. \A c \in Configs : ~Owed(c, s)
    BY DEF Owed, ApplyOwes, WorkerOwes, Busy, Broken
  <2>2. \A c \in Inputs(s) : running[s][c] = config[c]
    BY <2>1 DEF ServiceInv, Inputs
  <2>. QED
    BY <2>2 DEF TypeOK, Read
<1>. QED
  BY <1>1, <1>2, <1>3, TypeCorrect, ConfirmStep, OrderStep, ServiceStep, PTL
  DEF Spec
-----------------------------------------------------------------------------
(* The backup that a rollback would go back to.                            *)

\* The inductive strengthening of BackupComplete: while the backup is made
\* it holds the files that the loop has behind it, afterwards all of them,
\* and a worker that is about to remove it has found no confirm file.
BackupOf(a) ==
  /\ pc[a] = "idle" => Files(bakConfigs[a]) = {}
  /\ pc[a] = "backup" => /\ todo[a] \subseteq list[a]
                         /\ Files(bakConfigs[a]) = list[a] \ todo[a]
  /\ pc[a] = "confirmfile" => Files(bakConfigs[a]) = list[a]
  /\ a \in confirmFile /\ worker[a]["auto"] \in {"none", "sleep"}
       => Files(bakConfigs[a]) = list[a]
  /\ a \in confirmFile => \A w \in Workers : worker[a][w] # "cleanup"

BackupInv == \A a \in Applies : BackupOf(a)

\* What the invariant says of a request depends on nothing but the state of
\* that request.
LEMMA BackupByRequest ==
  ASSUME BackupInv, NEW a \in Applies,
         pc'[a] = pc[a], todo'[a] = todo[a], list'[a] = list[a],
         bakConfigs'[a] = bakConfigs[a], worker'[a] = worker[a],
         a \in confirmFile' => a \in confirmFile
  PROVE  BackupOf(a)'
BY DEF BackupInv, BackupOf, Files

\* Copying a file adds it to the backup; an empty directory has no files.
LEMMA FilesOfBackup ==
  ASSUME NEW dir \in [Configs -> Content], NEW c \in Configs, NEW v \in Values,
         None \notin Values
  PROVE  /\ Files([dir EXCEPT ![c] = v]) = Files(dir) \cup {c}
         /\ Files(Empty) = {}
BY DEF Files, Empty

LEMMA BackupApplyStep ==
  ASSUME TypeOK, ConfirmInv, OrderInv, BackupInv,
         NEW a \in Applies, ApplyStep(a)
  PROVE  BackupInv'
<1>. USE ConstantsAssumption DEF TypeOK
<1>1. ASSUME NEW b \in Applies, b # a
      PROVE  /\ pc'[b] = pc[b] /\ todo'[b] = todo[b] /\ list'[b] = list[b]
             /\ bakConfigs'[b] = bakConfigs[b] /\ worker'[b] = worker[b]
             /\ b \in confirmFile' => b \in confirmFile
  BY <1>1 DEF ApplyStep, BackupConfig, Commit, Reload, BackupChanges,
     CreateConfirm, CommitFails, CommitDone, Return, fileVars, workVars
<1>2. SUFFICES BackupOf(a)'
  BY <1>1, BackupByRequest DEF BackupInv
<1>3. BackupOf(a)
  BY DEF BackupInv
<1>4. ASSUME NEW c \in Configs, BackupConfig(a, c)
      PROVE  BackupOf(a)'
  <2>1. Files(bakConfigs'[a]) = Files(bakConfigs[a]) \cup {c}
    BY <1>4, FilesOfBackup DEF BackupConfig
  <2>2. todo'[a] = todo[a] \ {c} /\ c \in todo[a]
    BY <1>4 DEF BackupConfig
  <2>3. a \notin confirmFile
    BY <1>4 DEF BackupConfig, OrderInv
  <2>4. /\ pc[a] = "backup"
        /\ UNCHANGED <<pc, list, confirmFile, worker>>
    BY <1>4 DEF BackupConfig, workVars
  <2>. QED
    BY <1>3, <2>1, <2>2, <2>3, <2>4 DEF BackupOf, Files
<1>5. ASSUME NEW c \in Configs, Commit(a, c) \/ Reload(a, c)
      PROVE  BackupOf(a)'
  <2>1. /\ pc[a] \in {"commit", "reload"}
        /\ UNCHANGED <<pc, list, bakConfigs, confirmFile, worker>>
    BY <1>5 DEF Commit, Reload, workVars
  <2>. QED
    BY <1>3, <2>1 DEF BackupOf, Files
<1>6. CASE BackupChanges(a) \/ CommitFails(a) \/ CommitDone(a)
  BY <1>3, <1>6 DEF BackupChanges, CommitFails, CommitDone, BackupOf, Files,
                    fileVars, workVars
<1>7. CASE CreateConfirm(a)
  <2>1. \A w \in Workers : worker[a][w] = "none"
    BY <1>7 DEF CreateConfirm, OrderInv
  <2>. QED
    BY <1>3, <1>7, <2>1 DEF CreateConfirm, BackupOf, Files, workVars
<1>8. CASE Return(a)
  <2>1. worker[a]["auto"] = "none"
    BY <1>8 DEF Return, ConfirmInv
  <2>2. \A w \in Workers : worker'[a][w] = "cleanup" => worker[a][w] = "cleanup"
    BY <1>8 DEF Return
  <2>3. pc'[a] = "done"
    BY <1>8 DEF Return
  <2>4. UNCHANGED <<confirmFile, bakConfigs, list>>
    BY <1>8 DEF Return, fileVars
  <2>. QED
    BY <1>3, <2>1, <2>2, <2>3, <2>4 DEF BackupOf, Files
<1>. QED
  BY <1>4, <1>5, <1>6, <1>7, <1>8 DEF ApplyStep

LEMMA BackupWorkerStep ==
  ASSUME TypeOK, OrderInv, BackupInv,
         NEW a \in Applies, NEW w \in Workers, WorkerStep(a, w)
  PROVE  BackupInv'
<1>. USE ConstantsAssumption DEF TypeOK
<1>1. pc[a] \notin {"idle", "backup", "confirmfile"}
  <2>1. worker[a][w] # "none"
    BY DEF WorkerStep, WakeUnconfirmed, WakeConfirmed, Cleanup, RestoreConfig,
           RollbackReload, RestoreDone, RestoreChanges, Clear
  <2>. QED
    BY <2>1 DEF OrderInv
<1>2. UNCHANGED <<pc, todo, list>> /\ confirmFile' \subseteq confirmFile
  BY DEF WorkerStep, WakeUnconfirmed, WakeConfirmed, Cleanup, RestoreConfig,
         RollbackReload, RestoreDone, RestoreChanges, Clear, applyVars, fileVars
<1>3. \E st : worker' = [worker EXCEPT ![a][w] = st]
  <2>1. worker = [worker EXCEPT ![a][w] = worker[a][w]]
    OBVIOUS
  <2>. QED
    BY <2>1 DEF WorkerStep, WakeUnconfirmed, WakeConfirmed, Cleanup,
                RestoreConfig, RestoreDone, RollbackReload, RestoreChanges, Clear
<1>4. \A b \in Applies : b # a => /\ worker'[b] = worker[b]
                                  /\ bakConfigs'[b] = bakConfigs[b]
  BY <1>3 DEF WorkerStep, WakeUnconfirmed, WakeConfirmed, Cleanup, RestoreConfig,
              RestoreDone, RollbackReload, RestoreChanges, Clear, fileVars
<1>5. SUFFICES BackupOf(a)'
  <2>1. ASSUME NEW b \in Applies, b # a PROVE BackupOf(b)'
    BY <1>2, <1>4, <2>1, BackupByRequest
  <2>. QED
    BY <2>1 DEF BackupInv
<1>6. BackupOf(a)
  BY DEF BackupInv
<1>7. a \in confirmFile' => bakConfigs'[a] = bakConfigs[a]
  BY <1>6 DEF WorkerStep, WakeUnconfirmed, WakeConfirmed, Cleanup, RestoreConfig,
         RestoreDone, RollbackReload, RestoreChanges, Clear, fileVars, BackupOf
<1>8. worker'[a]["auto"] \in {"none", "sleep"}
        => worker[a]["auto"] = worker'[a]["auto"]
  <2>1. worker'[a][w] \notin {"none", "sleep"} \/ worker'[a][w] = worker[a][w]
    BY DEF WorkerStep, WakeUnconfirmed, WakeConfirmed, Cleanup, RestoreConfig,
           RestoreDone, RollbackReload, RestoreChanges, Clear
  <2>. QED
    BY <1>3, <2>1
<1>9. a \in confirmFile' => \A x \in Workers : worker'[a][x] # "cleanup"
  <2>1. a \in confirmFile' => worker'[a][w] # "cleanup"
    BY <1>6 DEF WorkerStep, WakeUnconfirmed, WakeConfirmed, Cleanup,
           RestoreConfig, RestoreDone, RollbackReload, RestoreChanges, Clear,
           fileVars, BackupOf
  <2>2. \A x \in Workers : x # w => worker'[a][x] = worker[a][x]
    BY <1>3
  <2>. QED
    BY <1>2, <1>6, <2>1, <2>2 DEF BackupOf
<1>. QED
  BY <1>1, <1>2, <1>6, <1>7, <1>8, <1>9 DEF BackupOf, Files

LEMMA BackupStep ==
  TypeOK /\ ConfirmInv /\ OrderInv /\ BackupInv /\ [Next]_vars => BackupInv'
<1>. USE ConstantsAssumption
<1>. SUFFICES ASSUME TypeOK, ConfirmInv, OrderInv, BackupInv, [Next]_vars
              PROVE  BackupInv'
  OBVIOUS
<1>1. ASSUME UNCHANGED <<bakConfigs, confirmFile, pc, list, todo, worker>>
      PROVE  BackupInv'
  BY <1>1 DEF BackupInv, BackupOf, Files
<1>2. CASE \E c \in Configs : (\E v \in Values : Stage(c, v)) \/ Revert(c)
  BY <1>1, <1>2 DEF Stage, Revert, applyVars, workVars
<1>3. ASSUME NEW a \in Applies, NEW r \in BOOLEAN, Start(a, r)
      PROVE  BackupInv'
  <2>1. a \notin confirmFile
    BY <1>3 DEF Start, OrderInv
  <2>2. /\ pc'[a] \in {"backup", "commit"} /\ todo'[a] = list'[a]
        /\ Files(bakConfigs[a]) = {}
    BY <1>3 DEF Start, BackupInv, BackupOf, TypeOK
  <2>3. ASSUME NEW b \in Applies, b # a
        PROVE  pc'[b] = pc[b] /\ todo'[b] = todo[b] /\ list'[b] = list[b]
    BY <1>3, <2>3 DEF Start
  <2>4. UNCHANGED <<bakConfigs, confirmFile, worker>>
    BY <1>3 DEF Start, fileVars, workVars
  <2>. QED
    BY <2>1, <2>2, <2>3, <2>4, BackupByRequest DEF BackupInv, BackupOf, Files
<1>4. CASE \E a \in Applies : ConfirmAccess(a)
  BY <1>1, <1>4 DEF ConfirmAccess, fileVars, applyVars, workVars
<1>5. CASE \E a \in Applies : ConfirmRemove(a)
  BY <1>5, BackupByRequest DEF ConfirmRemove, applyVars, workVars, BackupInv
<1>6. ASSUME NEW a \in Applies, Rollback(a) PROVE BackupInv'
  <2>1. \A b \in Applies, x \in Workers : \/ worker'[b][x] = worker[b][x]
                                          \/ b = a /\ x = "manual"
    BY <1>6 DEF Rollback, TypeOK
  <2>2. worker'[a]["manual"] = "sleep"
    BY <1>6 DEF Rollback, TypeOK
  <2>3. UNCHANGED <<bakConfigs, confirmFile, pc, list, todo>>
    BY <1>6 DEF Rollback, fileVars, applyVars
  <2>. QED
    BY <2>1, <2>2, <2>3 DEF BackupInv, BackupOf, Files
<1>7. CASE Restart
  BY <1>7, FilesOfBackup DEF Restart, BackupInv, BackupOf, Files, Empty
<1>8. CASE UNCHANGED vars
  BY <1>1, <1>8 DEF vars, fileVars, applyVars, workVars
<1>. QED
  BY <1>2, <1>3, <1>4, <1>5, <1>6, <1>7, <1>8, BackupApplyStep, BackupWorkerStep
  DEF Next

\* As long as the timer of a checked apply sleeps unconfirmed, every file the
\* apply committed is in the backup that the timer would restore, and nothing
\* else is, whatever other requests and their timers do meanwhile.
THEOREM BackupStaysComplete == Spec => []BackupComplete
<1>1. Init => ConfirmInv /\ OrderInv /\ BackupInv
  BY ConstantsAssumption DEF Init, ConfirmInv, OrderInv, BackupInv,
                              BackupOf, Files, Empty
<1>2. BackupInv => BackupComplete
  BY DEF BackupInv, BackupOf, BackupComplete
<1>. QED
  BY <1>1, <1>2, TypeCorrect, ConfirmStep, OrderStep, BackupStep, PTL DEF Spec

-----------------------------------------------------------------------------
(* With one administrator at a time (Overlap = FALSE), no failing commit,  *)
(* no restart and no explicit rollback, the file-by-file code implements   *)
(* the atomic promise.                                                     *)

OneAtATime == ~Overlap /\ ~CommitMayFail /\ ~MayRestart /\ Workers = {"auto"}

\* Request a is being handled, waits for its confirmation or is rolled back.
Active(a) == \/ pc[a] \in {"backup", "confirmfile", "commit", "reload"}
             \/ a \in confirmFile /\ worker[a]["auto"] = "sleep"
             \/ worker[a]["auto"] \in Restoring

Alone(a) == \A b \in Applies : b # a => ~Active(b)

\* How the files and the progress of one request hang together.
OneRequest(a) ==
  LET timer == worker[a]["auto"] IN
  /\ pc[a] = "reload" \/ timer # "none" => list[a] # {}
  /\ timer # "none" => checked[a]
  /\ pc[a] \in {"backup", "confirmfile"} =>
       /\ checked[a] /\ Files(staged) = list[a]
       /\ \A c \in Files(bakConfigs[a]) : bakConfigs[a][c] = config[c]
  /\ pc[a] = "confirmfile" => bakChanges[a] = staged
  /\ pc[a] = "commit" => Files(staged) \subseteq todo[a]
  /\ pc[a] = "reload" => Files(staged) = {}
  /\ timer = "sleep" /\ a \in confirmFile => Files(staged) = {}
  /\ timer \in {"restore", "reload"} => /\ Files(staged) = {}
                                        /\ Files(bakConfigs[a]) = list[a]
  /\ timer = "restore" => wtodo[a]["auto"] \subseteq list[a]

\* The inductive invariant of the refinement.
RefInv == /\ \A a \in Applies : Active(a) => Alone(a)
          /\ \A a \in Applies : OneRequest(a)

AllInv == TypeOK /\ ConfirmInv /\ OrderInv /\ BackupInv /\ RefInv

\* What is seen of the files through the mapping, from the point of view of a
\* request that no other one disturbs.
CfgOf(a) ==
  [c \in Configs |->
     IF pc[a] = "commit" /\ c \in todo[a] /\ staged[c] # None THEN staged[c]
     ELSE IF worker[a]["auto"] = "restore" /\ c \in wtodo[a]["auto"]
          THEN bakConfigs[a][c]
          ELSE config[c]]

DraftOf(a) ==
  IF worker[a]["auto"] \in {"restore", "reload"}
  THEN Restored(staged, bakChanges[a])
  ELSE [c \in Configs |-> IF pc[a] = "commit" /\ c \in todo[a]
                          THEN None ELSE staged[c]]

OpenOf(a) ==
  IF a \in Open
  THEN [cfg |-> Restored(config, bakConfigs[a]), draft |-> bakChanges[a]]
  ELSE None

LEMMA OneOfSet ==
  /\ \A a : OneOf({a}) = a
  /\ \A S : S # {} => OneOf(S) \in S
BY DEF OneOf

\* A request that nobody disturbs determines what the mapping shows.
LEMMA ViewOfOne ==
  \A a \in Applies : Alone(a) => /\ AbsCfg = CfgOf(a)
                                 /\ AbsDraft = DraftOf(a)
                                 /\ AbsOpen = OpenOf(a)
<1>. SUFFICES ASSUME NEW a \in Applies, Alone(a)
              PROVE  /\ AbsCfg = CfgOf(a)
                     /\ AbsDraft = DraftOf(a)
                     /\ AbsOpen = OpenOf(a)
  OBVIOUS
<1>1. Committing = IF pc[a] = "commit" THEN {a} ELSE {}
  BY DEF Committing, Alone, Active
<1>2. ASSUME NEW S \in SUBSET {"restore", "reload"}
      PROVE  Undoing(S) = IF worker[a]["auto"] \in S THEN {a} ELSE {}
  BY DEF Undoing, Alone, Active
<1>3. Open \subseteq {a}
  BY DEF Open, Alone, Active
<1>4. \A c : LeftToCommit(c) <=> pc[a] = "commit" /\ c \in todo[a]
  BY <1>1 DEF LeftToCommit
<1>5. AbsCfg = CfgOf(a)
  <2>1. Undoing({"restore"}) = IF worker[a]["auto"] = "restore" THEN {a} ELSE {}
    BY <1>2
  <2>2. OneOf({a}) = a
    BY OneOfSet
  <2>. QED
    BY <1>4, <2>1, <2>2 DEF AbsCfg, CfgOf
<1>6. AbsDraft = DraftOf(a)
  <2>1. Undoing({"restore", "reload"})
          = IF worker[a]["auto"] \in {"restore", "reload"} THEN {a} ELSE {}
    BY <1>2
  <2>2. OneOf({a}) = a
    BY OneOfSet
  <2>. QED
    BY <1>4, <2>1, <2>2 DEF AbsDraft, DraftOf
<1>7. AbsOpen = OpenOf(a)
  <2>1. Open = {} \/ Open = {a}
    BY <1>3
  <2>2. OneOf({a}) = a
    BY OneOfSet
  <2>. QED
    BY <2>1, <2>2 DEF AbsOpen, OpenOf
<1>. QED
  BY <1>5, <1>6, <1>7

\* Nothing is shown to be under way when nothing is.
LEMMA ViewOfNone ==
  TypeOK /\ (\A a \in Applies : ~Active(a))
    => AbsCfg = config /\ AbsDraft = staged /\ AbsOpen = None
<1>. SUFFICES ASSUME TypeOK, \A a \in Applies : ~Active(a)
              PROVE  AbsCfg = config /\ AbsDraft = staged /\ AbsOpen = None
  OBVIOUS
<1>1. \A c : ~LeftToCommit(c)
  BY DEF LeftToCommit, Committing, Active
<1>2. Undoing({"restore"}) = {} /\ Undoing({"restore", "reload"}) = {}
  BY DEF Undoing, Active
<1>3. Open = {}
  BY DEF Open, Active
<1>4. AbsCfg = [c \in Configs |-> config[c]]
  BY <1>1, <1>2 DEF AbsCfg
<1>5. AbsDraft = [c \in Configs |-> staged[c]]
  BY <1>1, <1>2 DEF AbsDraft
<1>. QED
  BY <1>3, <1>4, <1>5 DEF AbsOpen, TypeOK

-----------------------------------------------------------------------------
(* The invariant of the refinement is inductive.                           *)

\* A request that is not active stays so while another one moves.
LEMMA BystanderStays ==
  ASSUME NEW b \in Applies, ~Active(b), OneRequest(b),
         pc'[b] = pc[b], list'[b] = list[b], checked'[b] = checked[b],
         worker'[b] = worker[b], b \in confirmFile' => b \in confirmFile
  PROVE  ~Active(b)' /\ OneRequest(b)'
BY DEF Active, OneRequest

\* A request that has no part in a step and whose files it leaves alone.
LEMMA UntouchedStays ==
  ASSUME NEW b \in Applies, OneRequest(b),
         UNCHANGED <<config, staged>>,
         pc'[b] = pc[b], list'[b] = list[b], checked'[b] = checked[b],
         todo'[b] = todo[b], worker'[b] = worker[b], wtodo'[b] = wtodo[b],
         bakConfigs'[b] = bakConfigs[b], bakChanges'[b] = bakChanges[b],
         b \in confirmFile' => b \in confirmFile
  PROVE  (Active(b)' => Active(b)) /\ OneRequest(b)'
BY DEF Active, OneRequest, Files

\* It is enough to look at the request that moves.
LEMMA RefByMover ==
  ASSUME NEW a \in Applies, OneRequest(a)',
         \A b \in Applies : b # a => ~Active(b)' /\ OneRequest(b)'
  PROVE  RefInv'
BY DEF RefInv, Alone

LEMMA RefApplyStep ==
  ASSUME OneAtATime, AllInv, NEW a \in Applies, ApplyStep(a)
  PROVE  RefInv'
<1>. USE ConstantsAssumption DEF AllInv, TypeOK
<1>1. Active(a) /\ Alone(a) /\ OneRequest(a)
  <2>1. pc[a] \in {"backup", "confirmfile", "commit", "reload"}
    BY DEF ApplyStep, BackupConfig, Commit, Reload, BackupChanges,
           CreateConfirm, CommitFails, CommitDone, Return
  <2>. QED
    BY <2>1 DEF Active, RefInv
<1>2. ASSUME NEW b \in Applies, b # a
      PROVE  ~Active(b)' /\ OneRequest(b)'
  <2>1. /\ pc'[b] = pc[b] /\ list'[b] = list[b] /\ checked'[b] = checked[b]
        /\ worker'[b] = worker[b]
        /\ b \in confirmFile' => b \in confirmFile
    BY <1>2 DEF ApplyStep, BackupConfig, Commit, Reload, BackupChanges,
       CreateConfirm, CommitFails, CommitDone, Return, fileVars, workVars
  <2>2. ~Active(b) /\ OneRequest(b)
    BY <1>1, <1>2 DEF Alone, RefInv
  <2>. QED
    BY <2>1, <2>2, BystanderStays
<1>3. SUFFICES OneRequest(a)'
  BY <1>2, RefByMover
<1>4. worker[a]["auto"] = "none"
  <2>1. pc[a] # "done"
    BY DEF ApplyStep, BackupConfig, Commit, Reload, BackupChanges,
           CreateConfirm, CommitFails, CommitDone, Return
  <2>. QED
    BY <2>1 DEF ConfirmInv
<1>5. ASSUME NEW c \in Configs, BackupConfig(a, c)
      PROVE  OneRequest(a)'
  <2>1. /\ pc[a] = "backup" /\ bakConfigs'[a] = [bakConfigs[a] EXCEPT ![c] = config[c]]
        /\ UNCHANGED <<config, staged, pc, checked, list, worker, bakChanges>>
    BY <1>5 DEF BackupConfig, workVars
  <2>2. \A d \in Files(bakConfigs'[a]) : bakConfigs'[a][d] = config[d]
    BY <1>1, <2>1 DEF OneRequest, Files
  <2>. QED
    BY <1>1, <1>4, <2>1, <2>2 DEF OneRequest, Files
<1>6. ASSUME NEW c \in Configs, Commit(a, c)
      PROVE  OneRequest(a)'
  <2>1. /\ pc[a] = "commit" /\ UNCHANGED <<pc, checked, list, worker>>
        /\ todo'[a] = todo[a] \ {c}
        /\ staged' = [staged EXCEPT ![c] = None]
    BY <1>6 DEF Commit, workVars
  <2>2. Files(staged') = Files(staged) \ {c}
    BY <2>1 DEF Files
  <2>. QED
    BY <1>1, <1>4, <2>1, <2>2 DEF OneRequest, Files
<1>7. ASSUME NEW s \in Configs, Reload(a, s)
      PROVE  OneRequest(a)'
  BY <1>1, <1>4, <1>7 DEF Reload, OneRequest, Files, workVars
<1>8. CASE BackupChanges(a)
  BY <1>1, <1>4, <1>8 DEF BackupChanges, OneRequest, Files, workVars
<1>9. CASE CreateConfirm(a)
  BY <1>1, <1>4, <1>9 DEF CreateConfirm, OneRequest, Files, workVars
<1>10. CASE CommitFails(a)
  BY <1>10 DEF CommitFails, OneAtATime
<1>11. CASE CommitDone(a)
  BY <1>1, <1>4, <1>11 DEF CommitDone, OneRequest, Files, fileVars, workVars
<1>12. CASE Return(a)
  <2>1. /\ pc[a] = "reload" /\ pc'[a] = "done"
        /\ worker'[a]["auto"] \in {"none", "sleep"}
        /\ worker'[a]["auto"] = "sleep" => checked[a]
        /\ UNCHANGED <<config, staged, checked, list, bakConfigs, bakChanges>>
    BY <1>4, <1>12 DEF Return, fileVars
  <2>. QED
    BY <1>1, <2>1 DEF OneRequest, Files
<1>. QED
  BY <1>5, <1>6, <1>7, <1>8, <1>9, <1>10, <1>11, <1>12 DEF ApplyStep

LEMMA RefWorkerStep ==
  ASSUME OneAtATime, AllInv, NEW a \in Applies, WorkerStep(a, "auto")
  PROVE  RefInv'
<1>. USE ConstantsAssumption DEF AllInv, TypeOK
<1>1. OneRequest(a) /\ pc[a] = "done"
  <2>1. worker[a]["auto"] # "none"
    BY DEF WorkerStep, WakeUnconfirmed, WakeConfirmed, Cleanup, RestoreConfig,
           RollbackReload, RestoreDone, RestoreChanges, Clear
  <2>. QED
    BY <2>1 DEF RefInv, ConfirmInv
<1>2. \A b \in Applies : OneRequest(b)
  BY DEF RefInv
<1>3. /\ UNCHANGED <<pc, list, checked, todo>>
      /\ \A b \in Applies : b # a =>
           /\ worker'[b] = worker[b] /\ wtodo'[b] = wtodo[b]
           /\ bakConfigs'[b] = bakConfigs[b] /\ bakChanges'[b] = bakChanges[b]
           /\ b \in confirmFile' => b \in confirmFile
  BY DEF WorkerStep, WakeUnconfirmed, WakeConfirmed, Cleanup, RestoreConfig,
         RollbackReload, RestoreDone, RestoreChanges, Clear, applyVars, fileVars
<1>4. CASE WakeConfirmed(a, "auto") \/ Cleanup(a, "auto")
  <2>1. /\ UNCHANGED <<config, staged, confirmFile>>
        /\ worker'[a]["auto"] \in {"cleanup", "kept"}
    BY <1>4 DEF WakeConfirmed, Cleanup, fileVars
  <2>2. \A b \in Applies : b # a => (Active(b)' => Active(b)) /\ OneRequest(b)'
    BY <1>2, <1>3, <2>1, UntouchedStays
  <2>3. ~Active(a)' /\ OneRequest(a)'
    <3>1. worker[a]["auto"] # "none"
      BY <1>4 DEF WakeConfirmed, Cleanup
    <3>. QED
      BY <1>1, <1>3, <2>1, <3>1 DEF Active, OneRequest
  <2>. QED
    BY <2>2, <2>3 DEF RefInv, Alone
<1>5. CASE ~(WakeConfirmed(a, "auto") \/ Cleanup(a, "auto"))
  <2>1. Active(a) /\ worker[a]["auto"] # "none"
    BY <1>5 DEF WorkerStep, WakeUnconfirmed, RestoreConfig, RollbackReload,
                RestoreDone, RestoreChanges, Clear, Active
  <2>2. \A b \in Applies : b # a => ~Active(b)' /\ OneRequest(b)'
    BY <1>2, <1>3, <2>1, BystanderStays DEF RefInv, Alone
  <2>3. SUFFICES OneRequest(a)'
    BY <2>2, RefByMover
  <2>4. list[a] # {} /\ checked[a]
    BY <1>1, <2>1 DEF OneRequest
  <2>5. CASE WakeUnconfirmed(a, "auto")
    <3>1. Files(bakConfigs[a]) = list[a]
      BY <2>5 DEF WakeUnconfirmed, BackupInv, BackupOf
    <3>. QED
      BY <1>1, <1>3, <2>4, <2>5, <3>1
      DEF WakeUnconfirmed, OneRequest, Files, fileVars
  <2>6. ASSUME NEW c \in Configs, RestoreConfig(a, "auto", c)
        PROVE  OneRequest(a)'
    BY <1>1, <1>3, <2>4, <2>6 DEF RestoreConfig, OneRequest, Files
  <2>7. ASSUME NEW s \in Configs, RollbackReload(a, "auto", s)
        PROVE  OneRequest(a)'
    BY <1>1, <1>3, <2>4, <2>7 DEF RollbackReload, OneRequest, Files
  <2>8. CASE RestoreDone(a, "auto")
    <3>1. worker'[a]["auto"] = "reload"
      BY <1>1, <2>4, <2>8 DEF RestoreDone, OneRequest
    <3>. QED
      BY <1>1, <1>3, <2>4, <2>8, <3>1 DEF RestoreDone, OneRequest, Files, fileVars
  <2>9. CASE RestoreChanges(a, "auto") \/ Clear(a, "auto")
    <3>1. worker'[a]["auto"] \in {"clear", "rolledback"}
      BY <2>9 DEF RestoreChanges, Clear
    <3>. QED
      BY <1>1, <1>3, <2>4, <3>1 DEF OneRequest
  <2>. QED
    BY <1>5, <2>5, <2>6, <2>7, <2>8, <2>9 DEF WorkerStep
<1>. QED
  BY <1>4, <1>5

LEMMA RefStep ==
  OneAtATime /\ AllInv /\ [Next]_vars => RefInv'
<1>. USE ConstantsAssumption
<1>. SUFFICES ASSUME OneAtATime, AllInv, [Next]_vars PROVE RefInv'
  OBVIOUS
<1>. USE DEF AllInv
<1>1. ASSUME UNCHANGED <<config, staged, pc, list, checked, todo, worker, wtodo,
                         bakConfigs, bakChanges>>,
             confirmFile' \subseteq confirmFile
      PROVE  RefInv'
  BY <1>1, UntouchedStays DEF RefInv, Alone
<1>2. UserMayAct => \A a \in Applies : ~Active(a)
  BY DEF UserMayAct, Settled, OneAtATime, Active, TypeOK
<1>3. CASE \E c \in Configs : (\E v \in Values : Stage(c, v)) \/ Revert(c)
  <2>1. /\ \A a \in Applies : ~Active(a)
        /\ UNCHANGED <<pc, list, checked, worker, confirmFile>>
    BY <1>2, <1>3 DEF Stage, Revert, applyVars, workVars
  <2>2. \A a \in Applies : ~Active(a)' /\ OneRequest(a)'
    BY <2>1, BystanderStays DEF RefInv
  <2>. QED
    BY <2>2 DEF RefInv
<1>4. ASSUME NEW a \in Applies, NEW r \in BOOLEAN, Start(a, r)
      PROVE  RefInv'
  <2>1. \A b \in Applies : b # a => ~Active(b)' /\ OneRequest(b)'
    <3>1. ASSUME NEW b \in Applies, b # a
          PROVE  /\ pc'[b] = pc[b] /\ list'[b] = list[b]
                 /\ checked'[b] = checked[b] /\ worker'[b] = worker[b]
                 /\ b \in confirmFile' => b \in confirmFile
      BY <1>4, <3>1 DEF Start, fileVars, workVars, TypeOK
    <3>. QED
      BY <1>2, <1>4, <3>1, BystanderStays DEF RefInv, Start
  <2>2. OneRequest(a)'
    <3>1. /\ worker'[a]["auto"] = "none"
          /\ Files(bakConfigs[a]) = {}
      BY <1>4 DEF Start, OrderInv, BackupInv, BackupOf, workVars
    <3>2. /\ pc'[a] = IF r THEN "backup" ELSE "commit"
          /\ checked'[a] = r
          /\ list'[a] = Files(staged) /\ todo'[a] = Files(staged)
          /\ UNCHANGED <<config, staged, bakConfigs, bakChanges>>
      BY <1>4 DEF Start, fileVars, TypeOK
    <3>. QED
      BY <3>1, <3>2 DEF OneRequest, Files
  <2>. QED
    BY <2>1, <2>2, RefByMover
<1>5. CASE \E a \in Applies : ConfirmAccess(a) \/ ConfirmRemove(a)
  BY <1>1, <1>5 DEF ConfirmAccess, ConfirmRemove, fileVars, applyVars, workVars
<1>6. CASE \E a \in Applies : Rollback(a)
  BY <1>6 DEF Rollback, OneAtATime
<1>7. CASE \E a \in Applies, w \in Workers : WorkerStep(a, w)
  BY <1>7, RefWorkerStep DEF OneAtATime
<1>8. CASE Restart
  BY <1>8 DEF Restart, OneAtATime
<1>9. CASE UNCHANGED vars
  BY <1>1, <1>9 DEF vars, fileVars, applyVars, workVars
<1>. QED
  BY <1>3, <1>4, <1>5, <1>6, <1>7, <1>8, <1>9, RefApplyStep DEF Next

\* The inductive invariant of the refinement holds.
LEMMA RefInvariant == OneAtATime => (Spec => []AllInv)
<1>. USE ConstantsAssumption
<1>1. Init => ConfirmInv /\ OrderInv /\ BackupInv /\ RefInv
  <2>1. Init => ConfirmInv /\ OrderInv /\ BackupInv
    BY DEF Init, ConfirmInv, OrderInv, BackupInv, BackupOf, Files, Empty
  <2>2. Init => RefInv
    BY DEF Init, RefInv, Active, Alone, OneRequest
  <2>. QED
    BY <2>1, <2>2
<1>. SUFFICES ASSUME OneAtATime PROVE Spec => []AllInv
  OBVIOUS
<1>2. AllInv /\ [Next]_vars => RefInv'
  BY RefStep
<1>3. AllInv /\ [Next]_vars => ConfirmInv' /\ OrderInv' /\ BackupInv'
  BY ConfirmStep, OrderStep, BackupStep DEF AllInv
<1>4. TypeOK /\ ConfirmInv /\ OrderInv /\ BackupInv /\ RefInv <=> AllInv
  BY DEF AllInv
<1>. QED
  BY <1>1, <1>2, <1>3, <1>4, TypeCorrect, PTL DEF Spec

-----------------------------------------------------------------------------
(* Every step is one of the abstract specification or none at all.         *)

AbsStep == [Abstract!Next]_Abstract!vars

USE DEF AbsStep

\* The same view of the state after a step.
LEMMA NextViews ==
  /\ (\A a \in Applies : Alone(a) => /\ AbsCfg = CfgOf(a)
                                     /\ AbsDraft = DraftOf(a)
                                     /\ AbsOpen = OpenOf(a))'
  /\ (TypeOK /\ (\A a \in Applies : ~Active(a))
        => AbsCfg = config /\ AbsDraft = staged /\ AbsOpen = None)'
BY ViewOfOne, ViewOfNone, PTL

\* A step shows what happens to the view of the one request that moves.
LEMMA ViewStep ==
  ASSUME NEW a \in Applies, Alone(a), Alone(a)'
  PROVE  /\ AbsCfg = CfgOf(a) /\ AbsDraft = DraftOf(a) /\ AbsOpen = OpenOf(a)
         /\ AbsCfg' = CfgOf(a)' /\ AbsDraft' = DraftOf(a)' /\ AbsOpen' = OpenOf(a)'
BY ViewOfOne, NextViews

LEMMA Stutter ==
  ASSUME AbsCfg' = AbsCfg, AbsDraft' = AbsDraft, AbsOpen' = AbsOpen
  PROVE  AbsStep
BY DEF Abstract!vars

\* What an undo would bring back is something.
LEMMA OpenIsSomething ==
  ASSUME TypeOK, NEW a \in Applies, a \in Open
  PROVE  OpenOf(a) # None
<1>1. Restored(config, bakConfigs[a]) \in [Configs -> Values]
  BY DEF Restored, TypeOK
<1>2. bakChanges[a] \in [Configs -> Content]
  BY DEF TypeOK
<1>. QED
  BY <1>1, <1>2, NoneAssumption DEF OpenOf

LEMMA SimulateStage ==
  ASSUME OneAtATime, AllInv, AllInv', NEW c \in Configs,
         (\E v \in Values : Stage(c, v)) \/ Revert(c)
  PROVE  AbsStep
<1>. USE DEF AllInv
<1>1. \A a \in Applies : ~Active(a)
  BY DEF Stage, Revert, UserMayAct, Settled, OneAtATime, Active, TypeOK
<1>2. /\ UNCHANGED <<config, pc, checked, list, todo, worker, confirmFile>>
  BY DEF Stage, Revert, applyVars, workVars
<1>3. \A a \in Applies : ~Active(a)'
  BY <1>1, <1>2 DEF Active
<1>4. /\ AbsCfg = config /\ AbsDraft = staged /\ AbsOpen = None
      /\ AbsCfg' = config' /\ AbsDraft' = staged' /\ AbsOpen' = None
  BY <1>1, <1>3, ViewOfNone, NextViews
<1>. QED
  BY <1>2, <1>4 DEF Stage, Revert, Abstract!Next, Abstract!Stage, Abstract!Revert

LEMMA SimulateStart ==
  ASSUME OneAtATime, AllInv, AllInv', NEW a \in Applies, NEW r \in BOOLEAN,
         Start(a, r)
  PROVE  AbsStep
<1>. USE DEF AllInv
<1>1. \A b \in Applies : ~Active(b)
  BY DEF Start, UserMayAct, Settled, OneAtATime, Active, TypeOK
<1>2. AbsCfg = config /\ AbsDraft = staged /\ AbsOpen = None
  BY <1>1, ViewOfNone
<1>3. /\ UNCHANGED <<config, staged, bakConfigs, bakChanges, confirmFile, worker>>
      /\ pc' = [pc EXCEPT ![a] = IF r THEN "backup" ELSE "commit"]
      /\ checked'[a] = r
      /\ todo'[a] = Files(staged)
      /\ worker[a]["auto"] = "none"
  BY DEF Start, fileVars, workVars, TypeOK, OrderInv, OneAtATime
<1>4. Alone(a)'
  BY <1>1, <1>3 DEF Alone, Active, TypeOK
<1>5. AbsCfg' = CfgOf(a)' /\ AbsDraft' = DraftOf(a)' /\ AbsOpen' = OpenOf(a)'
  BY <1>4, NextViews
<1>6. a \notin Open'
  BY <1>3 DEF Open, TypeOK
<1>7. AbsOpen' = None
  BY <1>5, <1>6 DEF OpenOf
<1>8. pc'[a] = IF r THEN "backup" ELSE "commit"
  BY <1>3 DEF TypeOK
<1>9. CASE r
  <2>1. AbsCfg' = config /\ AbsDraft' = staged
    BY <1>3, <1>5, <1>8, <1>9 DEF CfgOf, DraftOf, TypeOK
  <2>. QED
    BY <1>2, <1>7, <2>1, Stutter
<1>10. CASE ~r
  <2>1. AbsCfg' = Abstract!Over(AbsCfg, AbsDraft)
    BY <1>2, <1>3, <1>5, <1>8, <1>10
    DEF CfgOf, TypeOK, Files, Abstract!Over
  <2>2. AbsDraft' = Abstract!Empty
    BY <1>2, <1>3, <1>5, <1>8, <1>10
    DEF DraftOf, TypeOK, Files, Abstract!Empty
  <2>3. CASE staged = Abstract!Empty
    <3>1. AbsCfg' = config
      BY <1>2, <2>1, <2>3 DEF Abstract!Over, Abstract!Empty, TypeOK
    <3>. QED
      BY <1>2, <1>7, <2>2, <2>3, <3>1, Stutter
  <2>4. CASE staged # Abstract!Empty
    BY <1>2, <1>7, <2>1, <2>2, <2>4 DEF Abstract!Next, Abstract!Apply
  <2>. QED
    BY <2>3, <2>4
<1>. QED
  BY <1>9, <1>10

LEMMA SimulateApply ==
  ASSUME OneAtATime, AllInv, AllInv', NEW a \in Applies, ApplyStep(a)
  PROVE  AbsStep
<1>. USE ConstantsAssumption DEF AllInv, TypeOK
<1>1. Active(a) /\ OneRequest(a) /\ worker[a]["auto"] = "none"
  <2>1. pc[a] \in {"backup", "confirmfile", "commit", "reload"}
    BY DEF ApplyStep, BackupConfig, Commit, Reload, BackupChanges,
           CreateConfirm, CommitFails, CommitDone, Return
  <2>. QED
    BY <2>1 DEF Active, RefInv, ConfirmInv
<1>2. Alone(a)
  BY <1>1 DEF RefInv
<1>3. Alone(a)'
  <2>1. ASSUME NEW b \in Applies, b # a
        PROVE  ~Active(b)'
    <3>1. /\ pc'[b] = pc[b] /\ worker'[b] = worker[b]
          /\ b \in confirmFile' => b \in confirmFile
      BY <2>1 DEF ApplyStep, BackupConfig, Commit, Reload, BackupChanges,
         CreateConfirm, CommitFails, CommitDone, Return, fileVars, workVars
    <3>. QED
      BY <1>2, <2>1, <3>1 DEF Alone, Active
  <2>. QED
    BY <2>1 DEF Alone
<1>4. /\ AbsCfg = CfgOf(a) /\ AbsDraft = DraftOf(a) /\ AbsOpen = OpenOf(a)
      /\ AbsCfg' = CfgOf(a)' /\ AbsDraft' = DraftOf(a)' /\ AbsOpen' = OpenOf(a)'
  BY <1>2, <1>3, ViewStep
<1>5. worker'[a]["auto"] \in {"none", "sleep"}
  BY <1>1 DEF ApplyStep, BackupConfig, Commit, Reload, BackupChanges,
     CreateConfirm, CommitFails, CommitDone, Return, fileVars, workVars
\* Before the commit nothing is seen of the request.
<1>6. CASE (\E c \in Configs : BackupConfig(a, c)) \/ BackupChanges(a)
  <2>1. /\ UNCHANGED <<config, staged, confirmFile>>
        /\ pc[a] \in {"backup"} /\ pc'[a] \in {"backup", "confirmfile"}
    BY <1>6 DEF BackupConfig, BackupChanges
  <2>2. AbsCfg' = AbsCfg /\ AbsDraft' = AbsDraft
    BY <1>1, <1>4, <1>5, <2>1 DEF CfgOf, DraftOf
  <2>3. a \notin Open /\ a \notin Open'
    BY <1>1, <1>5, <1>6, <2>1 DEF Open, BackupConfig, BackupChanges, workVars
  <2>. QED
    BY <1>4, <2>2, <2>3, Stutter DEF OpenOf
\* The first step of the commit shows all of it.
<1>7. CASE CreateConfirm(a)
  <2>1. /\ UNCHANGED <<config, staged, bakConfigs, bakChanges, list, checked, worker>>
        /\ pc[a] = "confirmfile" /\ pc'[a] = "commit" /\ todo'[a] = list[a]
        /\ a \in confirmFile'
    BY <1>7 DEF CreateConfirm, workVars
  <2>2. /\ checked[a] /\ Files(staged) = list[a] /\ bakChanges[a] = staged
        /\ \A c \in list[a] : bakConfigs[a][c] = config[c]
        /\ \A c \in Configs \ list[a] : bakConfigs[a][c] = None
    BY <1>1, <2>1 DEF OneRequest, BackupInv, BackupOf, Files
  <2>3. AbsCfg = config /\ AbsDraft = staged
    BY <1>1, <1>4, <2>1 DEF CfgOf, DraftOf
  <2>4. a \notin Open
    BY <1>1, <2>1 DEF Open
  <2>5. AbsCfg' = Abstract!Over(AbsCfg, AbsDraft)
    BY <1>1, <1>4, <2>1, <2>2, <2>3 DEF CfgOf, Files, Abstract!Over
  <2>6. AbsDraft' = Abstract!Empty
    BY <1>1, <1>4, <2>1, <2>2, <2>3 DEF DraftOf, Files, Abstract!Empty
  <2>7. CASE list[a] = {}
    <3>1. staged = Abstract!Empty
      BY <2>2, <2>7 DEF Files, Abstract!Empty
    <3>2. AbsCfg' = AbsCfg
      BY <2>3, <2>5, <3>1 DEF Abstract!Over, Abstract!Empty
    <3>3. a \notin Open'
      BY <2>1, <2>7 DEF Open
    <3>. QED
      BY <1>4, <2>3, <2>4, <2>6, <3>1, <3>2, <3>3, Stutter DEF OpenOf
  <2>8. CASE list[a] # {}
    <3>1. a \in Open'
      BY <2>1, <2>2, <2>8 DEF Open
    <3>2. Restored(config, bakConfigs[a])' = config
      BY <2>1, <2>2 DEF Restored
    <3>3. AbsOpen' = [cfg |-> AbsCfg, draft |-> AbsDraft]
      BY <1>4, <2>1, <2>2, <2>3, <3>1, <3>2 DEF OpenOf
    <3>4. AbsDraft # Abstract!Empty
      BY <2>2, <2>3, <2>8 DEF Files, Abstract!Empty
    <3>5. AbsOpen = None
      BY <1>4, <2>4 DEF OpenOf
    <3>. QED
      BY <2>5, <2>6, <3>3, <3>4, <3>5 DEF Abstract!Next, Abstract!Apply
  <2>. QED
    BY <2>7, <2>8
\* The other steps of the commit carry out what is shown already.
<1>8. ASSUME NEW c \in Configs, Commit(a, c)
      PROVE  AbsStep
  <2>1. /\ UNCHANGED <<bakConfigs, bakChanges, confirmFile, pc, checked, list, worker>>
        /\ pc[a] = "commit"
        /\ todo'[a] = todo[a] \ {c} /\ c \in todo[a]
        /\ staged' = [staged EXCEPT ![c] = None]
        /\ config' = [config EXCEPT ![c] = IF staged[c] = None THEN config[c]
                                           ELSE staged[c]]
    BY <1>8 DEF Commit, workVars
  <2>2. AbsCfg' = AbsCfg
    BY <1>1, <1>4, <2>1 DEF CfgOf
  <2>3. AbsDraft' = AbsDraft
    <3>1. AbsDraft = [d \in Configs |-> IF d \in todo[a] THEN None ELSE staged[d]]
      BY <1>1, <1>4, <2>1 DEF DraftOf
    <3>2. AbsDraft' = [d \in Configs |-> IF d \in todo'[a] THEN None ELSE staged'[d]]
      BY <1>1, <1>4, <2>1 DEF DraftOf
    <3>. QED
      BY <2>1, <3>1, <3>2
  <2>4. Open' = Open
    BY <2>1 DEF Open
  <2>5. a \in Open => Restored(config, bakConfigs[a])' = Restored(config, bakConfigs[a])
    <3>1. a \in Open => Files(bakConfigs[a]) = list[a]
      BY <1>1 DEF Open, BackupInv, BackupOf
    <3>2. c \in list[a]
      BY <2>1 DEF OrderInv
    <3>. QED
      BY <2>1, <3>1, <3>2 DEF Restored, Files
  <2>. QED
    BY <1>4, <2>1, <2>2, <2>3, <2>4, <2>5, Stutter DEF OpenOf
<1>9. CASE (\E s \in Configs : Reload(a, s)) \/ CommitDone(a) \/ Return(a)
  <2>1. /\ UNCHANGED <<config, staged, bakConfigs, bakChanges, confirmFile,
                       checked, list>>
        /\ \/ pc[a] = "reload"
           \/ pc[a] = "commit" /\ todo[a] = {}
        /\ pc'[a] # "commit"
    BY <1>9 DEF Reload, CommitDone, Return, fileVars
  <2>2. AbsCfg' = AbsCfg /\ AbsDraft' = AbsDraft
    BY <1>1, <1>4, <1>5, <2>1 DEF CfgOf, DraftOf
  <2>3. a \in Open <=> a \in Open'
    <3>1. CASE CommitDone(a)
      BY <1>1, <3>1 DEF CommitDone, Open, fileVars, workVars
    <3>2. CASE Return(a)
      BY <1>1, <3>2 DEF Return, Open, fileVars
    <3>3. CASE \E s \in Configs : Reload(a, s)
      BY <1>1, <3>3 DEF Reload, Open, workVars
    <3>. QED
      BY <1>9, <3>1, <3>2, <3>3
  <2>4. OpenOf(a)' = OpenOf(a)
    BY <2>1, <2>3 DEF OpenOf, Restored
  <2>. QED
    BY <1>4, <2>2, <2>4, Stutter
<1>10. CASE CommitFails(a)
  BY <1>10 DEF CommitFails, OneAtATime
<1>. QED
  BY <1>6, <1>7, <1>8, <1>9, <1>10 DEF ApplyStep

LEMMA SimulateConfirm ==
  ASSUME OneAtATime, AllInv, NEW a \in Applies, ConfirmRemove(a)
  PROVE  AbsStep
<1>. USE DEF AllInv
<1>1. /\ UNCHANGED <<config, staged, bakConfigs, bakChanges, pc, checked, list,
                     todo, worker, wtodo>>
      /\ confirmFile' = confirmFile \ {a}
  BY DEF ConfirmRemove, applyVars, workVars
<1>2. AbsCfg' = AbsCfg /\ AbsDraft' = AbsDraft
  BY <1>1 DEF AbsCfg, AbsDraft, LeftToCommit, Committing, Undoing, Restored
<1>3. CASE a \in Open
  <2>1. Alone(a)
    BY <1>3 DEF RefInv, Open, Active
  <2>2. AbsOpen # None
    BY <1>3, <2>1, ViewOfOne, OpenIsSomething
  <2>3. Open' = {}
    BY <1>1, <2>1 DEF Open, Alone, Active
  <2>. QED
    BY <1>2, <2>2, <2>3 DEF AbsOpen, Abstract!Next, Abstract!Keep
<1>4. CASE a \notin Open
  <2>1. Open' = Open
    BY <1>1, <1>4 DEF Open
  <2>2. AbsOpen' = AbsOpen
    BY <1>1, <2>1 DEF AbsOpen, Restored
  <2>. QED
    BY <1>2, <2>2, Stutter
<1>. QED
  BY <1>3, <1>4

\* A request that the mapping does not show moves, and no other one does.
LEMMA UnseenStep ==
  ASSUME NEW a \in Applies,
         a \notin Open, a \notin Open',
         worker[a]["auto"] \notin {"restore", "reload"},
         worker'[a]["auto"] \notin {"restore", "reload"},
         UNCHANGED <<config, staged, pc, list, checked, todo>>,
         \A b \in Applies : b # a =>
           /\ worker'[b] = worker[b] /\ wtodo'[b] = wtodo[b]
           /\ bakConfigs'[b] = bakConfigs[b] /\ bakChanges'[b] = bakChanges[b]
           /\ b \in confirmFile' <=> b \in confirmFile
  PROVE  AbsStep
<1>1. Open' = Open
  <2>1. \A b \in Applies : b # a => (b \in Open' <=> b \in Open)
    BY DEF Open
  <2>2. Open \subseteq Applies /\ Open' \subseteq Applies
    BY DEF Open
  <2>. QED
    BY <2>1, <2>2
<1>2. /\ a \notin Undoing({"restore"})
      /\ Undoing({"restore"})' = Undoing({"restore"})
      /\ a \notin Undoing({"restore", "reload"})
      /\ Undoing({"restore", "reload"})' = Undoing({"restore", "reload"})
  BY DEF Undoing
<1>3. \A c : LeftToCommit(c)' <=> LeftToCommit(c)
  BY DEF LeftToCommit, Committing
<1>4. AbsCfg' = AbsCfg
  <2>. DEFINE U == Undoing({"restore"})
  <2>1. \A b \in U : /\ wtodo'[b] = wtodo[b]
                     /\ bakConfigs'[b] = bakConfigs[b]
    BY <1>2 DEF Undoing
  <2>2. U # {} => bakConfigs'[OneOf(U)] = bakConfigs[OneOf(U)]
    BY <2>1, OneOfSet
  <2>3. \A c : (\E b \in U : c \in wtodo'[b]["auto"])
              <=> (\E b \in U : c \in wtodo[b]["auto"])
    BY <2>1
  <2>4. U' = U
    BY <1>2
  <2>. HIDE DEF U
  <2>. QED
    BY <1>3, <2>2, <2>3, <2>4 DEF AbsCfg, U
<1>5. AbsDraft' = AbsDraft
  <2>1. \A b \in Undoing({"restore", "reload"}) : bakChanges'[b] = bakChanges[b]
    BY <1>2 DEF Undoing
  <2>. QED
    BY <1>2, <1>3, <2>1, OneOfSet DEF AbsDraft, Restored
<1>6. AbsOpen' = AbsOpen
  <2>1. \A b \in Open : /\ bakConfigs'[b] = bakConfigs[b]
                        /\ bakChanges'[b] = bakChanges[b]
    BY <1>1 DEF Open
  <2>. QED
    BY <1>1, <2>1, OneOfSet DEF AbsOpen, Restored
<1>. QED
  BY <1>4, <1>5, <1>6, Stutter

\* A file is put back: through the mapping it was put back already.
LEMMA PutBack ==
  ASSUME NEW a \in Applies, NEW c \in Configs, NEW v,
         pc[a] = "done", pc'[a] = "done", bakConfigs[a][c] = v,
         worker[a]["auto"] = "restore", worker'[a]["auto"] = "restore",
         DOMAIN config = Configs, config' = [config EXCEPT ![c] = v],
         c \in wtodo[a]["auto"],
         wtodo'[a]["auto"] = wtodo[a]["auto"] \ {c},
         UNCHANGED <<staged, bakConfigs, bakChanges>>
  PROVE  CfgOf(a)' = CfgOf(a) /\ DraftOf(a)' = DraftOf(a)
<1>1. \A d \in Configs : config'[d] = IF d = c THEN v ELSE config[d]
  OBVIOUS
<1>2. CfgOf(a) = [d \in Configs |-> IF d \in wtodo[a]["auto"]
                                    THEN bakConfigs[a][d] ELSE config[d]]
  BY DEF CfgOf
<1>3. CfgOf(a)' = [d \in Configs |-> IF d \in wtodo[a]["auto"] \ {c}
                                     THEN bakConfigs[a][d] ELSE config'[d]]
  BY DEF CfgOf
<1>4. CfgOf(a)' = CfgOf(a)
  BY <1>1, <1>2, <1>3
<1>5. DraftOf(a)' = DraftOf(a)
  BY DEF DraftOf, Restored
<1>. QED
  BY <1>4, <1>5

LEMMA SimulateWorker ==
  ASSUME OneAtATime, AllInv, AllInv', NEW a \in Applies, WorkerStep(a, "auto")
  PROVE  AbsStep
<1>. USE ConstantsAssumption DEF AllInv, TypeOK
<1>1. OneRequest(a) /\ pc[a] = "done" /\ "auto" \in Workers
  <2>1. worker[a]["auto"] # "none"
    BY DEF WorkerStep, WakeUnconfirmed, WakeConfirmed, Cleanup, RestoreConfig,
           RollbackReload, RestoreDone, RestoreChanges, Clear
  <2>. QED
    BY <2>1 DEF RefInv, ConfirmInv
<1>2. /\ UNCHANGED <<pc, list, checked, todo>>
      /\ \A b \in Applies : b # a =>
           /\ worker'[b] = worker[b] /\ wtodo'[b] = wtodo[b]
           /\ bakConfigs'[b] = bakConfigs[b] /\ bakChanges'[b] = bakChanges[b]
           /\ b \in confirmFile' <=> b \in confirmFile
  BY DEF WorkerStep, WakeUnconfirmed, WakeConfirmed, Cleanup, RestoreConfig,
         RollbackReload, RestoreDone, RestoreChanges, Clear, applyVars, fileVars
\* A confirmed timer is no longer seen, whoever else is at work.
<1>3. CASE WakeConfirmed(a, "auto") \/ Cleanup(a, "auto")
  <2>1. /\ UNCHANGED <<config, staged, confirmFile>>
        /\ worker[a]["auto"] \in {"sleep", "cleanup"}
        /\ worker'[a]["auto"] \in {"cleanup", "kept"}
    BY <1>3 DEF WakeConfirmed, Cleanup, fileVars
  <2>2. a \notin confirmFile
    BY <1>3 DEF WakeConfirmed, Cleanup, BackupInv, BackupOf
  <2>3. a \notin Open /\ a \notin Open'
    BY <2>1, <2>2 DEF Open
  <2>. QED
    BY <1>2, <2>1, <2>3, UnseenStep
<1>4. CASE ~(WakeConfirmed(a, "auto") \/ Cleanup(a, "auto"))
  <2>1. Active(a)
    BY <1>4 DEF WorkerStep, WakeUnconfirmed, RestoreConfig, RollbackReload,
                RestoreDone, RestoreChanges, Clear, Active
  <2>2. Alone(a)
    BY <2>1 DEF RefInv
  <2>3. Alone(a)'
    BY <1>2, <2>2 DEF Alone, Active
  <2>4. /\ AbsCfg = CfgOf(a) /\ AbsDraft = DraftOf(a) /\ AbsOpen = OpenOf(a)
        /\ AbsCfg' = CfgOf(a)' /\ AbsDraft' = DraftOf(a)' /\ AbsOpen' = OpenOf(a)'
    BY <2>2, <2>3, ViewStep
  <2>5. pc'[a] = "done"
    BY <1>1, <1>2
  \* The timer wakes: everything is undone.
  <2>6. CASE WakeUnconfirmed(a, "auto")
    <3>1. /\ UNCHANGED <<config, staged, bakConfigs, bakChanges, confirmFile>>
          /\ worker[a]["auto"] = "sleep" /\ worker'[a]["auto"] = "restore"
          /\ wtodo'[a]["auto"] = Files(bakConfigs[a]) /\ a \in confirmFile
      BY <1>1, <2>6 DEF WakeUnconfirmed, fileVars
    <3>2. a \in Open
      BY <1>1, <3>1 DEF Open, OneRequest
    <3>3. AbsOpen = [cfg |-> Restored(config, bakConfigs[a]), draft |-> bakChanges[a]]
      BY <2>4, <3>2 DEF OpenOf
    <3>4. AbsOpen # None
      BY <2>4, <3>2, OpenIsSomething
    <3>5. AbsCfg' = Restored(config, bakConfigs[a])
      BY <2>4, <2>5, <3>1 DEF CfgOf, Restored, Files
    <3>6. AbsDraft' = bakChanges[a]
      <4>1. \A c \in Configs : staged[c] = None
        BY <1>1, <3>1 DEF OneRequest, Files
      <4>2. AbsDraft' = Restored(staged, bakChanges[a])
        BY <2>4, <3>1 DEF DraftOf, Restored
      <4>. QED
        BY <4>1, <4>2 DEF Restored
    <3>7. AbsOpen' = None
      BY <2>4, <2>5, <3>1 DEF OpenOf, Open
    <3>. QED
      BY <3>3, <3>4, <3>5, <3>6, <3>7 DEF Abstract!Next, Abstract!Undo
  \* The rest carries out what is shown already.
  <2>7. CASE ~WakeUnconfirmed(a, "auto")
    <3>1. worker[a]["auto"] \in Restoring /\ worker'[a]["auto"] \notin {"none", "sleep"}
      BY <1>1, <1>4, <2>7 DEF WorkerStep, RestoreConfig, RollbackReload,
                  RestoreDone, RestoreChanges, Clear
    <3>2. AbsOpen = None /\ AbsOpen' = None
      BY <1>1, <2>4, <2>5, <3>1 DEF OpenOf, Open
    <3>3. ASSUME NEW c \in Configs, RestoreConfig(a, "auto", c)
          PROVE  AbsCfg' = AbsCfg /\ AbsDraft' = AbsDraft
      <4>1. /\ UNCHANGED <<staged, bakConfigs, bakChanges, worker>>
            /\ worker[a]["auto"] = "restore" /\ c \in wtodo[a]["auto"]
            /\ wtodo' = [wtodo EXCEPT ![a]["auto"] = @ \ {c}]
        BY <3>3 DEF RestoreConfig
      <4>2. wtodo'[a]["auto"] = wtodo[a]["auto"] \ {c}
        BY <1>1, <4>1
      <4>3. bakConfigs[a][c] # None
        BY <1>1, <4>1 DEF OneRequest, Files
      <4>4. config' = [config EXCEPT ![c] = bakConfigs[a][c]]
        BY <3>3, <4>3 DEF RestoreConfig
      <4>5. DOMAIN config = Configs
        OBVIOUS
      <4>6. CfgOf(a)' = CfgOf(a) /\ DraftOf(a)' = DraftOf(a)
        BY <1>1, <2>5, <4>1, <4>2, <4>4, <4>5, PutBack
      <4>. QED
        BY <2>4, <4>6
    <3>4. CASE RestoreDone(a, "auto") \/ (\E s \in Configs : RollbackReload(a, "auto", s))
      <4>1. /\ UNCHANGED <<config, staged, bakConfigs, bakChanges>>
            /\ \/ worker[a]["auto"] = "restore" /\ wtodo[a]["auto"] = {}
               \/ worker[a]["auto"] = "reload"
        BY <3>4 DEF RestoreDone, RollbackReload, fileVars
      <4>2. worker'[a]["auto"] = "reload"
        BY <1>1, <3>4 DEF RestoreDone, RollbackReload, OneRequest
      <4>3. AbsCfg' = AbsCfg /\ AbsDraft' = AbsDraft
        BY <1>1, <2>4, <2>5, <4>1, <4>2 DEF CfgOf, DraftOf, Restored
      <4>. QED
        BY <3>2, <4>3, Stutter
    <3>5. CASE RestoreChanges(a, "auto")
      <4>1. /\ UNCHANGED <<config, bakConfigs, bakChanges>>
            /\ worker[a]["auto"] = "reload" /\ worker'[a]["auto"] = "clear"
            /\ staged' = Restored(staged, bakChanges[a])
        BY <1>1, <3>5 DEF RestoreChanges, Restored
      <4>2. AbsCfg' = AbsCfg
        BY <1>1, <2>4, <2>5, <4>1 DEF CfgOf
      <4>3. AbsDraft' = AbsDraft
        BY <2>4, <2>5, <4>1 DEF DraftOf, Restored
      <4>. QED
        BY <3>2, <4>2, <4>3, Stutter
    <3>6. CASE Clear(a, "auto")
      <4>1. /\ UNCHANGED <<config, staged>>
            /\ worker[a]["auto"] = "clear" /\ worker'[a]["auto"] = "rolledback"
        BY <1>1, <3>6 DEF Clear
      <4>. QED
        BY <1>1, <2>4, <2>5, <3>2, <4>1, Stutter DEF CfgOf, DraftOf
    <3>. QED
      BY <1>4, <2>7, <3>2, <3>3, <3>4, <3>5, <3>6, Stutter DEF WorkerStep
  <2>. QED
    BY <2>6, <2>7
<1>. QED
  BY <1>3, <1>4

LEMMA Simulation ==
  OneAtATime /\ AllInv /\ AllInv' /\ [Next]_vars => AbsStep
<1>. SUFFICES ASSUME OneAtATime, AllInv, AllInv', [Next]_vars PROVE AbsStep
  OBVIOUS
<1>1. CASE \E a \in Applies : ConfirmAccess(a)
  <2>1. UNCHANGED <<config, staged, bakConfigs, bakChanges, confirmFile, pc,
                    checked, list, todo, worker, wtodo>>
    BY <1>1 DEF ConfirmAccess, fileVars, applyVars, workVars
  <2>. QED
    BY <2>1, Stutter DEF AbsCfg, AbsDraft, AbsOpen, LeftToCommit, Committing,
                         Undoing, Open, Restored
<1>2. CASE UNCHANGED vars
  <2>1. UNCHANGED <<config, staged, bakConfigs, bakChanges, confirmFile, pc,
                    checked, list, todo, worker, wtodo>>
    BY <1>2 DEF vars, fileVars, applyVars, workVars
  <2>. QED
    BY <2>1, Stutter DEF AbsCfg, AbsDraft, AbsOpen, LeftToCommit, Committing,
                         Undoing, Open, Restored
<1>3. CASE (\E a \in Applies : Rollback(a)) \/ Restart
  BY <1>3 DEF Rollback, Restart, OneAtATime
<1>4. CASE \E a \in Applies, w \in Workers : WorkerStep(a, w)
  BY <1>4, SimulateWorker DEF OneAtATime
<1>. QED
  BY <1>1, <1>2, <1>3, <1>4, SimulateStage, SimulateStart, SimulateApply,
     SimulateConfirm DEF Next

\* With one administrator at a time, no failing commit, no restart and no
\* explicit rollback, whatever the files, their contents and the number of
\* applies: every behaviour of the file-by-file code is, through the mapping,
\* one in which a draft is applied as a whole, and kept or undone as a whole.
THEOREM ApplyIsAtomic == OneAtATime => (Spec => ImplementsCheckedApply)
<1>. SUFFICES ASSUME OneAtATime PROVE Spec => Abstract!Spec
  BY DEF ImplementsCheckedApply
<1>1. Init => Abstract!Init
  <2>1. Init => TypeOK /\ \A a \in Applies : ~Active(a)
    BY ConstantsAssumption, InitType DEF Init, Active
  <2>2. Init => AbsCfg = config /\ AbsDraft = staged /\ AbsOpen = None
    BY <2>1, ViewOfNone
  <2>. QED
    BY <2>2 DEF Init, Empty, Abstract!Init, Abstract!Empty
<1>2. AllInv /\ AllInv' /\ [Next]_vars => [Abstract!Next]_Abstract!vars
  BY Simulation
<1>. QED
  BY <1>1, <1>2, RefInvariant, PTL DEF Spec, Abstract!Spec
=============================================================================
