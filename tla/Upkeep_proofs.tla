----------------------------- MODULE Upkeep_proofs -----------------------------
(***************************************************************************)
(* Proofs about what keeps the server going: Startup, SelfUpdate, LogBuffer  *)
(* and LogForward, for every list of migration scripts of the form Startup   *)
(* assumes, every set of versions and tasks, every sequence of parts of an   *)
(* installation, every size of the table of logs, every number of forwarding *)
(* handlers and size of their queues, and every bound.                       *)
(***************************************************************************)
EXTENDS Startup, SelfUpdate, LogForward, LogBuffer, SequenceTheorems, TLAPS
-----------------------------------------------------------------------------
(* Self-update *)

\* What a task has read and done fits the stage it is in.
TaskFits(x) ==
    /\ x.stage \in {"answered", "unchanged", "judged"} => x.release \in Versions
    /\ x.stage \in {"download", "swap"} => x.asset \in Versions
    /\ x.removed => /\ x.stage = "swap" /\ x.swapped < Len(Parts)
                    /\ Parts[x.swapped + 1] \in Packed[x.asset]
    /\ x.stage # "swap" => x.swapped = 0
Fitting == {x \in TaskSet : TaskFits(x)}

UpdateTyped ==
    /\ upstream \in Versions
    /\ disk \in [Range(Parts) -> Versions \union {NoRelease}]
    /\ setting \in SettingSet
    /\ task \in [Tasks -> Fitting]
    /\ spoiled \in BOOLEAN
    /\ setbacks \in 0 .. MaxSetbacks

\* Whoever is about to apply finds a release to apply.
ReleaseIsKnown ==
    /\ setting.available => setting.latest \in Versions
    /\ \A t \in Tasks : At(t, "assets") => setting.latest \in Versions

\* The disk while a task swaps: of its release as far as it has come.
SwappedOver(x) ==
    \A i \in 1 .. x.swapped : Parts[i] \in Packed[x.asset] => disk[Parts[i]] = x.asset

\* As long as nothing was spoiled one task swaps at most, what it has swapped is of
\* its release, and one release is there, all of it, when nobody swaps.
DiskInv ==
    ~spoiled =>
      /\ \A t, u \in Tasks : Swapping(t) /\ Swapping(u) => t = u
      /\ \A t \in Tasks : Swapping(t) => SwappedOver(task[t])
      /\ (\A t \in Tasks : ~Swapping(t)) => \E v \in Versions : Installed(v)

UpdateInv == UpdateTyped /\ ReleaseIsKnown /\ DiskInv

-----------------------------------------------------------------------------
\* The records of a task

\* What a task becomes by each of its steps fits again.
LEMMA TaskForms ==
    ASSUME NEW x \in Fitting, NEW v \in Versions, NEW w \in Versions \union {NoRelease},
           NEW b \in BOOLEAN
    PROVE  /\ Resting \in Fitting
           /\ [Resting EXCEPT !.stage = "asked", !.release = w] \in Fitting
           /\ [Resting EXCEPT !.stage = "recorded"] \in Fitting
           /\ [Resting EXCEPT !.stage = "leaving"] \in Fitting
           /\ x.stage = "asked" =>
                /\ [x EXCEPT !.stage = "unchanged", !.release = v] \in Fitting
                /\ [x EXCEPT !.stage = "answered", !.release = v] \in Fitting
           /\ x.stage = "unchanged" => [x EXCEPT !.stage = "judged", !.newer = b] \in Fitting
           /\ x.stage \in {"idle", "recorded"} =>
                /\ [x EXCEPT !.stage = "assets"] \in Fitting
                /\ [x EXCEPT !.stage = "idle"] \in Fitting
           /\ x.stage = "assets" => [x EXCEPT !.stage = "download", !.asset = v] \in Fitting
           /\ x.stage = "download" => [x EXCEPT !.stage = "swap"] \in Fitting
<1>1. Len(Parts) \in Nat
  BY UpdateAssumption
<1>2. Resting \in Fitting
  BY <1>1 DEF Resting, Fitting, TaskSet, TaskFits
<1>3. ASSUME NEW y \in Fitting, y.swapped = 0, ~y.removed
      PROVE  /\ [y EXCEPT !.stage = "asked", !.release = w] \in Fitting
             /\ [y EXCEPT !.stage = "recorded"] \in Fitting
             /\ [y EXCEPT !.stage = "leaving"] \in Fitting
  BY <1>1, <1>3 DEF Fitting, TaskSet, TaskFits
<1>4. Resting.swapped = 0 /\ ~Resting.removed
  BY DEF Resting
<1>5. /\ [Resting EXCEPT !.stage = "asked", !.release = w] \in Fitting
      /\ [Resting EXCEPT !.stage = "recorded"] \in Fitting
      /\ [Resting EXCEPT !.stage = "leaving"] \in Fitting
  BY <1>2, <1>3, <1>4
<1>6. ASSUME x.stage = "asked"
      PROVE  /\ [x EXCEPT !.stage = "unchanged", !.release = v] \in Fitting
             /\ [x EXCEPT !.stage = "answered", !.release = v] \in Fitting
  BY <1>1, <1>6 DEF Fitting, TaskSet, TaskFits
<1>7. x.stage = "unchanged" => [x EXCEPT !.stage = "judged", !.newer = b] \in Fitting
  BY <1>1 DEF Fitting, TaskSet, TaskFits
<1>8. ASSUME x.stage \in {"idle", "recorded"}
      PROVE  /\ [x EXCEPT !.stage = "assets"] \in Fitting
             /\ [x EXCEPT !.stage = "idle"] \in Fitting
  BY <1>1, <1>8 DEF Fitting, TaskSet, TaskFits, Applying
<1>9. x.stage = "assets" => [x EXCEPT !.stage = "download", !.asset = v] \in Fitting
  BY <1>1 DEF Fitting, TaskSet, TaskFits, Applying
<1>10. x.stage = "download" => [x EXCEPT !.stage = "swap"] \in Fitting
  BY <1>1 DEF Fitting, TaskSet, TaskFits, Applying
<1> QED BY <1>2, <1>5, <1>6, <1>7, <1>8, <1>9, <1>10

\* So it does when it has removed a part, or copied one.
LEMMA SwapForms ==
    ASSUME NEW x \in Fitting, x.stage = "swap", NEW b \in BOOLEAN, NEW n \in 0 .. Len(Parts),
           b => n < Len(Parts) /\ Parts[n + 1] \in Packed[x.asset]
    PROVE  /\ [x EXCEPT !.removed = b, !.swapped = n] \in Fitting
           /\ n = x.swapped => [x EXCEPT !.removed = b] \in Fitting
BY UpdateAssumption DEF Fitting, TaskSet, TaskFits, Applying

\* A step of one task.
LEMMA TaskWritten ==
    ASSUME NEW T \in [Tasks -> Fitting], NEW t \in Tasks, NEW x \in Fitting
    PROVE  /\ [T EXCEPT ![t] = x] \in [Tasks -> Fitting]
           /\ [T EXCEPT ![t] = x][t] = x
           /\ \A u \in Tasks \ {t} : [T EXCEPT ![t] = x][u] = T[u]
OBVIOUS

\* What a check records.
LEMMA SettingForms ==
    ASSUME NEW s \in SettingSet, NEW v \in Versions, NEW b \in BOOLEAN, NEW m \in {"manual", "auto"}
    PROVE  /\ [s EXCEPT !.latest = v, !.available = b] \in SettingSet
           /\ [[s EXCEPT !.latest = v, !.available = b] EXCEPT !.cached = v] \in SettingSet
           /\ [s EXCEPT !.available = b] \in SettingSet
           /\ [s EXCEPT !.mode = m] \in SettingSet
BY DEF SettingSet
-----------------------------------------------------------------------------
\* Steps that leave the disk alone

\* The parts of the invariant that are not about the disk follow from what a step
\* writes into one task and into the settings.
LEMMA TaskStep ==
    ASSUME UpdateInv, NEW t \in Tasks, NEW x \in Fitting, task' = [task EXCEPT ![t] = x],
           upstream' \in Versions, disk' \in [Range(Parts) -> Versions \union {NoRelease}],
           setting' \in SettingSet, spoiled' \in BOOLEAN, setbacks' \in 0 .. MaxSetbacks,
           setting'.available => setting'.latest \in Versions,
           setting.latest \in Versions => setting'.latest \in Versions,
           x.stage = "assets" => setting'.latest \in Versions
    PROVE  UpdateTyped' /\ ReleaseIsKnown'
<1>1. task \in [Tasks -> Fitting]
  BY DEF UpdateInv, UpdateTyped
<1>2. task' \in [Tasks -> Fitting] /\ task'[t] = x /\ \A u \in Tasks \ {t} : task'[u] = task[u]
  BY <1>1, TaskWritten
<1>3. UpdateTyped'
  BY <1>2 DEF UpdateTyped
<1>4. ASSUME NEW u \in Tasks, task'[u].stage = "assets" PROVE setting'.latest \in Versions
  <2>1. CASE u = t
    BY <1>2, <1>4, <2>1
  <2>2. CASE u # t
    BY <1>2, <1>4, <2>2 DEF UpdateInv, ReleaseIsKnown, At
  <2> QED BY <2>1, <2>2
<1> QED BY <1>3, <1>4 DEF ReleaseIsKnown, At

\* A task that is not within a swap before and after its step disturbs no swap.
LEMMA NoSwapStep ==
    ASSUME UpdateInv, NEW t \in Tasks, NEW x \in Fitting, task' = [task EXCEPT ![t] = x],
           disk' = disk, spoiled' = spoiled, ~Swapping(t), ~Swapping(t)'
    PROVE  DiskInv'
<1>1. \A u \in Tasks : u # t => task'[u] = task[u]
  BY TaskWritten DEF UpdateInv, UpdateTyped
<1>2. \A u \in Tasks : (Swapping(u)' <=> Swapping(u)) /\ (Swapping(u) => task'[u] = task[u])
  BY <1>1 DEF Swapping, Packs
<1>3. ASSUME NEW u \in Tasks, Swapping(u), SwappedOver(task[u]) PROVE SwappedOver(task[u])'
  BY <1>2, <1>3 DEF SwappedOver
<1> QED BY <1>2, <1>3 DEF UpdateInv, DiskInv, Installed

\* Outside a swap nothing is swapped or removed.
LEMMA OnlySwapsSwap ==
    ASSUME NEW x \in Fitting, x.stage # "swap"
    PROVE  x.swapped = 0 /\ ~x.removed
BY DEF Fitting, TaskFits

\* A step of a task whose stage is not the swap, neither before nor after it.
LEMMA OutsideSwap ==
    ASSUME UpdateInv, NEW t \in Tasks, NEW x \in Fitting, task' = [task EXCEPT ![t] = x],
           disk' = disk, spoiled' = spoiled, task[t].stage # "swap", x.stage # "swap"
    PROVE  DiskInv'
<1>1. task'[t] = x
  BY TaskWritten DEF UpdateInv, UpdateTyped
<1>2. ~Swapping(t) /\ ~Swapping(t)'
  BY <1>1 DEF Swapping, At
<1> QED BY <1>2, NoSwapStep

\* Checking: the answer of GitHub and what is recorded of it.
LEMMA CheckingKeeps ==
    ASSUME UpdateInv, NEW t \in Tasks,
           Ask(t) \/ Answer(t) \/ RecordNew(t) \/ Judge(t) \/ RecordUnchanged(t) \/ CheckFails(t)
    PROVE  UpdateInv'
<1>0. /\ task \in [Tasks -> Fitting] /\ task[t] \in Fitting /\ upstream \in Versions
      /\ setting \in SettingSet /\ setting.cached \in Versions \union {NoRelease}
      /\ disk \in [Range(Parts) -> Versions \union {NoRelease}]
      /\ spoiled \in BOOLEAN /\ setbacks \in 0 .. MaxSetbacks
      /\ setting.available => setting.latest \in Versions
  BY DEF UpdateInv, UpdateTyped, SettingSet, ReleaseIsKnown
<1>1. ASSUME NEW x \in Fitting, task' = [task EXCEPT ![t] = x], x.stage \notin {"swap", "assets"},
             task[t].stage # "swap", UNCHANGED <<upstream, disk, spoiled>>,
             setting' \in SettingSet, setbacks' \in 0 .. MaxSetbacks,
             setting'.available => setting'.latest \in Versions,
             setting.latest \in Versions => setting'.latest \in Versions
      PROVE  UpdateInv'
  BY <1>0, <1>1, TaskStep, OutsideSwap DEF UpdateInv
<1>2. AfterCheck(t) \in Fitting /\ AfterCheck(t).stage \notin {"swap", "assets"}
  <2>1. Resting \in Fitting /\ [Resting EXCEPT !.stage = "recorded"] \in Fitting
    BY <1>0, TaskForms
  <2> QED BY <2>1 DEF AfterCheck, Resting
<1>3. CASE Ask(t)
  <2> DEFINE x == [Resting EXCEPT !.stage = "asked", !.release = setting.cached]
  <2>1. x \in Fitting
    BY <1>0, TaskForms
  <2>2. x.stage = "asked"
    BY DEF Resting
  <2>3. task' = [task EXCEPT ![t] = x] /\ task[t].stage = "idle"
        /\ UNCHANGED <<upstream, disk, setting, spoiled, setbacks>>
    BY <1>3 DEF Ask, At
  <2> HIDE DEF x
  <2> QED BY <1>0, <1>1, <2>1, <2>2, <2>3
<1>4. CASE Answer(t)
  <2>0. task[t].stage = "asked" /\ UNCHANGED <<upstream, disk, setting, spoiled, setbacks>>
    BY <1>4 DEF Answer, At
  <2>1. ASSUME NEW s \in {"unchanged", "answered"},
               task' = [task EXCEPT ![t].stage = s, ![t].release = upstream]
        PROVE  UpdateInv'
    <3> DEFINE x == [task[t] EXCEPT !.stage = s, !.release = upstream]
    <3>1. x \in Fitting
      BY <1>0, <2>0, TaskForms
    <3>2. x.stage = s
      BY <1>0 DEF Fitting, TaskSet
    <3>3. task' = [task EXCEPT ![t] = x]
      BY <1>0, <2>1
    <3> HIDE DEF x
    <3> QED BY <1>0, <1>1, <2>0, <3>1, <3>2, <3>3
  <2> QED BY <1>4, <2>1 DEF Answer
<1>5. CASE RecordNew(t) \/ RecordUnchanged(t)
  <2>1. /\ task' = [task EXCEPT ![t] = AfterCheck(t)] /\ task[t].stage \in {"answered", "judged"}
        /\ UNCHANGED <<upstream, disk, spoiled, setbacks>>
    BY <1>5 DEF RecordNew, RecordUnchanged, At
  <2>2. PICK b \in BOOLEAN :
          \/ setting' = [[setting EXCEPT !.latest = task[t].release, !.available = b]
                            EXCEPT !.cached = task[t].release]
          \/ setting' = [setting EXCEPT !.latest = task[t].release, !.available = b]
    <3>1. task[t].newer \in BOOLEAN /\ (task[t].release > Current) \in BOOLEAN
      BY <1>0 DEF Fitting, TaskSet
    <3> QED BY <1>5, <3>1 DEF RecordNew, RecordUnchanged, Recorded
  <2>3. task[t].release \in Versions
    BY <1>0, <2>1 DEF Fitting, TaskFits
  <2>4. setting' \in SettingSet /\ setting'.latest = task[t].release
    BY <1>0, <2>2, <2>3 DEF SettingSet
  <2> QED BY <1>0, <1>1, <1>2, <2>1, <2>3, <2>4
<1>6. CASE Judge(t)
  <2> DEFINE b == task[t].release > Current
             x == [task[t] EXCEPT !.stage = "judged", !.newer = b]
  <2>0. task[t].stage = "unchanged" /\ UNCHANGED <<upstream, disk, setting, spoiled, setbacks>>
    BY <1>6 DEF Judge, At
  <2>1. task' = [task EXCEPT ![t] = x]
    BY <1>0, <1>6 DEF Judge
  <2>2. b \in BOOLEAN
    OBVIOUS
  <2> HIDE DEF b
  <2>3. x \in Fitting
    BY <1>0, <2>0, <2>2, TaskForms
  <2>4. x.stage = "judged"
    BY <1>0 DEF Fitting, TaskSet
  <2> HIDE DEF x
  <2> QED BY <1>0, <1>1, <2>0, <2>1, <2>3, <2>4
<1>7. CASE CheckFails(t)
  <2>1. /\ task' = [task EXCEPT ![t] = AfterCheck(t)] /\ task[t].stage = "asked"
        /\ setting' = [setting EXCEPT !.available = FALSE]
        /\ setbacks < MaxSetbacks /\ setbacks' = setbacks + 1 /\ UNCHANGED <<upstream, disk, spoiled>>
    BY <1>7 DEF CheckFails, At
  <2>2. setbacks' \in 0 .. MaxSetbacks
    BY <1>0, <2>1, UpdateAssumption
  <2>3. setting' \in SettingSet /\ ~setting'.available /\ setting'.latest = setting.latest
    BY <1>0, <2>1 DEF SettingSet
  <2> QED BY <1>0, <1>1, <1>2, <2>1, <2>2, <2>3
<1> QED BY <1>3, <1>4, <1>5, <1>6, <1>7

\* Deciding, downloading and preparing: a swap is made ready and not begun.
LEMMA PreparingKeeps ==
    ASSUME UpdateInv, NEW t \in Tasks, (t = Loop /\ Wake) \/ Decide(t) \/ ReadAssets(t) \/ Prepare(t)
    PROVE  UpdateInv'
<1>0. /\ task \in [Tasks -> Fitting] /\ task[t] \in Fitting /\ upstream \in Versions
      /\ setting \in SettingSet
      /\ disk \in [Range(Parts) -> Versions \union {NoRelease}]
      /\ spoiled \in BOOLEAN /\ setbacks \in 0 .. MaxSetbacks
      /\ setting.available => setting.latest \in Versions
      /\ task[t].stage = "assets" => setting.latest \in Versions
  BY DEF UpdateInv, UpdateTyped, ReleaseIsKnown, At
<1>1. UNCHANGED <<upstream, disk, setting, spoiled, setbacks>>
  BY DEF Wake, Decide, ReadAssets, Prepare
<1>2. ASSUME NEW x \in Fitting, task' = [task EXCEPT ![t] = x], x.stage # "swap",
             task[t].stage # "swap", x.stage = "assets" => setting.latest \in Versions
      PROVE  UpdateInv'
  BY <1>0, <1>1, <1>2, TaskStep, OutsideSwap DEF UpdateInv
<1>3. CASE (t = Loop /\ Wake) \/ Decide(t)
  <2>1. task[t].stage \in {"idle", "recorded"}
    BY <1>3 DEF Wake, Decide, At
  <2>2. PICK s \in {"assets", "idle"} :
          task' = [task EXCEPT ![t].stage = s] /\ (s = "assets" => setting.available)
    BY <1>3 DEF Wake, Decide, Goto
  <2> DEFINE x == [task[t] EXCEPT !.stage = s]
  <2>3. x \in Fitting
    BY <1>0, <2>1, TaskForms
  <2>4. x.stage = s
    BY <1>0 DEF Fitting, TaskSet
  <2>5. task' = [task EXCEPT ![t] = x]
    BY <1>0, <2>2
  <2> HIDE DEF x
  <2> QED BY <1>0, <1>2, <2>1, <2>2, <2>3, <2>4, <2>5
<1>4. CASE ReadAssets(t)
  <2> DEFINE x == [task[t] EXCEPT !.stage = "download", !.asset = setting.latest]
  <2>1. task[t].stage = "assets" /\ task' = [task EXCEPT ![t] = x]
    BY <1>0, <1>4 DEF ReadAssets, At
  <2>2. x \in Fitting
    BY <1>0, <2>1, TaskForms
  <2>3. x.stage = "download"
    BY <1>0 DEF Fitting, TaskSet
  <2> HIDE DEF x
  <2> QED BY <1>2, <2>1, <2>2, <2>3
<1>5. CASE Prepare(t)
  <2> DEFINE x == [task[t] EXCEPT !.stage = "swap"]
  <2>1. task[t].stage = "download" /\ task' = [task EXCEPT ![t] = x]
    BY <1>0, <1>5 DEF Prepare, At, Goto
  <2>2. x \in Fitting
    BY <1>0, <2>1, TaskForms
  <2>3. x.stage = "swap" /\ x.swapped = task[t].swapped /\ x.removed = task[t].removed
    BY <1>0 DEF Fitting, TaskSet
  <2>4. x.swapped = 0 /\ ~x.removed
    BY <1>0, <2>1, <2>3, OnlySwapsSwap
  <2> HIDE DEF x
  <2>5. task'[t] = x
    BY <1>0, <2>1, <2>2, TaskWritten
  <2>6. ~Swapping(t) /\ ~Swapping(t)'
    BY <2>1, <2>4, <2>5 DEF Swapping, At
  <2>7. UpdateTyped' /\ ReleaseIsKnown'
    BY <1>0, <1>1, <2>1, <2>2, <2>3, TaskStep
  <2> QED BY <1>1, <2>1, <2>2, <2>6, <2>7, NoSwapStep DEF UpdateInv
<1> QED BY <1>3, <1>4, <1>5
-----------------------------------------------------------------------------
\* Steps that swap

\* What a step of a swap starts from.
LEMMA SwapStart ==
    ASSUME UpdateInv, NEW t \in Tasks, task[t].stage = "swap"
    PROVE  /\ task \in [Tasks -> Fitting] /\ task[t] \in Fitting
           /\ task[t].asset \in Versions /\ task[t].swapped \in 0 .. Len(Parts)
           /\ task[t].removed \in BOOLEAN
           /\ task[t].removed => task[t].swapped < Len(Parts) /\ Packs(t, task[t].swapped + 1)
           /\ disk \in [Range(Parts) -> Versions \union {NoRelease}]
           /\ Len(Parts) \in Nat /\ Len(Parts) > 0
<1>1. Len(Parts) \in Nat /\ Len(Parts) > 0
  BY UpdateAssumption DEF Range
<1> QED BY <1>1 DEF UpdateInv, UpdateTyped, Fitting, TaskFits, TaskSet, Packs

\* Writing the part after the first n touches no other part.
LEMMA PartWritten ==
    ASSUME NEW n \in 0 .. Len(Parts), n < Len(Parts), NEW w \in Versions \union {NoRelease},
           disk \in [Range(Parts) -> Versions \union {NoRelease}],
           disk' = [disk EXCEPT ![Parts[n + 1]] = w]
    PROVE  /\ disk' \in [Range(Parts) -> Versions \union {NoRelease}]
           /\ \A i \in 1 .. Len(Parts) : disk'[Parts[i]] = IF i = n + 1 THEN w ELSE disk[Parts[i]]
<1>1. Len(Parts) \in Nat /\ DOMAIN Parts = 1 .. Len(Parts)
  BY UpdateAssumption
<1>2. n + 1 \in 1 .. Len(Parts)
  BY <1>1
<1>3. \A i \in 1 .. Len(Parts) : Parts[i] \in Range(Parts) /\ (Parts[i] = Parts[n + 1] <=> i = n + 1)
  BY <1>1, <1>2, UpdateAssumption DEF Range, IsInjective
<1> QED BY <1>2, <1>3

\* All that a release packs is there if every numbered part of it is.
LEMMA PartsAreNumbered ==
    ASSUME NEW v \in Versions,
           \A i \in 1 .. Len(Parts) : Parts[i] \in Packed[v] => disk[Parts[i]] = v
    PROVE  Installed(v)
<1>1. DOMAIN Parts = 1 .. Len(Parts) /\ Packed[v] \subseteq Range(Parts)
  BY UpdateAssumption DEF Versions
<1> QED BY <1>1 DEF Range, Installed

\* A part is left out: the swap is as far as it was.
LEMMA SkipPartKeeps == ASSUME UpdateInv, NEW t \in Tasks, SkipPart(t) PROVE UpdateInv'
<1> DEFINE n == task[t].swapped
           x == [task[t] EXCEPT !.swapped = n + 1]
<1>1. /\ task[t].stage = "swap" /\ n # Len(Parts) /\ ~task[t].removed
      /\ ~Packs(t, n + 1)
      /\ UNCHANGED <<upstream, disk, setting, spoiled, setbacks>>
  BY DEF SkipPart, At, SwappedAll
<1>2. /\ task \in [Tasks -> Fitting] /\ task[t] \in Fitting /\ n \in 0 .. Len(Parts)
      /\ n < Len(Parts) /\ n + 1 \in 0 .. Len(Parts) /\ Len(Parts) \in Nat
  BY <1>1, SwapStart
<1>3. task' = [task EXCEPT ![t] = x]
  BY <1>2 DEF SkipPart
<1>4. x \in Fitting /\ x.stage = "swap" /\ x.swapped = n + 1 /\ x.asset = task[t].asset /\ ~x.removed
  BY <1>1, <1>2 DEF Fitting, TaskSet, TaskFits
<1> HIDE DEF x, n
<1>5. task'[t] = x /\ \A u \in Tasks \ {t} : task'[u] = task[u]
  BY <1>2, <1>3, <1>4, TaskWritten
<1>6. \A u \in Tasks \ {t} : Swapping(u)' <=> Swapping(u)
  BY <1>5 DEF Swapping, Packs
<1>7. \A i \in 1 .. Len(Parts) : Packs(t, i)' <=> Packs(t, i)
  BY <1>4, <1>5 DEF Packs
<1>8. Swapping(t)' <=> Swapping(t)
  <2>1. \A i \in 1 .. n + 1 : Packs(t, i) => i \in 1 .. n
    BY <1>1, <1>2
  <2>2. \A i \in n + 1 .. Len(Parts) : Packs(t, i) => i \in n + 2 .. Len(Parts)
    BY <1>1, <1>2
  <2>3. 1 .. n + 1 \subseteq 1 .. Len(Parts) /\ 1 .. n \subseteq 1 .. n + 1
        /\ n + 1 .. Len(Parts) \subseteq 1 .. Len(Parts)
        /\ n + 2 .. Len(Parts) \subseteq n + 1 .. Len(Parts) /\ (n + 1) + 1 = n + 2
    BY <1>2
  <2>4. (\E i \in 1 .. n + 1 : Packs(t, i)') <=> \E i \in 1 .. n : Packs(t, i)
    BY <1>7, <2>1, <2>3
  <2>5. (\E i \in n + 2 .. Len(Parts) : Packs(t, i)') <=> \E i \in n + 1 .. Len(Parts) : Packs(t, i)
    BY <1>7, <2>2, <2>3
  <2>6. Swapping(t)' <=> /\ \E i \in 1 .. n + 1 : Packs(t, i)'
                         /\ \E i \in n + 2 .. Len(Parts) : Packs(t, i)'
    BY <1>4, <1>5, <2>3 DEF Swapping
  <2>7. Swapping(t) <=> /\ \E i \in 1 .. n : Packs(t, i)
                        /\ \E i \in n + 1 .. Len(Parts) : Packs(t, i)
    BY <1>1 DEF Swapping, n
  <2> QED BY <2>4, <2>5, <2>6, <2>7
<1>9. ASSUME NEW u \in Tasks, SwappedOver(task[u]) PROVE SwappedOver(task[u])'
  <2>1. CASE u = t
    <3>1. \A i \in 1 .. n + 1 : Parts[i] \in Packed[task[t].asset] => i \in 1 .. n
      BY <1>1, <1>2 DEF Packs
    <3> QED BY <1>1, <1>4, <1>5, <1>9, <2>1, <3>1 DEF SwappedOver, n
  <2>2. CASE u # t
    BY <1>1, <1>5, <1>9, <2>2 DEF SwappedOver
  <2> QED BY <2>1, <2>2
<1>10. UpdateTyped' /\ ReleaseIsKnown'
  BY <1>1, <1>3, <1>4, TaskStep DEF UpdateInv, UpdateTyped, ReleaseIsKnown
<1>11. DiskInv'
  BY <1>1, <1>6, <1>8, <1>9 DEF UpdateInv, DiskInv, Installed
<1> QED BY <1>10, <1>11 DEF UpdateInv

\* A part goes: the task is the only one that swaps, or the swap is spoiled.
LEMMA RemovePartKeeps == ASSUME UpdateInv, NEW t \in Tasks, RemovePart(t) PROVE UpdateInv'
<1> DEFINE x == [task[t] EXCEPT !.removed = TRUE]
           n == task[t].swapped
<1>1. /\ task[t].stage = "swap" /\ n # Len(Parts) /\ ~task[t].removed
      /\ Packs(t, n + 1) /\ disk' = [disk EXCEPT ![Parts[n + 1]] = NoRelease]
      /\ spoiled' = (spoiled \/ \E u \in Tasks \ {t} : Swapping(u))
      /\ UNCHANGED <<upstream, setting, setbacks>>
  BY DEF RemovePart, At, SwappedAll, NextPart
<1>2. /\ task \in [Tasks -> Fitting] /\ task[t] \in Fitting
      /\ task[t].asset \in Versions /\ n \in 0 .. Len(Parts) /\ n < Len(Parts)
      /\ disk \in [Range(Parts) -> Versions \union {NoRelease}]
      /\ Len(Parts) \in Nat
  BY <1>1, SwapStart
<1>3. task' = [task EXCEPT ![t] = x]
  BY <1>2 DEF RemovePart
<1>4. x \in Fitting
  <2>1. \A b \in BOOLEAN : [task[t] EXCEPT !.removed = b] \in Fitting
    BY <1>1, <1>2, SwapForms DEF Packs
  <2> QED BY <2>1, Zenon
<1>5. x.stage = "swap" /\ x.swapped = n /\ x.asset = task[t].asset /\ x.removed
  BY <1>1, <1>2 DEF Fitting, TaskSet
<1> HIDE DEF x, n
<1>6. task'[t] = x /\ \A u \in Tasks \ {t} : task'[u] = task[u]
  BY <1>2, <1>3, <1>4, TaskWritten
<1>7. /\ disk' \in [Range(Parts) -> Versions \union {NoRelease}]
      /\ \A i \in 1 .. Len(Parts) : disk'[Parts[i]] = IF i = n + 1 THEN NoRelease ELSE disk[Parts[i]]
  <2>1. ASSUME NEW w \in Versions \union {NoRelease}, disk' = [disk EXCEPT ![Parts[n + 1]] = w]
        PROVE  /\ disk' \in [Range(Parts) -> Versions \union {NoRelease}]
               /\ \A i \in 1 .. Len(Parts) :
                    disk'[Parts[i]] = IF i = n + 1 THEN w ELSE disk[Parts[i]]
    BY <1>2, <2>1, PartWritten
  <2>2. disk' = [disk EXCEPT ![Parts[n + 1]] = NoRelease]
    BY <1>1
  <2> QED BY <2>1, <2>2, Zenon
<1>8. UpdateTyped' /\ ReleaseIsKnown'
  <2>1. spoiled' \in BOOLEAN
    BY <1>1 DEF UpdateInv, UpdateTyped
  <2> QED BY <1>1, <1>3, <1>4, <1>5, <1>7, <2>1, TaskStep DEF UpdateInv, UpdateTyped, ReleaseIsKnown
<1>9. ASSUME ~spoiled' PROVE DiskInv'
  <2>1. ~spoiled /\ \A u \in Tasks \ {t} : ~Swapping(u)
    BY <1>1, <1>9
  <2>2. \A u \in Tasks \ {t} : ~Swapping(u)'
    BY <1>6, <2>1 DEF Swapping, Packs
  <2>3. \E i \in n + 1 .. Len(Parts) : Packs(t, i) /\ Packs(t, i)'
    <3>1. n + 1 \in n + 1 .. Len(Parts)
      BY <1>2
    <3> QED BY <1>1, <1>5, <1>6, <3>1 DEF Packs
  <2>4. Swapping(t)'
    BY <1>5, <1>6, <2>3 DEF Swapping
  <2>5. SwappedOver(task[t])
    <3>1. CASE Swapping(t)
      BY <2>1, <3>1 DEF UpdateInv, DiskInv
    <3>2. CASE ~Swapping(t)
      <4>1. \A i \in 1 .. n : ~Packs(t, i)
        BY <1>1, <1>2, <2>3, <3>2 DEF Swapping, n
      <4> QED BY <4>1 DEF SwappedOver, Packs, n
    <3> QED BY <3>1, <3>2
  <2>6. SwappedOver(task[t])'
    <3>1. \A i \in 1 .. n : i \in 1 .. Len(Parts) /\ i # n + 1
      BY <1>2
    <3> QED BY <1>5, <1>6, <1>7, <2>5, <3>1 DEF SwappedOver, n
  <2> QED BY <2>2, <2>4, <2>6 DEF DiskInv
<1> QED BY <1>8, <1>9 DEF UpdateInv, DiskInv

\* A part comes: after the last one all are of the release that was swapped in.
LEMMA CopyPartKeeps == ASSUME UpdateInv, NEW t \in Tasks, CopyPart(t) PROVE UpdateInv'
<1> DEFINE n == task[t].swapped
           x == [task[t] EXCEPT !.removed = FALSE, !.swapped = n + 1]
<1>1. /\ task[t].stage = "swap" /\ task[t].removed
      /\ disk' = [disk EXCEPT ![Parts[n + 1]] = task[t].asset]
      /\ UNCHANGED <<upstream, setting, spoiled, setbacks>>
  BY DEF CopyPart, At, NextPart
<1>2. /\ task \in [Tasks -> Fitting] /\ task[t] \in Fitting
      /\ task[t].asset \in Versions /\ n \in 0 .. Len(Parts) /\ n < Len(Parts)
      /\ disk \in [Range(Parts) -> Versions \union {NoRelease}]
      /\ Len(Parts) \in Nat /\ Packs(t, n + 1)
  BY <1>1, SwapStart
<1>3. task' = [task EXCEPT ![t] = x]
  BY <1>2 DEF CopyPart
<1>4. x \in Fitting
  <2>1. n + 1 \in 0 .. Len(Parts)
    BY <1>2
  <2>2. \A b \in BOOLEAN : ~b => [task[t] EXCEPT !.removed = b, !.swapped = n + 1] \in Fitting
    BY <1>1, <1>2, <2>1, SwapForms
  <2> QED BY <2>2, Zenon
<1>5. x.stage = "swap" /\ x.swapped = n + 1 /\ x.asset = task[t].asset /\ ~x.removed
  BY <1>1, <1>2 DEF Fitting, TaskSet
<1>6. Swapping(t)
  <2>1. n + 1 \in n + 1 .. Len(Parts)
    BY <1>2
  <2> QED BY <1>1, <1>2, <2>1 DEF Swapping
<1> HIDE DEF x
<1>7. task'[t] = x /\ \A u \in Tasks \ {t} : task'[u] = task[u]
  BY <1>2, <1>3, <1>4, TaskWritten
<1>8. /\ disk' \in [Range(Parts) -> Versions \union {NoRelease}]
      /\ \A i \in 1 .. Len(Parts) : disk'[Parts[i]] = IF i = n + 1 THEN task[t].asset ELSE disk[Parts[i]]
  <2> HIDE DEF n
  <2> QED BY <1>1, <1>2, PartWritten, ZenonT(20)
<1>9. UpdateTyped' /\ ReleaseIsKnown'
  BY <1>1, <1>3, <1>4, <1>5, <1>8, TaskStep DEF UpdateInv, UpdateTyped, ReleaseIsKnown
<1>10. ASSUME ~spoiled' PROVE DiskInv'
  <2>1. ~spoiled /\ \A u \in Tasks \ {t} : ~Swapping(u)
    BY <1>1, <1>6, <1>10 DEF UpdateInv, DiskInv
  <2>2. \A u \in Tasks \ {t} : ~Swapping(u)'
    BY <1>7, <2>1 DEF Swapping, Packs
  <2>3. SwappedOver(task[t])
    BY <1>6, <2>1 DEF UpdateInv, DiskInv
  <2>4. \A i \in 1 .. n + 1 : Parts[i] \in Packed[task[t].asset] => disk'[Parts[i]] = task[t].asset
    <3>1. \A i \in 1 .. n + 1 : i \in 1 .. Len(Parts) /\ (i = n + 1 \/ i \in 1 .. n)
      BY <1>2
    <3> QED BY <1>8, <2>3, <3>1 DEF SwappedOver
  <2>5. SwappedOver(task[t])'
    BY <1>5, <1>7, <2>4 DEF SwappedOver
  <2>6. ASSUME ~Swapping(t)' PROVE \E w \in Versions : Installed(w)'
    <3>1. n + 1 \in 1 .. n + 1
      BY <1>2
    <3>2. \E i \in 1 .. n + 1 : Packs(t, i)'
      BY <1>2, <1>5, <1>7, <3>1 DEF Packs
    <3>3. ~ \E i \in (n + 1) + 1 .. Len(Parts) : Packs(t, i)'
      BY <1>5, <1>7, <2>6, <3>2 DEF Swapping
    <3>4. \A i \in 1 .. Len(Parts) : i \in 1 .. n + 1 \/ i \in (n + 1) + 1 .. Len(Parts)
      BY <1>2
    <3>5. \A i \in 1 .. Len(Parts) : Parts[i] \in Packed[task[t].asset] => disk'[Parts[i]] = task[t].asset
      BY <1>5, <1>7, <2>4, <3>3, <3>4 DEF Packs
    <3>6. DOMAIN Parts = 1 .. Len(Parts) /\ Packed[task[t].asset] \subseteq Range(Parts)
      BY <1>2, UpdateAssumption DEF Versions
    <3>7. \A p \in Packed[task[t].asset] : disk'[p] = task[t].asset
      BY <3>5, <3>6 DEF Range
    <3> QED BY <1>2, <3>7 DEF Installed
  <2> QED BY <2>2, <2>5, <2>6 DEF DiskInv
<1> QED BY <1>9, <1>10 DEF UpdateInv, DiskInv

\* The end of a swap, good or bad.
LEMMA EndingKeeps == ASSUME UpdateInv, NEW t \in Tasks, Finish(t) \/ ApplyFails(t) PROVE UpdateInv'
<1>0. /\ task \in [Tasks -> Fitting] /\ setting \in SettingSet
      /\ spoiled \in BOOLEAN /\ setbacks \in 0 .. MaxSetbacks /\ upstream \in Versions
      /\ disk \in [Range(Parts) -> Versions \union {NoRelease}]
      /\ setting.available => setting.latest \in Versions
  BY DEF UpdateInv, UpdateTyped, ReleaseIsKnown
<1>1. Resting \in Fitting /\ [Resting EXCEPT !.stage = "leaving"] \in Fitting
  <2>1. 1 \in Versions
    BY UpdateAssumption DEF Versions
  <2>2. task[t] \in Fitting
    BY <1>0
  <2>3. FALSE \in BOOLEAN
    OBVIOUS
  <2> QED BY <2>1, <2>2, <2>3, TaskForms
<1>2. CASE Finish(t)
  <2> DEFINE x == [Resting EXCEPT !.stage = "leaving"]
  <2>1. /\ task' = [task EXCEPT ![t] = x] /\ setting' = [setting EXCEPT !.available = FALSE]
        /\ SwappedAll(t) /\ UNCHANGED <<upstream, disk, spoiled, setbacks>>
    BY <1>2 DEF Finish
  <2>2. x.stage = "leaving"
    BY DEF Resting
  <2> HIDE DEF x
  <2>3. setting' \in SettingSet /\ ~setting'.available /\ setting'.latest = setting.latest
    BY <1>0, <2>1 DEF SettingSet
  <2>4. UpdateTyped' /\ ReleaseIsKnown'
    <3>1. x \in Fitting
      BY <1>1 DEF x
    <3> QED BY <1>0, <2>1, <2>2, <2>3, <3>1, TaskStep
  <2>5. task'[t] = x
    BY <1>0, <2>1
  <2>6. ~Swapping(t) /\ ~Swapping(t)'
    <3>1. Len(Parts) \in Nat
      BY UpdateAssumption
    <3>2. task[t].swapped + 1 .. Len(Parts) = {}
      BY <2>1, <3>1 DEF SwappedAll
    <3> QED BY <2>2, <2>5, <3>2 DEF Swapping
  <2> QED BY <1>1, <2>1, <2>4, <2>6, NoSwapStep DEF UpdateInv, x
<1>3. CASE ApplyFails(t)
  <2>1. /\ task' = [task EXCEPT ![t] = Resting] /\ spoiled' = (spoiled \/ Swapping(t))
        /\ setbacks < MaxSetbacks /\ setbacks' = setbacks + 1 /\ UNCHANGED <<upstream, disk, setting>>
    BY <1>3 DEF ApplyFails
  <2>2. setbacks' \in 0 .. MaxSetbacks
    BY <1>0, <2>1, UpdateAssumption
  <2>3. Resting.stage = "idle"
    BY DEF Resting
  <2>4. spoiled' \in BOOLEAN
    BY <1>0, <2>1
  <2>5. UpdateTyped' /\ ReleaseIsKnown'
    BY <1>0, <1>1, <2>1, <2>2, <2>3, <2>4, TaskStep
  <2>6. ASSUME ~spoiled' PROVE DiskInv'
    <3>1. ~Swapping(t) /\ ~spoiled
      BY <2>1, <2>6
    <3>2. task'[t] = Resting
      BY <1>0, <2>1
    <3>3. ~Swapping(t)'
      BY <2>3, <3>2 DEF Swapping, At
    <3>4. spoiled' = spoiled
      BY <1>0, <2>1, <3>1
    <3> QED BY <1>1, <2>1, <3>1, <3>3, <3>4, NoSwapStep
  <2> QED BY <2>5, <2>6 DEF UpdateInv, DiskInv
<1> QED BY <1>2, <1>3
-----------------------------------------------------------------------------
\* The process ends, with every task.
LEMMA RestartKeeps ==
    ASSUME UpdateInv, Restart, setbacks' \in 0 .. MaxSetbacks
    PROVE  UpdateInv'
<1>0. /\ task' = [t \in Tasks |-> Resting] /\ spoiled' = (spoiled \/ \E t \in Tasks : Swapping(t))
      /\ UNCHANGED <<upstream, disk, setting>>
  BY DEF Restart
<1>1. Resting \in Fitting
  <2>1. Len(Parts) \in Nat
    BY UpdateAssumption
  <2> QED BY <2>1 DEF Resting, Fitting, TaskSet, TaskFits
<1>2. \A t \in Tasks : ~Swapping(t)' /\ ~At(t, "assets")'
  BY <1>0 DEF Swapping, At, Resting
<1>3. UpdateTyped' /\ ReleaseIsKnown'
  <2>1. task' \in [Tasks -> Fitting]
    BY <1>0, <1>1
  <2>2. spoiled' \in BOOLEAN
    BY <1>0 DEF UpdateInv, UpdateTyped
  <2> QED BY <1>0, <1>2, <2>1, <2>2 DEF UpdateInv, UpdateTyped, ReleaseIsKnown
<1>4. ASSUME ~spoiled' PROVE \E v \in Versions : Installed(v)'
  <2>1. ~spoiled /\ \A t \in Tasks : ~Swapping(t)
    BY <1>0, <1>4
  <2> QED BY <1>0, <2>1 DEF UpdateInv, DiskInv, Installed
<1> QED BY <1>2, <1>3, <1>4 DEF UpdateInv, DiskInv

\* A release is published, or an administrator chooses the mode.
LEMMA OthersKeep == ASSUME UpdateInv, Publish \/ SetMode \/ UNCHANGED updateVars PROVE UpdateInv'
<1>1. UNCHANGED <<disk, task, spoiled, setbacks>>
  BY DEF Publish, SetMode, updateVars
<1>2. upstream' \in Versions
  BY UpdateAssumption DEF UpdateInv, UpdateTyped, Publish, SetMode, updateVars, Versions
<1>3. /\ setting' \in SettingSet /\ setting'.available = setting.available
      /\ setting'.latest = setting.latest
  <2>1. setting \in SettingSet
    BY DEF UpdateInv, UpdateTyped
  <2>2. CASE SetMode
    <3>1. PICK mode \in {"manual", "auto"} : setting' = [setting EXCEPT !.mode = mode]
      BY <2>2 DEF SetMode
    <3> QED BY <2>1, <3>1 DEF SettingSet
  <2>3. CASE Publish \/ UNCHANGED updateVars
    BY <2>1, <2>3 DEF Publish, updateVars
  <2> QED BY <2>2, <2>3
<1>4. UpdateTyped' /\ ReleaseIsKnown'
  BY <1>1, <1>2, <1>3 DEF UpdateInv, UpdateTyped, ReleaseIsKnown, At
<1>5. DiskInv'
  BY <1>1 DEF UpdateInv, DiskInv, Swapping, Packs, SwappedOver, Installed
<1> QED BY <1>4, <1>5 DEF UpdateInv

\* Every step keeps the invariant.
LEMMA UpdateStep == UpdateInv /\ [UpdateNext]_updateVars => UpdateInv'
<1> SUFFICES ASSUME UpdateInv, [UpdateNext]_updateVars PROVE UpdateInv'
  OBVIOUS
<1>1. CASE \E t \in Tasks : Leave(t) \/ Crash
  <2>1. Restart /\ setbacks' \in 0 .. MaxSetbacks
    BY <1>1, UpdateAssumption DEF Leave, Crash, UpdateInv, UpdateTyped
  <2> QED BY <2>1, RestartKeeps
<1>2. Loop \in Tasks
  BY DEF Tasks
<1>3. CASE Wake
  BY <1>2, <1>3, PreparingKeeps
<1>4. CASE Publish \/ SetMode \/ UNCHANGED updateVars
  BY <1>4, OthersKeep
<1>5. ASSUME NEW t \in Tasks,
             Ask(t) \/ Answer(t) \/ RecordNew(t) \/ Judge(t) \/ RecordUnchanged(t) \/ CheckFails(t)
      PROVE  UpdateInv'
  BY <1>5, CheckingKeeps
<1>6. ASSUME NEW t \in Tasks, Decide(t) \/ ReadAssets(t) \/ Prepare(t) PROVE UpdateInv'
  BY <1>6, PreparingKeeps
<1>7. ASSUME NEW t \in Tasks,
             SkipPart(t) \/ RemovePart(t) \/ CopyPart(t) \/ Finish(t) \/ ApplyFails(t)
      PROVE  UpdateInv'
  BY <1>7, SkipPartKeeps, RemovePartKeeps, CopyPartKeeps, EndingKeeps
<1> QED BY <1>1, <1>2, <1>3, <1>4, <1>5, <1>6, <1>7 DEF UpdateNext, Check, Apply

\* The server starts with a whole installation and nothing under way.
LEMMA UpdateInitially == UpdateInit => UpdateInv
<1> SUFFICES ASSUME UpdateInit PROVE UpdateInv
  OBVIOUS
<1>1. Len(Parts) \in Nat /\ 1 \in Versions /\ 0 \in 0 .. MaxSetbacks
  BY UpdateAssumption DEF Versions
<1>2. Resting \in Fitting
  BY <1>1 DEF Resting, Fitting, TaskSet, TaskFits
<1>3. task \in [Tasks -> Fitting] /\ \A t \in Tasks : ~Swapping(t) /\ ~At(t, "assets")
  BY <1>2 DEF UpdateInit, Swapping, At, Resting
<1>4. setting \in SettingSet /\ ~setting.available
  BY DEF UpdateInit, SettingSet
<1>5. UpdateTyped
  BY <1>1, <1>3, <1>4 DEF UpdateInit, UpdateTyped
<1>6. DiskInv
  <2>1. Packed[1] \subseteq Range(Parts)
    BY <1>1, UpdateAssumption DEF Versions
  <2>2. Installed(1)
    BY <2>1 DEF UpdateInit, Installed
  <2> QED BY <1>1, <1>3, <2>2 DEF DiskInv
<1> QED BY <1>3, <1>4, <1>5, <1>6 DEF UpdateInv, ReleaseIsKnown

\* The invariant holds.
LEMMA UpdateHolds == UpdateSpec => []UpdateInv
BY UpdateInitially, UpdateStep, PTL DEF UpdateSpec

\* Every variable of the self-update keeps its type, and whoever downloads or swaps
\* has a release to download (self_update.py, apply_update).
THEOREM UpdateTypesHold == UpdateSpec => []UpdateTypeOK
<1>1. UpdateInv => UpdateTypeOK
  BY DEF UpdateInv, UpdateTyped, UpdateTypeOK, Fitting, TaskFits
<1> QED BY <1>1, UpdateHolds, PTL

\* For any parts, releases and overlapping checks and applies: as long as no swap was
\* broken off and no two met, an install between two swaps is of one release
\* (apply_update and _swap_in).
THEOREM InstallStaysWhole == UpdateSpec => []InstallIsWhole
<1>1. UpdateInv => InstallIsWhole
  BY DEF UpdateInv, DiskInv, InstallIsWhole
<1> QED BY <1>1, UpdateHolds, PTL
-----------------------------------------------------------------------------
(* Numbered records in order *)

Below(A, B) == \A a \in A, b \in B : a < b

\* The elements of a sequence are its values at 1, 2 and so on.
LEMMA ToSetProperties ==
    ASSUME NEW S, NEW s \in Seq(S)
    PROVE  ToSet(s) = {s[i] : i \in 1 .. Len(s)} /\ ToSet(s) \subseteq S
BY LenProperties, ElementOfSeq DEF ToSet

\* A record that is logged later than all the others goes to the end.
LEMMA AppendOrder ==
    ASSUME NEW S \in SUBSET Nat, NEW s \in Seq(S), NEW n \in S
    PROVE  /\ ToSet(Append(s, n)) = ToSet(s) \union {n}
           /\ Increasing(s) /\ Below(ToSet(s), {n}) => Increasing(Append(s, n))
<1> DEFINE new == Append(s, n)
<1>1. /\ new \in Seq(S) /\ Len(new) = Len(s) + 1
      /\ \A i \in 1 .. Len(s) : new[i] = s[i]
      /\ new[Len(s) + 1] = n
  BY AppendProperties
<1> HIDE DEF new
<1>2. Len(s) \in Nat /\ DOMAIN s = 1 .. Len(s) /\ DOMAIN new = 1 .. Len(s) + 1
  BY <1>1, LenProperties
<1>3. ToSet(new) = ToSet(s) \union {n}
  <2>1. \A i \in 1 .. Len(s) + 1 : i \in 1 .. Len(s) \/ i = Len(s) + 1
    BY <1>2
  <2>2. ToSet(new) \subseteq ToSet(s) \union {n}
    BY <1>1, <1>2, <2>1 DEF ToSet
  <2>3. ToSet(s) \subseteq ToSet(new)
    <3>1. \A i \in 1 .. Len(s) : i \in 1 .. Len(s) + 1
      BY <1>2
    <3> QED BY <1>1, <1>2, <3>1 DEF ToSet
  <2>4. n \in ToSet(new)
    <3>1. Len(s) + 1 \in 1 .. Len(s) + 1
      BY <1>2
    <3> QED BY <1>1, <1>2, <3>1 DEF ToSet
  <2> QED BY <2>2, <2>3, <2>4
<1>4. ASSUME Increasing(s), Below(ToSet(s), {n}), NEW i \in DOMAIN new, NEW k \in DOMAIN new, i < k
      PROVE  new[i] < new[k]
  <2>1. i \in 1 .. Len(s) /\ s[i] \in ToSet(s)
    BY <1>2, <1>4 DEF ToSet
  <2>2. CASE k \in 1 .. Len(s)
    BY <1>1, <1>2, <1>4, <2>1, <2>2 DEF Increasing
  <2>3. CASE k = Len(s) + 1
    BY <1>1, <1>4, <2>1, <2>3 DEF Below
  <2> QED BY <1>2, <2>2, <2>3
<1> QED BY <1>3, <1>4 DEF Increasing, new

\* One ordered run of records after another.
LEMMA ConcatOrder ==
    ASSUME NEW S \in SUBSET Nat, NEW s \in Seq(S), NEW t \in Seq(S)
    PROVE  /\ ToSet(s \o t) = ToSet(s) \union ToSet(t)
           /\ Increasing(s) /\ Increasing(t) /\ Below(ToSet(s), ToSet(t)) => Increasing(s \o t)
<1> DEFINE new == s \o t
<1>1. /\ new \in Seq(S) /\ Len(new) = Len(s) + Len(t)
      /\ \A i \in 1 .. Len(s) + Len(t) : new[i] = IF i <= Len(s) THEN s[i] ELSE t[i - Len(s)]
  BY ConcatProperties
<1> HIDE DEF new
<1>2. /\ Len(s) \in Nat /\ Len(t) \in Nat /\ DOMAIN s = 1 .. Len(s) /\ DOMAIN t = 1 .. Len(t)
      /\ DOMAIN new = 1 .. Len(s) + Len(t)
  BY <1>1, LenProperties
<1>3. \A i \in DOMAIN new : \/ i \in DOMAIN s /\ new[i] = s[i]
                            \/ i > Len(s) /\ i - Len(s) \in DOMAIN t /\ new[i] = t[i - Len(s)]
  BY <1>1, <1>2
<1>4. ToSet(new) = ToSet(s) \union ToSet(t)
  <2>1. ToSet(new) \subseteq ToSet(s) \union ToSet(t)
    BY <1>3 DEF ToSet
  <2>2. \A i \in DOMAIN s : i \in DOMAIN new /\ new[i] = s[i]
    BY <1>1, <1>2
  <2>3. \A i \in DOMAIN t : i + Len(s) \in DOMAIN new /\ new[i + Len(s)] = t[i]
    BY <1>1, <1>2
  <2> QED BY <2>1, <2>2, <2>3 DEF ToSet
<1>5. ASSUME Increasing(s), Increasing(t), Below(ToSet(s), ToSet(t)),
             NEW i \in DOMAIN new, NEW k \in DOMAIN new, i < k
      PROVE  new[i] < new[k]
  <2>1. CASE k \in DOMAIN s /\ new[k] = s[k]
    <3>1. i \in DOMAIN s /\ new[i] = s[i]
      BY <1>1, <1>2, <1>5, <2>1
    <3> QED BY <1>5, <2>1, <3>1 DEF Increasing
  <2>2. CASE k > Len(s) /\ k - Len(s) \in DOMAIN t /\ new[k] = t[k - Len(s)]
    <3>1. CASE i \in DOMAIN s /\ new[i] = s[i]
      BY <1>5, <2>2, <3>1 DEF Below, ToSet
    <3>2. CASE i > Len(s) /\ i - Len(s) \in DOMAIN t /\ new[i] = t[i - Len(s)]
      <4>1. i - Len(s) < k - Len(s)
        BY <1>2, <1>5
      <4> QED BY <1>5, <2>2, <3>2, <4>1 DEF Increasing
    <3> QED BY <1>3, <3>1, <3>2
  <2> QED BY <1>3, <2>1, <2>2
<1> QED BY <1>4, <1>5 DEF Increasing, new

\* The oldest record is before all the others.
LEMMA TailOrder ==
    ASSUME NEW S \in SUBSET Nat, NEW s \in Seq(S), s # <<>>
    PROVE  /\ Head(s) \in S /\ Tail(s) \in Seq(S) /\ Len(Tail(s)) = Len(s) - 1
           /\ ToSet(s) = {Head(s)} \union ToSet(Tail(s))
           /\ Increasing(s) => Increasing(Tail(s)) /\ Below({Head(s)}, ToSet(Tail(s)))
<1> DEFINE rest == Tail(s)
<1>1. /\ Head(s) \in S /\ rest \in Seq(S) /\ Len(rest) = Len(s) - 1
      /\ \A i \in 1 .. Len(rest) : rest[i] = s[i + 1]
  BY HeadTailProperties
<1>2. Head(s) = s[1]
  OBVIOUS
<1> HIDE DEF rest
<1>3. Len(s) \in Nat \ {0} /\ DOMAIN s = 1 .. Len(s) /\ DOMAIN rest = 1 .. Len(s) - 1
  BY <1>1, LenProperties, EmptySeq
<1>4. 1 \in DOMAIN s /\ \A i \in DOMAIN rest : i + 1 \in DOMAIN s /\ rest[i] = s[i + 1] /\ 1 < i + 1
  BY <1>1, <1>3
<1>5. \A i \in DOMAIN s : i = 1 \/ (i - 1 \in DOMAIN rest /\ rest[i - 1] = s[i])
  BY <1>1, <1>3
<1>6. ToSet(s) = {Head(s)} \union ToSet(rest)
  BY <1>2, <1>4, <1>5 DEF ToSet
<1>7. ASSUME Increasing(s) PROVE Increasing(rest) /\ Below({Head(s)}, ToSet(rest))
  <2>1. Below({Head(s)}, ToSet(rest))
    BY <1>2, <1>4, <1>7 DEF Below, ToSet, Increasing
  <2>2. ASSUME NEW i \in DOMAIN rest, NEW k \in DOMAIN rest, i < k PROVE rest[i] < rest[k]
    <3>1. i + 1 < k + 1
      BY <1>3, <2>2
    <3> QED BY <1>4, <1>7, <3>1 DEF Increasing
  <2> QED BY <2>1, <2>2 DEF Increasing
<1> QED BY <1>1, <1>6, <1>7 DEF rest

\* The transaction that trims the table keeps the newest rows, in order, and not too many.
LEMMA TrimOrder ==
    ASSUME NEW S \in SUBSET Nat, NEW s \in Seq(S), Increasing(s)
    PROVE  /\ Trimmed(s) \in Seq(S) /\ Len(Trimmed(s)) <= MaxRows
           /\ ToSet(Trimmed(s)) \subseteq ToSet(s) /\ Increasing(Trimmed(s))
           /\ Below(ToSet(s) \ ToSet(Trimmed(s)), ToSet(Trimmed(s)))
<1>1. Len(s) \in Nat /\ DOMAIN s = 1 .. Len(s) /\ MaxRows \in Nat \ {0}
  BY LenProperties, BufferAssumption
<1>2. CASE Len(s) < MaxRows
  BY <1>1, <1>2 DEF Trimmed, Below
<1>3. CASE ~(Len(s) < MaxRows)
  <2> DEFINE m == Len(s) - MaxRows + 2
             new == SubSeq(s, m, Len(s))
  <2>1. m \in Int /\ Len(s) \in Int /\ m >= 2
    BY <1>1, <1>3
  <2>2. \A i \in m .. Len(s) : s[i] \in S
    BY <1>1, <2>1, ElementOfSeq
  <2>3. Trimmed(s) = new
    BY <1>3 DEF Trimmed
  <2> HIDE DEF m
  <2>4. /\ new \in Seq(S)
        /\ Len(new) = IF m <= Len(s) THEN Len(s) - m + 1 ELSE 0
        /\ \A i \in 1 .. Len(s) - m + 1 : new[i] = s[m + i - 1]
    BY <2>1, <2>2, SubSeqProperties
  <2> HIDE DEF new
  <2>5. Len(new) = MaxRows - 1 /\ DOMAIN new = 1 .. MaxRows - 1
    <3>1. Len(new) = MaxRows - 1
      BY <1>1, <1>3, <2>4 DEF m
    <3> QED BY <2>4, <3>1, LenProperties
  <2>6. \A i \in DOMAIN new : m + i - 1 \in DOMAIN s /\ new[i] = s[m + i - 1] /\ m + i - 1 >= m
    <3>1. Len(s) - m + 1 = MaxRows - 1
      BY <1>1 DEF m
    <3>2. \A i \in 1 .. MaxRows - 1 : m + i - 1 \in 1 .. Len(s) /\ m + i - 1 >= m
      BY <1>1, <2>1, <3>1
    <3> QED BY <1>1, <2>4, <2>5, <3>1, <3>2
  <2>7. ToSet(new) \subseteq ToSet(s)
    BY <2>6 DEF ToSet
  <2>8. Increasing(new)
    <3>1. SUFFICES ASSUME NEW i \in DOMAIN new, NEW k \in DOMAIN new, i < k PROVE new[i] < new[k]
      BY DEF Increasing
    <3>2. m + i - 1 < m + k - 1
      BY <2>1, <2>5, <3>1
    <3> QED BY <2>6, <3>2 DEF Increasing
  <2>9. Below(ToSet(s) \ ToSet(new), ToSet(new))
    <3>1. SUFFICES ASSUME NEW i \in DOMAIN s, s[i] \notin ToSet(new), NEW k \in DOMAIN new
                   PROVE  s[i] < new[k]
      BY DEF Below, ToSet
    <3>2. i < m
      <4>1. SUFFICES ASSUME i >= m PROVE FALSE
        BY <1>1, <2>1
      <4>2. i - m + 1 \in DOMAIN new /\ m + (i - m + 1) - 1 = i
        BY <1>1, <1>3, <2>1, <2>5, <4>1 DEF m
      <4> QED BY <2>6, <3>1, <4>2 DEF ToSet
    <3>3. i < m + k - 1
      BY <1>1, <2>1, <2>5, <3>2
    <3> QED BY <2>6, <3>3 DEF Increasing
  <2> QED BY <1>1, <2>3, <2>4, <2>5, <2>7, <2>8, <2>9
<1> QED BY <1>2, <1>3
-----------------------------------------------------------------------------
(* The log buffer *)

\* The table, the batch in the thread's hands and the queue are one run of records in
\* the order of logging, later than everything that was trimmed.
RecordsInOrder ==
    /\ Increasing(rows) /\ Increasing(batch) /\ Increasing(pending)
    /\ Below(ToSet(rows), ToSet(batch) \union ToSet(pending))
    /\ Below(ToSet(batch), ToSet(pending))
    /\ Below(missing.trimmed, ToSet(rows) \union ToSet(batch) \union ToSet(pending))
    /\ Len(rows) <= MaxRows
    /\ \A r \in ToSet(rows) \union ToSet(batch) \union ToSet(pending) \union missing.trimmed :
         r <= kept.all

\* After stop was called the thread drains once more before it leaves, and what is queued
\* after that drain was logged after stop.
ThreadFits ==
    /\ thread \in {"last", "last write", "left"} => server # "up"
    /\ thread \in {"wait", "last", "left"} => batch = <<>>
    /\ server = "stopped" => thread = "left"
    /\ kept.before <= kept.all /\ (server = "up" => kept.before = kept.all)
    /\ thread \in {"last write", "left"} => Below(1 .. kept.before, ToSet(pending))

\* No record disappears unaccounted for.
NothingVanishes ==
    1 .. kept.all \subseteq ToSet(rows) \union ToSet(batch) \union ToSet(pending)
                       \union missing.failed \union missing.cleared \union missing.trimmed

BufferInv == BufferTypeOK /\ RecordsInOrder /\ ThreadFits /\ NothingVanishes

\* The counters of the log buffer, by themselves.
LEMMA BufferNumbers ==
    ASSUME BufferInv
    PROVE  /\ MaxLogged \in Nat /\ MaxTroubles \in Nat /\ troubles \in 0..MaxTroubles
           /\ kept.all \in Nat /\ kept.before \in Nat
           /\ kept.all <= MaxLogged /\ kept.before <= kept.all
           /\ server = "up" => kept.before = kept.all
<1>1. MaxLogged \in Nat /\ MaxTroubles \in Nat
  BY BufferAssumption
<1>2. kept.all \in 0..MaxLogged /\ kept.before \in 0..MaxLogged /\ troubles \in 0..MaxTroubles
  BY DEF BufferInv, BufferTypeOK
<1>3. kept.before <= kept.all /\ (server = "up" => kept.before = kept.all)
  BY DEF BufferInv, ThreadFits
<1> QED BY <1>1, <1>2, <1>3

\* What every step starts from.
LEMMA BufferKnown ==
    ASSUME BufferInv
    PROVE  /\ Records \in SUBSET Nat
           /\ pending \in Seq(Records) /\ batch \in Seq(Records) /\ rows \in Seq(Records)
           /\ ToSet(pending) \subseteq Records /\ ToSet(batch) \subseteq Records
           /\ ToSet(rows) \subseteq Records
           /\ missing.failed \subseteq Records /\ missing.cleared \subseteq Records
           /\ missing.trimmed \subseteq Records
           /\ ToSet(<<>>) = {} /\ Increasing(<<>>)
<1>1. pending \in Seq(Records) /\ batch \in Seq(Records) /\ rows \in Seq(Records)
  BY DEF BufferInv, BufferTypeOK
<1>2. Records \in SUBSET Nat
  BY BufferAssumption DEF Records
<1>3. ToSet(pending) \subseteq Records /\ ToSet(batch) \subseteq Records /\ ToSet(rows) \subseteq Records
  BY <1>1, ToSetProperties
<1>4. /\ missing.failed \subseteq Records /\ missing.cleared \subseteq Records
      /\ missing.trimmed \subseteq Records
  BY DEF BufferInv, BufferTypeOK
<1>5. ToSet(<<>>) = {} /\ Increasing(<<>>)
  BY DEF ToSet, Increasing
<1> QED BY <1>1, <1>2, <1>3, <1>4, <1>5

\* A logged record is the newest one.
LEMMA LogRecordKeeps == ASSUME BufferInv, LogRecord PROVE BufferInv'
<1> DEFINE n == kept.all + 1
<1>1. /\ pending' = Append(pending, n) /\ n \in Records /\ kept.all < MaxLogged
      /\ kept' = [all |-> n, before |-> IF server = "up" THEN n ELSE kept.before]
      /\ UNCHANGED <<batch, rows, thread, server, missing, troubles>>
  BY BufferNumbers DEF LogRecord, Records
<1>2. kept'.all = n /\ kept'.before = IF server = "up" THEN n ELSE kept.before
  BY <1>1
<1>3. /\ pending' \in Seq(Records) /\ ToSet(pending') = ToSet(pending) \union {n}
      /\ Increasing(pending) /\ Below(ToSet(pending), {n}) => Increasing(pending')
  <2>1. Append(pending, n) \in Seq(Records)
    BY <1>1, BufferKnown, AppendProperties
  <2> HIDE DEF n
  <2> QED BY <1>1, <2>1, BufferKnown, AppendOrder
<1>4. \A A : (\A r \in A : r <= kept.all) /\ A \subseteq Nat => Below(A, {n}) /\ \A r \in A : r <= n
  BY BufferNumbers DEF Below
<1>5. BufferTypeOK'
  <2>1. kept' \in [all : 0..MaxLogged, before : 0..MaxLogged]
    BY <1>1, BufferNumbers
  <2> QED BY <1>1, <1>3, <2>1 DEF BufferInv, BufferTypeOK
<1> HIDE DEF n
<1>6. RecordsInOrder'
  <2>1. Below(ToSet(pending) \union ToSet(rows) \union ToSet(batch) \union missing.trimmed, {n})
    BY <1>4, BufferKnown DEF BufferInv, RecordsInOrder
  <2>2. Increasing(pending')
    BY <1>3, <2>1 DEF BufferInv, RecordsInOrder, Below
  <2>3. \A r \in ToSet(rows) \union ToSet(batch) \union ToSet(pending) \union missing.trimmed \union {n} :
          r <= n
    <3>1. \A r \in ToSet(rows) \union ToSet(batch) \union ToSet(pending) \union missing.trimmed : r <= n
      BY <1>4, BufferKnown DEF BufferInv, RecordsInOrder
    <3>2. n <= n
      BY BufferNumbers DEF n
    <3> QED BY <3>1, <3>2
  <2> QED BY <1>1, <1>2, <1>3, <2>1, <2>2, <2>3 DEF BufferInv, RecordsInOrder, Below
<1>7. ThreadFits'
  <2>1. kept'.before <= kept'.all /\ (server' = "up" => kept'.before = kept'.all)
    BY <1>1, <1>2, BufferNumbers DEF n
  <2>2. ASSUME thread \in {"last write", "left"} PROVE Below(1 .. kept'.before, ToSet(pending'))
    <3>1. kept'.before = kept.before /\ Below(1 .. kept.before, ToSet(pending))
      BY <1>2, <2>2 DEF BufferInv, ThreadFits
    <3>2. \A r \in 1 .. kept.before : r < n
      BY BufferNumbers DEF n
    <3> QED BY <1>3, <3>1, <3>2 DEF Below
  <2> QED BY <1>1, <2>1, <2>2 DEF BufferInv, ThreadFits
<1>8. NothingVanishes'
  <2>1. 1 .. n = 1 .. kept.all \union {n}
    BY BufferNumbers DEF n
  <2> QED BY <1>1, <1>2, <1>3, <2>1 DEF BufferInv, NothingVanishes
<1> QED BY <1>5, <1>6, <1>7, <1>8 DEF BufferInv

\* The queue becomes the batch.
LEMMA DrainKeeps == ASSUME BufferInv, Drain PROVE BufferInv'
<1>1. /\ batch = <<>> /\ batch' = pending /\ pending' = <<>> /\ thread \in {"wait", "last"}
      /\ thread' = IF thread = "wait" THEN "write" ELSE "last write"
      /\ UNCHANGED <<rows, server, kept, missing, troubles>>
  BY DEF Drain, BufferInv, ThreadFits
<1>2. <<>> \in Seq(Records)
  BY EmptySeq
<1>3. BufferTypeOK'
  BY <1>1, <1>2 DEF BufferInv, BufferTypeOK
<1>4. RecordsInOrder'
  BY <1>1, BufferKnown DEF BufferInv, RecordsInOrder, Below
<1>5. ThreadFits'
  BY <1>1, BufferKnown DEF BufferInv, ThreadFits, Below
<1>6. NothingVanishes'
  BY <1>1, BufferKnown DEF BufferInv, NothingVanishes
<1> QED BY <1>3, <1>4, <1>5, <1>6 DEF BufferInv

\* The thread after a write.
LEMMA AfterWriteFits ==
    ASSUME BufferInv, thread \in {"write", "last write"}
    PROVE  /\ AfterWrite \in {"wait", "last", "left"}
           /\ AfterWrite \in {"last", "left"} => server # "up"
           /\ AfterWrite = "left" => thread = "last write"
BY DEF AfterWrite, BufferInv, ThreadFits

\* A batch is written and the table trimmed.
LEMMA WriteBatchKeeps == ASSUME BufferInv, WriteBatch PROVE BufferInv'
<1> DEFINE all == rows \o batch
<1>1. /\ thread \in {"write", "last write"} /\ rows' = (IF batch = <<>> THEN rows ELSE Trimmed(all))
      /\ missing' = [missing EXCEPT !.trimmed = @ \cup (ToSet(all) \ ToSet(rows'))]
      /\ batch' = <<>> /\ thread' = AfterWrite
      /\ UNCHANGED <<pending, server, kept, troubles>>
  BY DEF WriteBatch
<1>2. all \in Seq(Records) /\ ToSet(all) = ToSet(rows) \union ToSet(batch) /\ Increasing(all)
  <2>1. all \in Seq(Records)
    BY BufferKnown, ConcatProperties
  <2>2. Increasing(rows) /\ Increasing(batch) /\ Below(ToSet(rows), ToSet(batch))
    BY DEF BufferInv, RecordsInOrder, Below
  <2> QED BY <2>1, <2>2, BufferKnown, ConcatOrder
<1> HIDE DEF all
<1>3. /\ rows' \in Seq(Records) /\ Len(rows') <= MaxRows /\ ToSet(rows') \subseteq ToSet(all)
      /\ Increasing(rows') /\ Below(ToSet(all) \ ToSet(rows'), ToSet(rows'))
  <2>1. CASE batch = <<>>
    <3>1. rows' = rows /\ ToSet(all) = ToSet(rows)
      BY <1>1, <1>2, <2>1, BufferKnown
    <3> QED BY <3>1, BufferKnown DEF BufferInv, RecordsInOrder, Below
  <2>2. CASE batch # <<>>
    BY <1>1, <1>2, <2>2, BufferKnown, TrimOrder
  <2> QED BY <2>1, <2>2
<1>4. /\ missing' \in [failed : SUBSET Records, cleared : SUBSET Records, trimmed : SUBSET Records]
      /\ missing'.failed = missing.failed /\ missing'.cleared = missing.cleared
      /\ missing'.trimmed = missing.trimmed \union (ToSet(all) \ ToSet(rows'))
  <2>1. missing \in [failed : SUBSET Records, cleared : SUBSET Records, trimmed : SUBSET Records]
    BY DEF BufferInv, BufferTypeOK
  <2>2. ToSet(all) \subseteq Records
    BY <1>2, BufferKnown
  <2> QED BY <1>1, <2>1, <2>2
<1>5. BufferTypeOK'
  <2>1. <<>> \in Seq(Records)
    BY EmptySeq
  <2> QED BY <1>1, <1>3, <1>4, <2>1, AfterWriteFits DEF BufferInv, BufferTypeOK
<1>6. RecordsInOrder'
  <2>1. ToSet(batch') = {} /\ Increasing(batch')
    BY <1>1, BufferKnown
  <2>2. Below(ToSet(all), ToSet(pending)) /\ Below(missing.trimmed, ToSet(all) \union ToSet(pending))
    BY <1>2 DEF BufferInv, RecordsInOrder, Below
  <2>3. Below(ToSet(rows'), ToSet(pending))
    BY <1>3, <2>2 DEF Below
  <2>4. Below(missing'.trimmed, ToSet(rows') \union ToSet(pending))
    BY <1>3, <1>4, <2>2 DEF Below
  <2>5. \A r \in ToSet(rows') \union ToSet(pending) \union missing'.trimmed : r <= kept.all
    BY <1>2, <1>3, <1>4 DEF BufferInv, RecordsInOrder
  <2>6. Increasing(pending)
    BY DEF BufferInv, RecordsInOrder
  <2> QED BY <1>1, <1>3, <2>1, <2>3, <2>4, <2>5, <2>6 DEF RecordsInOrder, Below
<1>7. ThreadFits'
  BY <1>1, AfterWriteFits DEF BufferInv, ThreadFits
<1>8. NothingVanishes'
  BY <1>1, <1>2, <1>4, BufferKnown DEF BufferInv, NothingVanishes
<1> QED BY <1>5, <1>6, <1>7, <1>8 DEF BufferInv

\* A batch is lost.
LEMMA WriteFailsKeeps == ASSUME BufferInv, WriteFails PROVE BufferInv'
<1>1. /\ thread \in {"write", "last write"} /\ troubles < MaxTroubles
      /\ missing' = [missing EXCEPT !.failed = @ \cup ToSet(batch)]
      /\ batch' = <<>> /\ thread' = AfterWrite /\ troubles' = troubles + 1
      /\ UNCHANGED <<pending, rows, server, kept>>
  BY DEF WriteFails
<1>2. /\ missing' \in [failed : SUBSET Records, cleared : SUBSET Records, trimmed : SUBSET Records]
      /\ missing'.failed = missing.failed \union ToSet(batch)
      /\ missing'.cleared = missing.cleared /\ missing'.trimmed = missing.trimmed
  BY <1>1, BufferKnown DEF BufferInv, BufferTypeOK
<1>3. BufferTypeOK'
  <2>1. <<>> \in Seq(Records) /\ troubles' \in 0..MaxTroubles
    <3>1. troubles < MaxTroubles /\ troubles' = troubles + 1
      BY <1>1
    <3>2. troubles' \in 0..MaxTroubles
      BY <3>1, BufferNumbers
    <3> QED BY <3>2, EmptySeq
  <2> QED BY <1>1, <1>2, <2>1, AfterWriteFits DEF BufferInv, BufferTypeOK
<1>4. RecordsInOrder'
  BY <1>1, <1>2, BufferKnown DEF BufferInv, RecordsInOrder, Below
<1>5. ThreadFits'
  BY <1>1, AfterWriteFits DEF BufferInv, ThreadFits
<1>6. NothingVanishes'
  BY <1>1, <1>2, BufferKnown DEF BufferInv, NothingVanishes
<1> QED BY <1>3, <1>4, <1>5, <1>6 DEF BufferInv

\* The table is cleared.
LEMMA ClearLogsKeeps == ASSUME BufferInv, ClearLogs PROVE BufferInv'
<1>1. /\ missing' = [missing EXCEPT !.cleared = @ \cup ToSet(rows)] /\ rows' = <<>>
      /\ UNCHANGED <<pending, batch, thread, server, kept, troubles>>
  BY DEF ClearLogs
<1>2. /\ missing' \in [failed : SUBSET Records, cleared : SUBSET Records, trimmed : SUBSET Records]
      /\ missing'.cleared = missing.cleared \union ToSet(rows)
      /\ missing'.failed = missing.failed /\ missing'.trimmed = missing.trimmed
  BY <1>1, BufferKnown DEF BufferInv, BufferTypeOK
<1>3. BufferTypeOK'
  <2>1. <<>> \in Seq(Records)
    BY EmptySeq
  <2> QED BY <1>1, <1>2, <2>1 DEF BufferInv, BufferTypeOK
<1>4. RecordsInOrder'
  <2>1. Len(rows') <= MaxRows
    BY <1>1, BufferAssumption, EmptySeq
  <2> QED BY <1>1, <1>2, <2>1, BufferKnown DEF BufferInv, RecordsInOrder, Below
<1>5. ThreadFits'
  BY <1>1 DEF BufferInv, ThreadFits
<1>6. NothingVanishes'
  BY <1>1, <1>2, BufferKnown DEF BufferInv, NothingVanishes
<1> QED BY <1>3, <1>4, <1>5, <1>6 DEF BufferInv

\* The server stops, and waits for the thread, or gives up waiting.
LEMMA StoppingKeeps ==
    ASSUME BufferInv, StopLogging \/ JoinReturns \/ JoinTimesOut \/ UNCHANGED bufferVars
    PROVE  BufferInv'
<1>1. UNCHANGED <<pending, batch, rows, thread, kept, missing>>
  BY DEF StopLogging, JoinReturns, JoinTimesOut, bufferVars
<1>2. troubles' \in 0..MaxTroubles
  <2>1. troubles' = troubles \/ (troubles < MaxTroubles /\ troubles' = troubles + 1)
    BY DEF StopLogging, JoinReturns, JoinTimesOut, bufferVars
  <2> QED BY <2>1, BufferNumbers
<1>3. BufferTypeOK'
  BY <1>1, <1>2 DEF StopLogging, JoinReturns, JoinTimesOut, bufferVars, BufferInv, BufferTypeOK
<1>4. RecordsInOrder' /\ NothingVanishes'
  BY <1>1 DEF BufferInv, RecordsInOrder, NothingVanishes
<1>5. ThreadFits'
  BY <1>1 DEF StopLogging, JoinReturns, JoinTimesOut, bufferVars, BufferInv, ThreadFits
<1> QED BY <1>3, <1>4, <1>5 DEF BufferInv

\* Every step keeps the invariant.
LEMMA BufferStep == BufferInv /\ [BufferNext]_bufferVars => BufferInv'
BY LogRecordKeeps, DrainKeeps, WriteBatchKeeps, WriteFailsKeeps, ClearLogsKeeps, StoppingKeeps
   DEF BufferNext

\* Nothing is logged at the start.
LEMMA BufferInitially == BufferInit => BufferInv
<1> SUFFICES ASSUME BufferInit PROVE BufferInv
  OBVIOUS
<1>1. <<>> \in Seq(Records) /\ Len(<<>>) = 0
  BY EmptySeq
<1>2. BufferTypeOK
  BY <1>1, BufferAssumption DEF BufferInit, BufferTypeOK
<1>3. ToSet(<<>>) = {} /\ Increasing(<<>>)
  BY DEF ToSet, Increasing
<1>4. RecordsInOrder
  BY <1>1, <1>3, BufferAssumption DEF BufferInit, RecordsInOrder, Below
<1>5. ThreadFits
  BY DEF BufferInit, ThreadFits
<1>6. NothingVanishes
  BY DEF BufferInit, NothingVanishes
<1> QED BY <1>2, <1>4, <1>5, <1>6 DEF BufferInv

\* For any limit of the table and any interleaving of logging, writing, clearing and
\* stopping: the table is in order and within its limit, only its oldest rows are trimmed,
\* and a server that has stopped has written what was logged before (logging_handler.py,
\* _flush_loop and stop).
THEOREM LogStaysKept == BufferSpec => [](BufferTypeOK /\ LogIsKept)
<1>1. ASSUME BufferInv PROVE LogIsKept
  <2>1. \A r \in missing.trimmed, i \in DOMAIN rows : r < rows[i]
    BY <1>1 DEF BufferInv, RecordsInOrder, Below, ToSet
  <2>2. ASSUME server = "stopped"
        PROVE  1 .. kept.before \subseteq ToSet(rows) \cup missing.failed \cup missing.cleared \cup missing.trimmed
    <3>1. ToSet(batch) = {} /\ Below(1 .. kept.before, ToSet(pending))
      BY <1>1, <2>2, BufferKnown DEF BufferInv, ThreadFits
    <3>2. 1 .. kept.before \subseteq 1 .. kept.all
      BY <1>1, BufferNumbers
    <3>3. \A r \in 1 .. kept.before : r \notin ToSet(pending)
      BY <3>1 DEF Below
    <3> QED BY <1>1, <3>1, <3>2, <3>3 DEF BufferInv, NothingVanishes
  <2> QED BY <1>1, <2>1, <2>2 DEF LogIsKept, BufferInv, RecordsInOrder, Increasing
<1>2. BufferInv => BufferTypeOK /\ LogIsKept
  BY <1>1 DEF BufferInv
<1> QED BY <1>2, BufferInitially, BufferStep, PTL DEF BufferSpec
-----------------------------------------------------------------------------
(* Log forwarding *)

\* A handler, and the records it has in hand or has sent.
Numbers == 1..MaxRecords
HandlerSet ==
    [at : {"unused", "check", "get", "connect", "send", "end"}, stop : BOOLEAN,
     queue : Seq(Numbers), line : 0..MaxRecords, sock : {"none", "open", "closed"},
     sent : 0..MaxRecords, errors : 0..MaxRecords, arrived : Seq(Numbers), late : Nat]
Held(x)  == {x.line} \ {0}
Lines(x) == ToSet(x.arrived) \union Held(x) \union ToSet(x.queue)

\* What has been put into its queue: sent, given up, in the worker's hands, or queued.
Work(x) == x.sent + x.errors + (IF x.line = 0 THEN 0 ELSE 1) + Len(x.queue)

\* What arrived, the line in hand and the queue are one run of records in order.
LinesFit(x, n) ==
    /\ Increasing(x.arrived) /\ Increasing(x.queue)
    /\ Below(ToSet(x.arrived), Held(x) \union ToSet(x.queue))
    /\ Below(Held(x), ToSet(x.queue))
    /\ \A r \in Lines(x) : r <= n

\* After the one line that may come late the worker leaves.
WorkFits(x, n) ==
    /\ Len(x.queue) <= MaxQueue /\ Work(x) <= n
    /\ x.at \in {"connect", "send"} <=> x.line # 0
    /\ x.late <= 1 /\ (x.late # 0 => x.stop /\ x.at \in {"check", "end"})
    /\ x.at = "unused" => x = Unused

HandlerFits(x, n) == x \in HandlerSet /\ LinesFit(x, n) /\ WorkFits(x, n)

\* The handler of a test is nobody else's, and its one line is somewhere.
TestFits ==
    /\ tester.of = NoHandler => tester.said = "nothing"
    /\ tester.of # NoHandler =>
         /\ tester.of # current /\ handler[tester.of].at # "unused" /\ Work(handler[tester.of]) = 1
         /\ tester.said = "ok" => handler[tester.of].sent >= 1

ForwardInv ==
    /\ ForwardTypeOK
    /\ \A h \in Handlers : HandlerFits(handler[h], logged)
    /\ \A g, h \in Handlers : g # h => Lines(handler[g]) \intersect Lines(handler[h]) = {}
    /\ current # NoHandler => handler[current].at # "unused"
    /\ TestFits

\* A step of a handler after which the invariant still speaks of the same records.
Continues(x, y) ==
    /\ HandlerFits(y, logged) /\ Lines(y) \subseteq Lines(x) /\ Work(y) = Work(x)
    /\ y.sent >= x.sent /\ y.at # "unused"

\* The fields of a handler.
LEMMA HandlerFields ==
    ASSUME NEW x \in HandlerSet
    PROVE  /\ x.at \in {"unused", "check", "get", "connect", "send", "end"}
           /\ x.queue \in Seq(Numbers) /\ x.line \in 0..MaxRecords
           /\ x.sock \in {"none", "open", "closed"}
           /\ x.sent \in 0..MaxRecords /\ x.errors \in 0..MaxRecords
           /\ x.arrived \in Seq(Numbers) /\ x.late \in Nat
           /\ x.stop \in BOOLEAN
           /\ Len(x.queue) \in Nat /\ Work(x) \in Nat
           /\ Numbers \in SUBSET Nat /\ MaxRecords \in Nat
           /\ ToSet(x.arrived) \subseteq Numbers /\ ToSet(x.queue) \subseteq Numbers
           /\ Held(x) \subseteq Numbers /\ Lines(x) \subseteq Numbers
<1>1. /\ x.at \in {"unused", "check", "get", "connect", "send", "end"}
      /\ x.queue \in Seq(Numbers) /\ x.line \in 0..MaxRecords
      /\ x.sock \in {"none", "open", "closed"}
      /\ x.sent \in 0..MaxRecords /\ x.errors \in 0..MaxRecords
      /\ x.arrived \in Seq(Numbers) /\ x.late \in Nat
  BY DEF HandlerSet
<1>2. x.stop \in BOOLEAN
  BY Zenon DEF HandlerSet
<1>3. MaxRecords \in Nat /\ Numbers \in SUBSET Nat
  BY ForwardAssumption DEF Numbers
<1>4. Len(x.queue) \in Nat
  BY <1>1, LenProperties
<1>5. Work(x) \in Nat
  <2>1. x.sent \in Nat /\ x.errors \in Nat
    BY <1>1, <1>3
  <2> QED BY <1>4, <2>1 DEF Work
<1>6. ToSet(x.arrived) \subseteq Numbers /\ ToSet(x.queue) \subseteq Numbers
  BY <1>1, ToSetProperties
<1>7. Held(x) \subseteq Numbers
  BY <1>1, <1>3 DEF Held, Numbers
<1> QED BY <1>1, <1>2, <1>3, <1>4, <1>5, <1>6, <1>7 DEF Lines

\* What is known of the whole.
LEMMA ForwardKnown ==
    ASSUME ForwardInv
    PROVE  /\ handler \in [Handlers -> HandlerSet] /\ logged \in 0..MaxRecords /\ MaxRecords \in Nat
           /\ current \in Handlers \cup {NoHandler} /\ NoHandler \notin Handlers
           /\ \A h \in Handlers : HandlerFits(handler[h], logged)
           /\ tester \in [of : Handlers \cup {NoHandler}, said : {"nothing", "ok", "not ok"}]
           /\ logged \in Nat
<1>1. /\ handler \in [Handlers -> HandlerSet] /\ logged \in 0..MaxRecords /\ MaxRecords \in Nat
      /\ current \in Handlers \cup {NoHandler} /\ NoHandler \notin Handlers
      /\ \A h \in Handlers : HandlerFits(handler[h], logged)
      /\ tester \in [of : Handlers \cup {NoHandler}, said : {"nothing", "ok", "not ok"}]
  BY ForwardAssumption, Zenon DEF ForwardInv, ForwardTypeOK, HandlerSet, Numbers
<1>2. \A n \in Nat : \A k \in 0..n : k \in Nat
  OBVIOUS
<1> QED BY <1>1, <1>2, Zenon

\* A step that neither sends nor takes in anything.
LEMMA ContinuesUnsent ==
    ASSUME NEW x, NEW y, HandlerFits(y, logged), Lines(y) = Lines(x), Work(y) = Work(x),
           y.sent = x.sent, y.at # "unused"
    PROVE  Continues(x, y)
<1>1. y.sent \in Int
  <2>1. y \in HandlerSet
    BY DEF HandlerFits
  <2>2. y.sent \in 0..MaxRecords /\ MaxRecords \in Nat
    BY <2>1, HandlerFields
  <2> QED BY <2>2
<1>2. y.sent >= x.sent
  BY <1>1
<1> QED BY <1>2 DEF Continues

\* A handler that is only marked as replaced, with its socket closed.
LEMMA ClosedContinues ==
    ASSUME ForwardInv, NEW h \in Handlers, handler[h].at # "unused"
    PROVE  Continues(handler[h], Closed(h))
<1> DEFINE x == handler[h]
<1>1. x \in HandlerSet /\ HandlerFits(x, logged)
  BY ForwardKnown
<1>2. PICK k \in {"none", "open", "closed"} : Closed(h) = [x EXCEPT !.stop = TRUE, !.sock = k]
  <2>1. x.sock \in {"none", "open", "closed"}
    BY <1>1, HandlerFields
  <2> QED BY <2>1 DEF Closed
<1> HIDE DEF x
<1>3. ASSUME NEW b \in BOOLEAN, b
      PROVE  Continues(x, [x EXCEPT !.stop = b, !.sock = k])
  <2> DEFINE y == [x EXCEPT !.stop = b, !.sock = k]
  <2>1. y \in HandlerSet
    BY <1>1 DEF HandlerSet
  <2>2. /\ y.at = x.at /\ y.queue = x.queue /\ y.line = x.line /\ y.sent = x.sent
        /\ y.errors = x.errors /\ y.arrived = x.arrived /\ y.late = x.late /\ y.stop = b
    BY <1>1 DEF HandlerSet
  <2> HIDE DEF y
  <2>3. Lines(y) = Lines(x) /\ Work(y) = Work(x) /\ Held(y) = Held(x)
    BY <2>2 DEF Lines, Held, Work
  <2>4. LinesFit(y, logged)
    BY <1>1, <2>2, <2>3 DEF HandlerFits, LinesFit
  <2>5. WorkFits(y, logged)
    BY <1>1, <1>3, <2>2, <2>3 DEF HandlerFits, WorkFits, x
  <2>6. y.sent >= x.sent /\ y.at # "unused"
    BY <1>1, <2>2, HandlerFields DEF x
  <2>7. Continues(x, y)
    BY <2>1, <2>3, <2>4, <2>5, <2>6 DEF Continues, HandlerFits
  <2> QED BY <2>7 DEF y
<1> QED BY <1>2, <1>3 DEF x

\* A new handler has no records.
LEMMA FreshFits ==
    /\ Unused \in HandlerSet /\ Fresh \in HandlerSet
    /\ Lines(Unused) = {} /\ Lines(Fresh) = {} /\ Work(Unused) = 0 /\ Work(Fresh) = 0
    /\ Fresh.at = "check" /\ Fresh.queue = <<>> /\ Fresh.line = 0 /\ Fresh.arrived = <<>>
    /\ Fresh.sent = 0 /\ Fresh.errors = 0 /\ Fresh.late = 0
    /\ \A n \in Nat : HandlerFits(Unused, n) /\ HandlerFits(Fresh, n)
<1>1. MaxRecords \in Nat /\ MaxQueue \in Nat
  BY ForwardAssumption
<1>2. <<>> \in Seq(Numbers) /\ Len(<<>>) = 0 /\ ToSet(<<>>) = {} /\ Increasing(<<>>)
  BY EmptySeq DEF ToSet, Increasing
<1>3. Unused \in HandlerSet
  <2>1. FALSE \in BOOLEAN /\ 0 \in 0..MaxRecords /\ 0 \in Nat
    BY <1>1
  <2> QED BY <1>2, <2>1, Zenon DEF Unused, HandlerSet
<1>4. /\ Unused.at = "unused" /\ Unused.queue = <<>> /\ Unused.line = 0 /\ Unused.arrived = <<>>
      /\ Unused.sent = 0 /\ Unused.errors = 0 /\ Unused.late = 0
  BY DEF Unused
<1>5. Fresh \in HandlerSet
  BY <1>3 DEF Fresh, HandlerSet
<1>6. /\ Fresh.at = "check" /\ Fresh.queue = <<>> /\ Fresh.line = 0 /\ Fresh.arrived = <<>>
      /\ Fresh.sent = 0 /\ Fresh.errors = 0 /\ Fresh.late = 0
  BY <1>3, <1>4 DEF Fresh, HandlerSet
<1>7. ASSUME NEW x \in {Unused, Fresh}
      PROVE  Lines(x) = {} /\ Held(x) = {} /\ Work(x) = 0
             /\ \A n \in Nat : LinesFit(x, n) /\ WorkFits(x, n)
  <2>1. /\ x.queue = <<>> /\ x.line = 0 /\ x.arrived = <<>>
        /\ x.sent = 0 /\ x.errors = 0 /\ x.late = 0 /\ x.at \in {"unused", "check"}
        /\ x.at = "unused" => x = Unused
    BY <1>4, <1>6
  <2>2. Lines(x) = {} /\ Held(x) = {} /\ Work(x) = 0
    BY <1>2, <2>1 DEF Lines, Held, Work
  <2>3. \A n \in Nat : LinesFit(x, n)
    BY <1>2, <2>1, <2>2 DEF LinesFit, Below
  <2>4. \A n \in Nat : WorkFits(x, n)
    BY <1>1, <1>2, <2>1, <2>2 DEF WorkFits
  <2> QED BY <2>2, <2>3, <2>4
<1> QED BY <1>3, <1>5, <1>6, <1>7 DEF HandlerFits

\* More records may be logged meanwhile.
LEMMA FitsLater ==
    ASSUME NEW x, NEW n \in Nat, NEW m \in Nat, n <= m, HandlerFits(x, n)
    PROVE  HandlerFits(x, m)
<1>1. x \in HandlerSet /\ LinesFit(x, n) /\ WorkFits(x, n)
  BY DEF HandlerFits
<1>2. Work(x) \in Nat /\ Lines(x) \subseteq Nat
  BY <1>1, HandlerFields
<1>3. LinesFit(x, m)
  BY <1>1, <1>2 DEF LinesFit
<1>4. WorkFits(x, m)
  BY <1>1, <1>2 DEF WorkFits
<1> QED BY <1>1, <1>3, <1>4 DEF HandlerFits

\* No record is in the hands of two handlers when at most one of them gets a new one.
LEMMA StayApart ==
    ASSUME ForwardInv, NEW f,
           \A h \in Handlers : Lines(handler'[h]) \subseteq
              Lines(handler[h]) \union (IF h = f THEN {logged + 1} ELSE {})
    PROVE  \A g, h \in Handlers : g # h => Lines(handler'[g]) \intersect Lines(handler'[h]) = {}
<1>1. \A h \in Handlers : logged + 1 \notin Lines(handler[h])
  <2>1. SUFFICES ASSUME NEW h \in Handlers, logged + 1 \in Lines(handler[h]) PROVE FALSE
    OBVIOUS
  <2>2. logged + 1 <= logged
    BY <2>1, ForwardKnown DEF HandlerFits, LinesFit
  <2>3. logged \in Nat
    BY ForwardKnown, Zenon
  <2> QED BY <2>2, <2>3
<1> QED BY <1>1 DEF ForwardInv

\* The types of the next state.
LEMMA NextForwardType ==
    ASSUME handler' \in [Handlers -> HandlerSet], current' \in Handlers \cup {NoHandler},
           tester' \in [of : Handlers \cup {NoHandler}, said : {"nothing", "ok", "not ok"}],
           logged' \in 0..MaxRecords, \A h \in Handlers : HandlerFits(handler'[h], logged')
    PROVE  ForwardTypeOK'
<1>1. \A h \in Handlers : Len(handler'[h].queue) <= MaxQueue
  BY DEF HandlerFits, WorkFits
<1> QED BY <1>1, Zenon DEF ForwardTypeOK, HandlerSet, Numbers

\* A step of one handler, or of its worker.
LEMMA WorkerStep ==
    ASSUME ForwardInv, NEW h \in Handlers, NEW y, handler' = [handler EXCEPT ![h] = y],
           Continues(handler[h], y), UNCHANGED <<current, tester, logged>>
    PROVE  ForwardInv'
<1>1. /\ handler' \in [Handlers -> HandlerSet] /\ handler'[h] = y
      /\ \A g \in Handlers \ {h} : handler'[g] = handler[g]
  BY ForwardKnown DEF Continues, HandlerFits
<1>2. \A g \in Handlers : HandlerFits(handler'[g], logged')
  BY <1>1, ForwardKnown DEF Continues
<1>3. ForwardTypeOK'
  BY <1>1, <1>2, ForwardKnown, NextForwardType
<1>4. \A g, k \in Handlers : g # k => Lines(handler'[g]) \intersect Lines(handler'[k]) = {}
  <2>1. \A g \in Handlers : Lines(handler'[g]) \subseteq Lines(handler[g])
    BY <1>1 DEF Continues
  <2> QED BY <2>1 DEF ForwardInv
<1>5. current' # NoHandler => handler'[current'].at # "unused"
  BY <1>1, ForwardKnown DEF Continues, ForwardInv
<1>6. TestFits'
  <2>1. ASSUME tester.of = h
        PROVE  /\ h # current /\ handler[h].at # "unused" /\ Work(y) = 1
               /\ tester.said = "ok" => y.sent >= 1
    <3>1. /\ h # current /\ handler[h].at # "unused" /\ Work(handler[h]) = 1
          /\ tester.said = "ok" => handler[h].sent >= 1
      BY <2>1, ForwardKnown DEF ForwardInv, TestFits
    <3>2. Work(y) = 1 /\ y.sent >= handler[h].sent
      BY <3>1 DEF Continues
    <3>3. handler[h].sent \in Nat /\ y.sent \in Nat
      <4>1. handler[h] \in HandlerSet /\ y \in HandlerSet
        BY ForwardKnown DEF Continues, HandlerFits
      <4> QED BY <4>1, HandlerFields
    <3> QED BY <3>1, <3>2, <3>3
  <2>2. tester.of # NoHandler => tester.of \in Handlers
    BY ForwardKnown
  <2> QED BY <1>1, <2>1, <2>2 DEF ForwardInv, TestFits, Continues
<1> QED BY <1>2, <1>3, <1>4, <1>5, <1>6 DEF ForwardInv

\* The worker looks at the stop flag, or finds nothing in the queue.
LEMMA WorkerMoves ==
    ASSUME NEW n \in Nat, NEW x, HandlerFits(x, n), NEW p \in {"check", "get", "end"},
           x.at \in {"check", "get"}, p = "get" => ~x.stop
    PROVE  LET y == [x EXCEPT !.at = p]
           IN  /\ HandlerFits(y, n) /\ Lines(y) = Lines(x) /\ Work(y) = Work(x)
               /\ y.sent = x.sent /\ y.at = p
<1> DEFINE y == [x EXCEPT !.at = p]
<1>1. x \in HandlerSet /\ LinesFit(x, n) /\ WorkFits(x, n)
  BY DEF HandlerFits
<1>2. y \in HandlerSet
  BY <1>1 DEF HandlerSet
<1>3. /\ y.at = p /\ y.queue = x.queue /\ y.line = x.line /\ y.sent = x.sent
      /\ y.errors = x.errors /\ y.arrived = x.arrived /\ y.late = x.late /\ y.stop = x.stop
  BY <1>1 DEF HandlerSet
<1> HIDE DEF y
<1>4. Lines(y) = Lines(x) /\ Work(y) = Work(x) /\ Held(y) = Held(x)
  BY <1>3 DEF Lines, Held, Work
<1>5. LinesFit(y, n)
  BY <1>1, <1>3, <1>4 DEF LinesFit
<1>6. WorkFits(y, n)
  BY <1>1, <1>3, <1>4 DEF WorkFits
<1>7. HandlerFits(y, n) /\ Lines(y) = Lines(x) /\ Work(y) = Work(x) /\ y.sent = x.sent /\ y.at = p
  BY <1>2, <1>3, <1>4, <1>5, <1>6 DEF HandlerFits
<1> QED BY <1>7 DEF y

\* The worker looks at the stop flag.
LEMMA LookAtStopKeeps == ASSUME ForwardInv, NEW h \in Handlers, LookAtStop(h) PROVE ForwardInv'
<1>1. HandlerFits(handler[h], logged) /\ logged \in Nat
  BY ForwardKnown
<1>2. PICK p \in {"end", "get"} :
        handler' = [handler EXCEPT ![h].at = p] /\ (p = "get" => ~handler[h].stop)
  BY DEF LookAtStop
<1> DEFINE y == [handler[h] EXCEPT !.at = p]
<1>3. handler' = [handler EXCEPT ![h] = y]
  BY <1>2
<1>4. handler[h].at = "check" /\ UNCHANGED <<current, tester, logged>>
  BY DEF LookAtStop
<1>5. /\ HandlerFits(y, logged) /\ Lines(y) = Lines(handler[h]) /\ Work(y) = Work(handler[h])
      /\ y.sent = handler[h].sent /\ y.at = p
  <2>1. p \in {"check", "get", "end"} /\ handler[h].at \in {"check", "get"}
    BY <1>2, <1>4
  <2> QED BY <1>1, <1>2, <2>1, WorkerMoves, Zenon
<1> HIDE DEF y
<1>6. Continues(handler[h], y)
  <2>1. y.at # "unused"
    BY <1>5
  <2> QED BY <1>5, <2>1, ContinuesUnsent
<1> QED BY <1>3, <1>4, <1>6, WorkerStep

\* The worker takes the oldest line.
LEMMA LineTaken ==
    ASSUME NEW n \in Nat, NEW x, HandlerFits(x, n), NEW p \in {"connect", "send"}, x.at = "get",
           x.queue # <<>>
    PROVE  LET y == [x EXCEPT !.at = p, !.line = Head(x.queue), !.queue = Tail(x.queue)]
           IN  /\ HandlerFits(y, n) /\ Lines(y) = Lines(x) /\ Work(y) = Work(x)
               /\ y.sent = x.sent /\ y.at = p
<1> DEFINE y == [x EXCEPT !.at = p, !.line = Head(x.queue), !.queue = Tail(x.queue)]
<1>1. x \in HandlerSet /\ LinesFit(x, n) /\ WorkFits(x, n)
  BY DEF HandlerFits
<1>2. /\ Numbers \in SUBSET Nat /\ x.queue \in Seq(Numbers) /\ x.sent \in Nat /\ x.errors \in Nat
      /\ Len(x.queue) \in Nat /\ MaxRecords \in Nat
  BY <1>1, HandlerFields
<1>3. /\ Head(x.queue) \in Numbers /\ Tail(x.queue) \in Seq(Numbers)
      /\ Len(Tail(x.queue)) = Len(x.queue) - 1
      /\ ToSet(x.queue) = {Head(x.queue)} \union ToSet(Tail(x.queue))
      /\ Increasing(Tail(x.queue)) /\ Below({Head(x.queue)}, ToSet(Tail(x.queue)))
  BY <1>1, <1>2, TailOrder DEF LinesFit
<1>4. Head(x.queue) \in 0..MaxRecords /\ Head(x.queue) # 0
  BY <1>2, <1>3 DEF Numbers
<1>5. y \in HandlerSet
  BY <1>1, <1>3, <1>4 DEF HandlerSet
<1>6. /\ y.at = p /\ y.queue = Tail(x.queue) /\ y.line = Head(x.queue) /\ y.sent = x.sent
      /\ y.errors = x.errors /\ y.arrived = x.arrived /\ y.late = x.late /\ y.stop = x.stop
  BY <1>1 DEF HandlerSet
<1> HIDE DEF y
<1>7. x.line = 0 /\ Held(x) = {} /\ x.late = 0
  BY <1>1 DEF WorkFits, Held
<1>8. Lines(y) = Lines(x) /\ Held(y) = {Head(x.queue)}
  BY <1>3, <1>4, <1>6, <1>7 DEF Lines, Held
<1>9. Work(y) = Work(x)
  BY <1>2, <1>3, <1>4, <1>6, <1>7 DEF Work
<1>10. LinesFit(y, n)
  <2>1. Below(ToSet(x.arrived), {Head(x.queue)} \union ToSet(Tail(x.queue)))
    BY <1>1, <1>3, <1>7 DEF LinesFit
  <2> QED BY <1>1, <1>3, <1>6, <1>8, <2>1 DEF LinesFit
<1>11. WorkFits(y, n)
  <2>1. Len(y.queue) <= MaxQueue
    BY <1>1, <1>2, <1>3, <1>6, ForwardAssumption DEF WorkFits
  <2> QED BY <1>1, <1>4, <1>6, <1>7, <1>9, <2>1 DEF WorkFits
<1>12. HandlerFits(y, n) /\ Lines(y) = Lines(x) /\ Work(y) = Work(x) /\ y.sent = x.sent /\ y.at = p
  BY <1>5, <1>6, <1>8, <1>9, <1>10, <1>11 DEF HandlerFits
<1> QED BY <1>12 DEF y

\* The worker takes a line, or finds none.
LEMMA GetKeeps == ASSUME ForwardInv, NEW h \in Handlers, Get(h) PROVE ForwardInv'
<1> DEFINE x == handler[h]
<1>1. HandlerFits(x, logged) /\ logged \in Nat /\ handler \in [Handlers -> HandlerSet]
  BY ForwardKnown
<1>2. x.at = "get" /\ UNCHANGED <<current, tester, logged>>
  BY DEF Get
<1> DEFINE p == IF x.sock = "none" THEN "connect" ELSE "send"
           y == IF x.queue = <<>> THEN [x EXCEPT !.at = "check"]
                ELSE [x EXCEPT !.at = p, !.line = Head(x.queue), !.queue = Tail(x.queue)]
<1>3. handler' = [handler EXCEPT ![h] = y]
  BY <1>1 DEF Get
<1>4. /\ HandlerFits(y, logged) /\ Lines(y) = Lines(x) /\ Work(y) = Work(x)
      /\ y.sent = x.sent /\ y.at # "unused"
  <2>1. CASE x.queue = <<>>
    <3>1. y = [x EXCEPT !.at = "check"]
      BY <2>1
    <3> HIDE DEF y, p
    <3> QED BY <1>1, <1>2, <3>1, WorkerMoves
  <2>2. CASE x.queue # <<>>
    <3>1. /\ y = [x EXCEPT !.at = p, !.line = Head(x.queue), !.queue = Tail(x.queue)]
          /\ p \in {"connect", "send"}
      BY <2>2
    <3> HIDE DEF y, p, x
    <3>2. p # "unused"
      BY <3>1
    <3>3. LET z == [x EXCEPT !.at = p, !.line = Head(x.queue), !.queue = Tail(x.queue)]
          IN  /\ HandlerFits(z, logged) /\ Lines(z) = Lines(x) /\ Work(z) = Work(x)
              /\ z.sent = x.sent /\ z.at = p
      BY <1>1, <1>2, <2>2, <3>1, LineTaken
    <3> QED BY <3>1, <3>2, <3>3, Zenon
  <2> QED BY <2>1, <2>2
<1> HIDE DEF y
<1>5. Continues(x, y)
  BY <1>4, ContinuesUnsent
<1> QED BY <1>2, <1>3, <1>5, WorkerStep

\* A line leaves the worker's hands: given up, lost on the way, or arrived.
LEMMA LineLeaves ==
    ASSUME NEW n \in 0..MaxRecords, NEW x, HandlerFits(x, n), x.at \in {"connect", "send"},
           NEW y \in HandlerSet, y.at = "check", y.line = 0, y.queue = x.queue, y.stop = x.stop,
           y.sent + y.errors = x.sent + x.errors + 1,
           y.arrived \in {x.arrived, Append(x.arrived, x.line)},
           y.late <= 1, y.late # 0 => y.stop
    PROVE  HandlerFits(y, n) /\ Lines(y) \subseteq Lines(x) /\ Work(y) = Work(x)
<1>1. x \in HandlerSet /\ LinesFit(x, n) /\ WorkFits(x, n)
  BY DEF HandlerFits
<1>2. /\ Numbers \in SUBSET Nat /\ x.queue \in Seq(Numbers) /\ x.sent \in Nat /\ x.errors \in Nat
      /\ Len(x.queue) \in Nat /\ x.arrived \in Seq(Numbers) /\ x.line \in 0..MaxRecords
      /\ MaxRecords \in Nat
  BY <1>1, HandlerFields
<1>3. x.line # 0 /\ x.line \in Numbers /\ Held(x) = {x.line}
  BY <1>1, <1>2 DEF WorkFits, Held, Numbers
<1>4. /\ ToSet(Append(x.arrived, x.line)) = ToSet(x.arrived) \union {x.line}
      /\ Increasing(Append(x.arrived, x.line))
  <2>1. Increasing(x.arrived) /\ Below(ToSet(x.arrived), {x.line})
    BY <1>1, <1>3 DEF LinesFit, Below
  <2> QED BY <1>2, <1>3, <2>1, AppendOrder
<1>5. Increasing(y.arrived) /\ ToSet(y.arrived) \subseteq ToSet(x.arrived) \union {x.line}
  BY <1>1, <1>4 DEF LinesFit
<1>6. Held(y) = {} /\ Lines(y) = ToSet(y.arrived) \union ToSet(x.queue)
  BY DEF Held, Lines
<1>7. Lines(y) \subseteq Lines(x)
  BY <1>3, <1>5, <1>6 DEF Lines
<1>8. Work(y) = Work(x)
  <2>1. Work(y) = y.sent + y.errors + 0 + Len(x.queue)
    BY DEF Work
  <2>2. Work(x) = x.sent + x.errors + 1 + Len(x.queue)
    BY <1>3 DEF Work
  <2>3. y.sent + y.errors + 0 = x.sent + x.errors + 1
    BY <1>2
  <2> QED BY <2>1, <2>2, <2>3, Zenon
<1>9. LinesFit(y, n)
  <2>1. Below(ToSet(x.arrived) \union {x.line}, ToSet(x.queue))
    BY <1>1, <1>3 DEF LinesFit, Below
  <2>2. Below(ToSet(y.arrived), ToSet(x.queue))
    BY <1>5, <2>1 DEF Below
  <2>3. \A r \in Lines(y) : r <= n
    BY <1>1, <1>7 DEF LinesFit
  <2>4. Increasing(x.queue)
    BY <1>1 DEF LinesFit
  <2> QED BY <1>5, <1>6, <2>2, <2>3, <2>4 DEF LinesFit, Below
<1>10. WorkFits(y, n)
  BY <1>1, <1>8 DEF WorkFits
<1> QED BY <1>7, <1>8, <1>9, <1>10 DEF HandlerFits

\* A record in hand leaves room to count it.
LEMMA RoomLeft ==
    ASSUME NEW a \in Nat, NEW b \in Nat, NEW l \in Nat, NEW m \in Nat, NEW n \in 0..m,
           a + b + 1 + l <= n
    PROVE  a + 1 \in 0..m /\ b + 1 \in 0..m
OBVIOUS

\* A failed connection or a failed send.
LEMMA GiveUpKeeps ==
    ASSUME ForwardInv, NEW h \in Handlers, handler[h].at \in {"connect", "send"}, GiveUp(h),
           UNCHANGED <<current, tester, logged>>
    PROVE  ForwardInv'
<1> DEFINE x == handler[h]
           e == x.errors + 1
           y == [x EXCEPT !.at = "check", !.line = 0, !.sock = "none", !.errors = e]
<1>1. /\ HandlerFits(x, logged) /\ logged \in 0..MaxRecords
      /\ handler \in [Handlers -> HandlerSet] /\ MaxRecords \in Nat /\ logged \in Nat
  BY ForwardKnown, Zenon
<1>2. x \in HandlerSet /\ WorkFits(x, logged)
  BY <1>1 DEF HandlerFits
<1>3. /\ x.sent \in Nat /\ x.errors \in Nat /\ Len(x.queue) \in Nat /\ x.late \in Nat
  BY <1>2, HandlerFields
<1>4. x.line # 0 /\ x.late = 0
  BY <1>2 DEF WorkFits
<1>5. e = x.errors + 1 /\ e \in 0..MaxRecords
  <2>1. x.sent + x.errors + 1 + Len(x.queue) <= logged
    BY <1>2, <1>4 DEF Work, WorkFits
  <2> HIDE DEF x
  <2> QED BY <1>1, <1>3, <2>1, RoomLeft, Zenon
<1>6. handler' = [handler EXCEPT ![h] = y]
  BY DEF GiveUp
<1> HIDE DEF x, e
<1>7. y \in HandlerSet
  <2>1. x \in HandlerSet /\ 0 \in 0..MaxRecords
    BY <1>1, <1>2
  <2> QED BY <1>5, <2>1, Zenon DEF HandlerSet
<1>8. /\ y.at = "check" /\ y.line = 0 /\ y.sent = x.sent /\ y.errors = e
      /\ y.arrived = x.arrived /\ y.late = x.late /\ y.queue = x.queue /\ y.stop = x.stop
  BY <1>2 DEF HandlerSet
<1>9. x.at \in {"connect", "send"}
  BY DEF x
<1> HIDE DEF y
<1>10. x.sent + e = x.sent + x.errors + 1 /\ x.sent >= x.sent /\ e \in Nat
  BY <1>3, <1>5
<1>11. HandlerFits(y, logged) /\ Lines(y) \subseteq Lines(x) /\ Work(y) = Work(x)
  <2>1. /\ y.sent + y.errors = x.sent + x.errors + 1 /\ y.late <= 1 /\ y.late = 0
        /\ y.arrived \in {x.arrived, Append(x.arrived, x.line)}
    BY <1>4, <1>8, <1>10
  <2> QED BY <1>1, <1>7, <1>8, <1>9, <2>1, LineLeaves
<1>12. Continues(x, y)
  BY <1>8, <1>10, <1>11 DEF Continues
<1> QED BY <1>6, <1>12, WorkerStep DEF x

\* A send fails.
LEMMA SendFailsKeeps == ASSUME ForwardInv, NEW h \in Handlers, SendFails(h) PROVE ForwardInv'
BY GiveUpKeeps DEF SendFails

\* The worker has its connection.
LEMMA Connected ==
    ASSUME NEW n \in Nat, NEW x, HandlerFits(x, n), x.at = "connect"
    PROVE  LET y == [x EXCEPT !.at = "send", !.sock = "open"]
           IN  /\ HandlerFits(y, n) /\ Lines(y) = Lines(x) /\ Work(y) = Work(x)
               /\ y.sent = x.sent /\ y.at = "send"
<1> DEFINE y == [x EXCEPT !.at = "send", !.sock = "open"]
<1>1. x \in HandlerSet /\ LinesFit(x, n) /\ WorkFits(x, n)
  BY DEF HandlerFits
<1>2. y \in HandlerSet
  BY <1>1 DEF HandlerSet
<1>3. /\ y.at = "send" /\ y.queue = x.queue /\ y.line = x.line /\ y.sent = x.sent
      /\ y.errors = x.errors /\ y.arrived = x.arrived /\ y.late = x.late /\ y.stop = x.stop
  BY <1>1 DEF HandlerSet
<1> HIDE DEF y
<1>4. Lines(y) = Lines(x) /\ Work(y) = Work(x) /\ Held(y) = Held(x)
  BY <1>3 DEF Lines, Held, Work
<1>5. LinesFit(y, n)
  BY <1>1, <1>3, <1>4 DEF LinesFit
<1>6. WorkFits(y, n)
  BY <1>1, <1>3, <1>4 DEF WorkFits
<1>7. HandlerFits(y, n) /\ Lines(y) = Lines(x) /\ Work(y) = Work(x) /\ y.sent = x.sent /\ y.at = "send"
  BY <1>2, <1>3, <1>4, <1>5, <1>6 DEF HandlerFits
<1> QED BY <1>7 DEF y

\* The worker connects, or gives the line up.
LEMMA ConnectKeeps == ASSUME ForwardInv, NEW h \in Handlers, Connect(h) PROVE ForwardInv'
<1>1. handler[h].at = "connect" /\ UNCHANGED <<current, tester, logged>>
  BY DEF Connect
<1>2. CASE GiveUp(h)
  BY <1>1, <1>2, GiveUpKeeps
<1>3. CASE handler' = [handler EXCEPT ![h] = [@ EXCEPT !.at = "send", !.sock = "open"]]
  <2> DEFINE y == [handler[h] EXCEPT !.at = "send", !.sock = "open"]
  <2>1. handler' = [handler EXCEPT ![h] = y]
    BY <1>3
  <2>2. HandlerFits(handler[h], logged) /\ logged \in Nat
    BY ForwardKnown
  <2>3. /\ HandlerFits(y, logged) /\ Lines(y) = Lines(handler[h]) /\ Work(y) = Work(handler[h])
        /\ y.sent = handler[h].sent /\ y.at = "send"
    BY <1>1, <2>2, Connected
  <2> HIDE DEF y
  <2>4. Continues(handler[h], y)
    <3>1. y.at # "unused"
      BY <2>3
    <3> QED BY <2>3, <3>1, ContinuesUnsent
  <2> QED BY <1>1, <2>1, <2>4, WorkerStep
<1> QED BY <1>2, <1>3 DEF Connect

\* The line is handed to the network.
LEMMA SendLineKeeps == ASSUME ForwardInv, NEW h \in Handlers, SendLine(h) PROVE ForwardInv'
<1> DEFINE x == handler[h]
<1>1. /\ HandlerFits(x, logged) /\ logged \in 0..MaxRecords
      /\ handler \in [Handlers -> HandlerSet] /\ MaxRecords \in Nat /\ logged \in Nat
  BY ForwardKnown, Zenon
<1>2. x \in HandlerSet /\ WorkFits(x, logged)
  BY <1>1 DEF HandlerFits
<1>3. /\ x.sent \in Nat /\ x.errors \in Nat /\ Len(x.queue) \in Nat /\ x.late \in Nat
      /\ x.sock \in {"none", "open", "closed"} /\ x.arrived \in Seq(Numbers) /\ x.line \in 0..MaxRecords
  BY <1>2, HandlerFields
<1>4. x.at = "send" /\ UNCHANGED <<current, tester, logged>>
  BY DEF SendLine
<1>5. x.line # 0 /\ x.late = 0 /\ x.line \in Numbers
  <2>1. x.line # 0 /\ x.late = 0
    BY <1>2, <1>4 DEF WorkFits
  <2> QED BY <1>1, <1>3, <2>1 DEF Numbers
<1>6. x.sent + 1 \in 0..MaxRecords
  <2>1. x.sent + x.errors + 1 + Len(x.queue) <= logged
    BY <1>2, <1>5 DEF Work, WorkFits
  <2> HIDE DEF x
  <2> QED BY <1>1, <1>3, <2>1, RoomLeft, Zenon
<1>7. PICK arrives \in BOOLEAN :
        handler' = [handler EXCEPT ![h] =
          [@ EXCEPT !.at = "check", !.line = 0, !.sent = handler[h].sent + 1,
             !.arrived = IF arrives THEN Append(handler[h].arrived, handler[h].line)
                         ELSE handler[h].arrived,
             !.late = handler[h].late + (IF arrives /\ handler[h].stop THEN 1 ELSE 0)]]
  BY DEF SendLine
<1> DEFINE q == IF arrives THEN Append(x.arrived, x.line) ELSE x.arrived
           l == x.late + (IF arrives /\ x.stop THEN 1 ELSE 0)
           s == x.sent + 1
           y == [x EXCEPT !.at = "check", !.line = 0, !.sent = s, !.arrived = q, !.late = l]
<1>8. handler' = [handler EXCEPT ![h] = y]
  BY <1>7
<1>9. /\ q \in {x.arrived, Append(x.arrived, x.line)}
      /\ l = 0 \/ (l = 1 /\ x.stop)
  BY <1>5
<1>10. q \in Seq(Numbers) /\ l \in Nat
  <2>1. Append(x.arrived, x.line) \in Seq(Numbers)
    BY <1>3, <1>5, AppendProperties
  <2>2. l \in Nat
    BY <1>9
  <2> QED BY <1>3, <1>9, <2>1, <2>2
<1>s. s = x.sent + 1 /\ s \in 0..MaxRecords
  BY <1>6
<1> HIDE DEF x, q, l, s
<1>11. y \in HandlerSet
  <2>1. x \in HandlerSet /\ 0 \in 0..MaxRecords
    BY <1>1, <1>2
  <2> QED BY <1>s, <1>10, <2>1, Zenon DEF HandlerSet
<1>12. /\ y.at = "check" /\ y.line = 0 /\ y.sent = s /\ y.errors = x.errors
       /\ y.arrived = q /\ y.late = l /\ y.queue = x.queue /\ y.stop = x.stop
  BY <1>2 DEF HandlerSet
<1> HIDE DEF y
<1>13. /\ s + x.errors = x.sent + x.errors + 1 /\ s >= x.sent
       /\ s \in Nat
  BY <1>3, <1>s, SMTT(20)
<1>14. x.at \in {"connect", "send"} /\ y.sock \in {"none", "open", "closed"}
  BY <1>4, <1>11, HandlerFields
<1>15. HandlerFits(y, logged) /\ Lines(y) \subseteq Lines(x) /\ Work(y) = Work(x)
  <2>1. y.sent + y.errors = x.sent + x.errors + 1
    BY <1>12, <1>13
  <2>2. y.arrived \in {x.arrived, Append(x.arrived, x.line)}
    BY <1>9, <1>12
  <2>3. y.late <= 1 /\ (y.late # 0 => y.stop)
    BY <1>9, <1>12
  <2> QED BY <1>1, <1>11, <1>12, <1>14, <2>1, <2>2, <2>3, LineLeaves
<1>16. Continues(x, y)
  BY <1>12, <1>13, <1>15 DEF Continues
<1> QED BY <1>4, <1>8, <1>16, WorkerStep DEF x

\* A new record is given to one handler.
LEMMA RecordGiven ==
    ASSUME ForwardInv, logged < MaxRecords, logged' = logged + 1,
           NEW h \in Handlers, NEW y, handler' = [handler EXCEPT ![h] = y],
           HandlerFits(y, logged + 1), Lines(y) \subseteq Lines(handler[h]) \union {logged + 1}
    PROVE  /\ handler' \in [Handlers -> HandlerSet] /\ logged' \in 0..MaxRecords
           /\ handler'[h] = y /\ \A g \in Handlers \ {h} : handler'[g] = handler[g]
           /\ \A g \in Handlers : HandlerFits(handler'[g], logged')
           /\ \A g, k \in Handlers : g # k => Lines(handler'[g]) \intersect Lines(handler'[k]) = {}
<1>1. /\ handler \in [Handlers -> HandlerSet] /\ logged \in Nat /\ MaxRecords \in Nat
      /\ \A g \in Handlers : HandlerFits(handler[g], logged)
  BY ForwardKnown
<1>2. y \in HandlerSet
  BY DEF HandlerFits
<1>3. /\ handler' \in [Handlers -> HandlerSet] /\ handler'[h] = y
      /\ \A g \in Handlers \ {h} : handler'[g] = handler[g]
  BY <1>1, <1>2
<1>4. logged' \in 0..MaxRecords /\ logged + 1 \in Nat /\ logged <= logged + 1
  BY <1>1
<1>5. \A g \in Handlers : HandlerFits(handler'[g], logged')
  <2>1. \A g \in Handlers : HandlerFits(handler[g], logged + 1)
    BY <1>1, <1>4, FitsLater
  <2> QED BY <1>3, <2>1
<1>6. \A g, k \in Handlers : g # k => Lines(handler'[g]) \intersect Lines(handler'[k]) = {}
  <2>1. \A g \in Handlers : Lines(handler'[g]) \subseteq
           Lines(handler[g]) \union (IF g = h THEN {logged + 1} ELSE {})
    BY <1>3
  <2> QED BY <2>1, StayApart
<1> QED BY <1>3, <1>4, <1>5, <1>6

\* A record that is queued is newer than all that the handler has.
LEMMA LineQueued ==
    ASSUME NEW n \in Nat, NEW x, HandlerFits(x, n), n < MaxRecords, x.at # "unused",
           Len(x.queue) < MaxQueue
    PROVE  LET y == [x EXCEPT !.queue = Append(x.queue, n + 1)]
           IN  /\ HandlerFits(y, n + 1) /\ Lines(y) = Lines(x) \union {n + 1}
               /\ y.sent = x.sent /\ y.at = x.at
<1> DEFINE q == Append(x.queue, n + 1)
           y == [x EXCEPT !.queue = q]
<1>1. x \in HandlerSet /\ LinesFit(x, n) /\ WorkFits(x, n)
  BY DEF HandlerFits
<1>2. /\ Numbers \in SUBSET Nat /\ x.queue \in Seq(Numbers) /\ x.sent \in Nat /\ x.errors \in Nat
      /\ Len(x.queue) \in Nat /\ MaxRecords \in Nat /\ Lines(x) \subseteq Numbers /\ Work(x) \in Nat
  BY <1>1, HandlerFields
<1>3. n + 1 \in Numbers
  BY <1>2 DEF Numbers
<1>4. \A r \in Lines(x) : r < n + 1 /\ r <= n + 1
  <2>1. SUFFICES ASSUME NEW r \in Lines(x) PROVE r < n + 1 /\ r <= n + 1
    OBVIOUS
  <2>2. r \in Nat /\ r <= n
    BY <1>1, <1>2 DEF LinesFit
  <2> QED BY <2>2
<1>5. q \in Seq(Numbers) /\ Len(q) = Len(x.queue) + 1
  BY <1>2, <1>3, AppendProperties
<1>6. ToSet(q) = ToSet(x.queue) \union {n + 1} /\ Increasing(q)
  <2>1. Increasing(x.queue) /\ Below(ToSet(x.queue), {n + 1})
    BY <1>1, <1>4 DEF LinesFit, Below, Lines
  <2> QED BY <1>2, <1>3, <2>1, AppendOrder
<1> HIDE DEF q
<1>7. y \in HandlerSet
  BY <1>1, <1>5 DEF HandlerSet
<1>8. /\ y.at = x.at /\ y.queue = q /\ y.line = x.line /\ y.sent = x.sent
      /\ y.errors = x.errors /\ y.arrived = x.arrived /\ y.late = x.late /\ y.stop = x.stop
  BY <1>1 DEF HandlerSet
<1> HIDE DEF y
<1>9. Held(y) = Held(x) /\ Lines(y) = Lines(x) \union {n + 1}
  BY <1>6, <1>8 DEF Held, Lines
<1>10. Work(y) = Work(x) + 1
  <2>1. PICK i \in {0, 1} : i = IF x.line = 0 THEN 0 ELSE 1
    OBVIOUS
  <2>2. Work(y) = x.sent + x.errors + i + (Len(x.queue) + 1)
    BY <1>5, <1>8, <2>1 DEF Work
  <2>3. Work(x) = x.sent + x.errors + i + Len(x.queue)
    BY <2>1 DEF Work
  <2> QED BY <1>2, <2>2, <2>3
<1>11. LinesFit(y, n + 1)
  <2>1. Below(ToSet(x.arrived), Held(x) \union ToSet(x.queue) \union {n + 1})
    BY <1>1, <1>4 DEF LinesFit, Below, Lines
  <2>2. Below(Held(x), ToSet(x.queue) \union {n + 1})
    BY <1>1, <1>4 DEF LinesFit, Below, Lines
  <2>3. \A r \in Lines(y) : r <= n + 1
    <3>1. n + 1 <= n + 1
      OBVIOUS
    <3> QED BY <1>4, <1>9, <3>1
  <2>4. /\ Below(ToSet(y.arrived), Held(y) \union ToSet(y.queue))
        /\ Below(Held(y), ToSet(y.queue))
    BY <1>6, <1>8, <1>9, <2>1, <2>2 DEF Below
  <2> QED BY <1>1, <1>6, <1>8, <2>3, <2>4 DEF LinesFit
<1>12. WorkFits(y, n + 1)
  <2>1. Len(y.queue) <= MaxQueue
    BY <1>2, <1>5, <1>8, ForwardAssumption
  <2>2. Work(y) <= n + 1
    BY <1>1, <1>2, <1>10 DEF WorkFits
  <2> QED BY <1>1, <1>8, <2>1, <2>2 DEF WorkFits
<1>13. HandlerFits(y, n + 1) /\ Lines(y) = Lines(x) \union {n + 1} /\ y.sent = x.sent /\ y.at = x.at
  BY <1>7, <1>8, <1>9, <1>11, <1>12 DEF HandlerFits
<1> QED BY <1>13 DEF y, q

\* A record is logged.
LEMMA LogKeeps == ASSUME ForwardInv, Log PROVE ForwardInv'
<1> DEFINE x == handler[current]
           q == Queued(current, logged + 1)
           y == [x EXCEPT !.queue = q]
<1>1. /\ current \in Handlers /\ logged < MaxRecords /\ logged' = logged + 1
      /\ handler' = [handler EXCEPT ![current] = y] /\ current' = current /\ tester' = tester
  <2>1. current \in Handlers \cup {NoHandler}
    BY ForwardKnown
  <2> QED BY <2>1 DEF Log
<1>2. HandlerFits(x, logged) /\ x \in HandlerSet /\ logged \in Nat /\ MaxRecords \in Nat
  BY <1>1, ForwardKnown DEF HandlerFits
<1>3. x.at # "unused"
  BY <1>1, ForwardKnown DEF ForwardInv
<1>4. /\ HandlerFits(y, logged + 1) /\ Lines(y) \subseteq Lines(x) \union {logged + 1}
      /\ y.at # "unused"
  <2>1. CASE Len(x.queue) < MaxQueue
    <3>1. y = [x EXCEPT !.queue = Append(x.queue, logged + 1)]
      BY <2>1 DEF Queued
    <3> HIDE DEF y, q, x
    <3>2. LET z == [x EXCEPT !.queue = Append(x.queue, logged + 1)]
          IN  /\ HandlerFits(z, logged + 1) /\ Lines(z) = Lines(x) \union {logged + 1}
              /\ z.sent = x.sent /\ z.at = x.at
      BY <1>1, <1>2, <1>3, <2>1, LineQueued
    <3> QED BY <1>3, <3>1, <3>2
  <2>2. CASE ~(Len(x.queue) < MaxQueue)
    <3>1. y = x
      <4>1. q = x.queue
        BY <2>2 DEF Queued
      <4> HIDE DEF q, x
      <4> QED BY <1>2, <4>1 DEF HandlerSet
    <3>2. HandlerFits(x, logged + 1)
      <4>1. logged + 1 \in Nat /\ logged <= logged + 1
        BY <1>2
      <4> QED BY <1>2, <4>1, FitsLater
    <3> QED BY <1>3, <3>1, <3>2
  <2> QED BY <2>1, <2>2
<1> HIDE DEF y
<1>5. /\ handler' \in [Handlers -> HandlerSet] /\ logged' \in 0..MaxRecords
      /\ handler'[current] = y /\ \A g \in Handlers \ {current} : handler'[g] = handler[g]
      /\ \A g \in Handlers : HandlerFits(handler'[g], logged')
      /\ \A g, k \in Handlers : g # k => Lines(handler'[g]) \intersect Lines(handler'[k]) = {}
  BY <1>1, <1>4, RecordGiven
<1>6. ForwardTypeOK'
  BY <1>1, <1>5, ForwardKnown, NextForwardType
<1>7. current' # NoHandler => handler'[current'].at # "unused"
  BY <1>1, <1>4, <1>5
<1>8. TestFits'
  <2>1. tester.of # NoHandler => tester.of \in Handlers \ {current}
    BY ForwardKnown DEF ForwardInv, TestFits
  <2> QED BY <1>1, <1>5, <2>1 DEF ForwardInv, TestFits
<1> QED BY <1>5, <1>6, <1>7, <1>8 DEF ForwardInv

\* A handler that is not in use has no records.
LEMMA UnusedIsUnused ==
    ASSUME ForwardInv, NEW h \in Handlers, handler[h].at = "unused"
    PROVE  handler[h] = Unused /\ Lines(handler[h]) = {} /\ h # current /\ h # tester.of
<1>1. HandlerFits(handler[h], logged)
  BY ForwardKnown
<1>2. handler[h] = Unused
  BY <1>1 DEF HandlerFits, WorkFits
<1>3. h # current /\ h # tester.of
  BY ForwardKnown DEF ForwardInv, TestFits
<1> QED BY <1>2, <1>3, FreshFits

\* The handler of a test starts with the line of the test.
LEMMA TestLineQueued ==
    ASSUME NEW n \in Nat, n < MaxRecords
    PROVE  LET y == [Fresh EXCEPT !.queue = <<n + 1>>]
           IN  /\ HandlerFits(y, n + 1) /\ Lines(y) = {n + 1} /\ Work(y) = 1 /\ y.at # "unused"
<1> DEFINE q == Append(<<>>, n + 1)
           y == [Fresh EXCEPT !.queue = Append(Fresh.queue, n + 1)]
<1>1. HandlerFits(Fresh, n) /\ Fresh.queue = <<>> /\ Lines(Fresh) = {} /\ Fresh.at # "unused"
  BY FreshFits
<1>2. Len(Fresh.queue) < MaxQueue
  BY <1>1, ForwardAssumption
<1>3. /\ HandlerFits(y, n + 1) /\ Lines(y) = Lines(Fresh) \union {n + 1} /\ y.at = Fresh.at
  BY <1>1, <1>2, LineQueued
<1>4. /\ y.sent = 0 /\ y.errors = 0 /\ y.line = 0 /\ y.queue = q
  BY FreshFits DEF HandlerSet
<1>5. q = <<n + 1>> /\ Len(q) = 1
  OBVIOUS
<1>6. y = [Fresh EXCEPT !.queue = <<n + 1>>]
  BY <1>1, <1>5
<1> HIDE DEF y, q
<1>7. Work(y) = 1
  BY <1>4, <1>5 DEF Work
<1> QED BY <1>1, <1>3, <1>6, <1>7

\* A test is started.
LEMMA StartTestKeeps == ASSUME ForwardInv, NEW h \in Handlers, StartTest(h) PROVE ForwardInv'
<1> DEFINE y == [Fresh EXCEPT !.queue = <<logged + 1>>]
<1>1. /\ tester.of = NoHandler /\ handler[h].at = "unused" /\ logged < MaxRecords
      /\ handler' = [handler EXCEPT ![h] = y] /\ tester' = [of |-> h, said |-> "nothing"]
      /\ logged' = logged + 1 /\ current' = current
  BY DEF StartTest
<1>2. Lines(handler[h]) = {} /\ h # current
  BY <1>1, UnusedIsUnused
<1>3. HandlerFits(y, logged + 1) /\ Lines(y) = {logged + 1} /\ Work(y) = 1 /\ y.at # "unused"
  BY <1>1, ForwardKnown, TestLineQueued
<1> HIDE DEF y
<1>4. /\ handler' \in [Handlers -> HandlerSet] /\ logged' \in 0..MaxRecords
      /\ handler'[h] = y /\ \A g \in Handlers \ {h} : handler'[g] = handler[g]
      /\ \A g \in Handlers : HandlerFits(handler'[g], logged')
      /\ \A g, k \in Handlers : g # k => Lines(handler'[g]) \intersect Lines(handler'[k]) = {}
  <2>1. Lines(y) \subseteq Lines(handler[h]) \union {logged + 1}
    BY <1>3
  <2> QED BY <1>1, <1>3, <2>1, RecordGiven
<1>5. ForwardTypeOK'
  BY <1>1, <1>4, ForwardKnown, NextForwardType
<1>6. current' # NoHandler => handler'[current'].at # "unused"
  BY <1>1, <1>2, <1>4, ForwardKnown DEF ForwardInv
<1>7. TestFits'
  <2>1. tester'.of = h /\ tester'.said = "nothing" /\ h # NoHandler
    BY <1>1, ForwardKnown
  <2> QED BY <1>1, <1>2, <1>3, <1>4, <2>1 DEF TestFits
<1> QED BY <1>4, <1>5, <1>6, <1>7 DEF ForwardInv

\* The test looks, and closes its handler.
LEMMA ReportTestKeeps == ASSUME ForwardInv, ReportTest PROVE ForwardInv'
<1> DEFINE h == tester.of
           x == handler[h]
           y == Closed(h)
<1>1. /\ h \in Handlers /\ tester.said = "nothing" /\ current' = current /\ logged' = logged
      /\ tester' = [tester EXCEPT !.said = IF Delivered(h) THEN "ok" ELSE "not ok"]
      /\ handler' = [handler EXCEPT ![h] = y]
  BY ForwardKnown DEF ReportTest
<1>2. h # current /\ x.at # "unused" /\ Work(x) = 1
  BY <1>1, ForwardKnown DEF ForwardInv, TestFits
<1>3. Continues(x, y)
  BY <1>1, <1>2, ClosedContinues
<1>4. /\ tester' \in [of : Handlers \cup {NoHandler}, said : {"nothing", "ok", "not ok"}]
      /\ tester'.of = h /\ (tester'.said = "ok" => x.sent >= 1)
  <2>1. Delivered(h) => x.sent >= 1
    <3>1. x.sent \in Nat
      <4>1. x \in HandlerSet
        BY <1>1, ForwardKnown
      <4> QED BY <4>1, HandlerFields
    <3> QED BY <3>1 DEF Delivered
  <2>2. tester \in [of : Handlers \cup {NoHandler}, said : {"nothing", "ok", "not ok"}]
    BY ForwardKnown
  <2> QED BY <1>1, <2>1, <2>2
<1> HIDE DEF y
<1>5. /\ handler' \in [Handlers -> HandlerSet] /\ handler'[h] = y
      /\ \A g \in Handlers \ {h} : handler'[g] = handler[g]
  BY <1>1, <1>3, ForwardKnown DEF Continues, HandlerFits
<1>6. \A g \in Handlers : HandlerFits(handler'[g], logged')
  BY <1>1, <1>3, <1>5, ForwardKnown DEF Continues
<1>7. ForwardTypeOK'
  BY <1>1, <1>4, <1>5, <1>6, ForwardKnown, NextForwardType
<1>8. \A g, k \in Handlers : g # k => Lines(handler'[g]) \intersect Lines(handler'[k]) = {}
  <2>1. \A g \in Handlers : Lines(handler'[g]) \subseteq Lines(handler[g])
    BY <1>3, <1>5 DEF Continues
  <2> QED BY <2>1 DEF ForwardInv
<1>9. current' # NoHandler => handler'[current'].at # "unused"
  BY <1>1, <1>2, <1>5, ForwardKnown DEF ForwardInv
<1>10. TestFits'
  <2>1. h # NoHandler
    BY <1>1, ForwardKnown
  <2>2. Work(y) = 1 /\ y.at # "unused" /\ y.sent >= x.sent
    BY <1>2, <1>3 DEF Continues
  <2>3. tester'.said = "ok" => y.sent >= 1
    <3>1. x \in HandlerSet /\ y \in HandlerSet
      BY <1>1, <1>3, ForwardKnown DEF Continues, HandlerFits
    <3>2. x.sent \in Nat /\ y.sent \in Nat
      BY <3>1, HandlerFields
    <3>3. x.sent >= 1 => y.sent >= 1
      <4> HIDE DEF x
      <4> QED BY <2>2, <3>2
    <3> QED BY <1>4, <3>3
  <2> QED BY <1>1, <1>2, <1>4, <1>5, <2>1, <2>2, <2>3 DEF TestFits
<1> QED BY <1>6, <1>7, <1>8, <1>9, <1>10 DEF ForwardInv

\* Forwarding is configured anew: the handler in use is closed, another may be made.
LEMMA ConfigureKeeps ==
    ASSUME ForwardInv, NEW new \in Handlers \cup {NoHandler}, Configure(new) PROVE ForwardInv'
<1>1. /\ new \in {NoHandler} \cup {h \in Handlers : handler[h].at = "unused"}
      /\ new # current /\ handler' = Replaced(new) /\ current' = new
      /\ tester' = tester /\ logged' = logged
  BY DEF Configure
<1>2. /\ logged \in Nat /\ NoHandler \notin Handlers
      /\ \A h \in Handlers : HandlerFits(handler[h], logged)
  BY ForwardKnown
<1>3. \A h \in Handlers :
        handler'[h] = IF h = current THEN Closed(h) ELSE IF h = new THEN Fresh ELSE handler[h]
  BY <1>1 DEF Replaced
<1>4. current \in Handlers => Continues(handler[current], Closed(current))
  BY <1>2, ClosedContinues DEF ForwardInv
<1>5. new \in Handlers =>
        /\ handler[new] = Unused /\ Lines(handler[new]) = {} /\ new # tester.of
  <2>1. new \in Handlers => handler[new].at = "unused"
    BY <1>1, <1>2
  <2> QED BY <2>1, UnusedIsUnused
<1>6. \A h \in Handlers : HandlerFits(handler'[h], logged')
  BY <1>1, <1>2, <1>3, <1>4, FreshFits DEF Continues
<1>7. handler' \in [Handlers -> HandlerSet]
  <2>1. \A h \in Handlers : handler'[h] \in HandlerSet
    BY <1>6 DEF HandlerFits
  <2>2. handler' = [h \in Handlers |-> handler'[h]]
    BY <1>1 DEF Replaced
  <2> QED BY <2>1, <2>2
<1>8. ForwardTypeOK'
  BY <1>1, <1>6, <1>7, ForwardKnown, NextForwardType
<1>9. \A g, k \in Handlers : g # k => Lines(handler'[g]) \intersect Lines(handler'[k]) = {}
  <2>1. \A g \in Handlers : Lines(handler'[g]) \subseteq Lines(handler[g])
    BY <1>3, <1>4, FreshFits DEF Continues
  <2> QED BY <2>1 DEF ForwardInv
<1>10. current' # NoHandler => handler'[current'].at # "unused"
  BY <1>1, <1>3, FreshFits
<1>11. TestFits'
  <2>1. tester.of # NoHandler =>
          /\ tester.of \in Handlers /\ tester.of # current /\ tester.of # new
          /\ handler'[tester.of] = handler[tester.of]
    BY <1>3, <1>5, ForwardKnown DEF ForwardInv, TestFits
  <2> QED BY <1>1, <2>1 DEF ForwardInv, TestFits
<1> QED BY <1>6, <1>8, <1>9, <1>10, <1>11 DEF ForwardInv

\* Every step keeps the invariant.
LEMMA ForwardStep == ASSUME ForwardInv, [ForwardNext]_forwardVars PROVE ForwardInv'
<1>1. CASE Log
  BY <1>1, LogKeeps
<1>2. CASE ReportTest
  BY <1>2, ReportTestKeeps
<1>3. ASSUME NEW h \in Handlers \cup {NoHandler}, Configure(h) PROVE ForwardInv'
  BY <1>3, ConfigureKeeps
<1>4. ASSUME NEW h \in Handlers,
             StartTest(h) \/ LookAtStop(h) \/ Get(h) \/ Connect(h) \/ SendLine(h) \/ SendFails(h)
      PROVE  ForwardInv'
  BY <1>4, StartTestKeeps, LookAtStopKeeps, GetKeeps, ConnectKeeps, SendLineKeeps, SendFailsKeeps
<1>5. CASE UNCHANGED forwardVars
  <2>1. handler' = handler /\ current' = current /\ tester' = tester /\ logged' = logged
    BY <1>5 DEF forwardVars
  <2> QED BY <2>1, Zenon DEF ForwardInv, ForwardTypeOK, TestFits
<1> QED BY <1>1, <1>2, <1>3, <1>4, <1>5 DEF ForwardNext

\* Nothing is logged, and no handler is in use, at the start.
LEMMA ForwardInitially == ASSUME ForwardInit PROVE ForwardInv
<1>1. /\ handler = [h \in Handlers |-> Unused] /\ current = NoHandler
      /\ tester = [of |-> NoHandler, said |-> "nothing"] /\ logged = 0
  BY DEF ForwardInit
<1>2. \A h \in Handlers : handler[h] = Unused
  BY <1>1
<1>3. \A h \in Handlers : HandlerFits(handler[h], logged)
  BY <1>1, <1>2, FreshFits
<1>4. ForwardTypeOK
  <2>1. handler \in [Handlers -> HandlerSet]
    BY <1>1, FreshFits
  <2>2. \A h \in Handlers : Len(handler[h].queue) <= MaxQueue
    BY <1>3 DEF HandlerFits, WorkFits
  <2>3. logged \in 0..MaxRecords
    BY <1>1, ForwardAssumption
  <2>4. tester \in [of : Handlers \cup {NoHandler}, said : {"nothing", "ok", "not ok"}]
    BY <1>1
  <2> QED BY <1>1, <2>1, <2>2, <2>3, <2>4, Zenon DEF ForwardTypeOK, HandlerSet, Numbers
<1>5. \A g, h \in Handlers : g # h => Lines(handler[g]) \intersect Lines(handler[h]) = {}
  BY <1>2, FreshFits
<1>6. TestFits
  BY <1>1 DEF TestFits
<1> QED BY <1>1, <1>3, <1>4, <1>5, <1>6 DEF ForwardInv

\* The invariant says what a collector sees.
LEMMA CollectorSees == ASSUME ForwardInv PROVE CollectorSeesOrder
<1>1. \A h \in Handlers : Increasing(handler[h].arrived) /\ handler[h].late <= 1
  BY ForwardKnown DEF HandlerFits, LinesFit, WorkFits
<1>2. ASSUME NEW g \in Handlers, NEW h \in Handlers,
             NEW i \in DOMAIN handler[g].arrived, NEW k \in DOMAIN handler[h].arrived,
             handler[g].arrived[i] = handler[h].arrived[k]
      PROVE  g = h
  <2>1. handler[g] \in HandlerSet /\ handler[h] \in HandlerSet
    BY ForwardKnown
  <2>2. handler[g].arrived \in Seq(Numbers) /\ handler[h].arrived \in Seq(Numbers)
    BY <2>1, HandlerFields
  <2>3. handler[g].arrived[i] \in ToSet(handler[g].arrived) /\ handler[h].arrived[k] \in ToSet(handler[h].arrived)
    BY <2>2, ToSetProperties
  <2>4. handler[g].arrived[i] \in Lines(handler[g]) \intersect Lines(handler[h])
    BY <1>2, <2>3 DEF Lines
  <2> QED BY <2>4 DEF ForwardInv
<1>3. ASSUME tester.said = "ok" PROVE handler[tester.of].sent = 1
  <2>1. /\ tester.of \in Handlers /\ Work(handler[tester.of]) = 1 /\ handler[tester.of].sent >= 1
    BY <1>3, ForwardKnown DEF ForwardInv, TestFits
  <2> DEFINE x == handler[tester.of]
  <2>2. x \in HandlerSet
    BY <2>1, ForwardKnown
  <2>3. x.sent \in Nat /\ x.errors \in Nat /\ Len(x.queue) \in Nat
    BY <2>2, HandlerFields
  <2>4. PICK i \in {0, 1} : Work(x) = x.sent + x.errors + i + Len(x.queue)
    BY DEF Work
  <2> QED BY <2>1, <2>3, <2>4
<1> QED BY <1>1, <1>2, <1>3 DEF CollectorSeesOrder

\* Log forwarding: types; and CollectorSeesOrder: a collector gets each handler's records in
\* order and once, one late line at most, no record through two handlers, and a test that
\* says ok has handed its line over -- whatever closes, errors and full queues come between.
THEOREM CollectorIsInOrder == ForwardSpec => [](ForwardTypeOK /\ CollectorSeesOrder)
<1>1. ForwardInit => ForwardInv
  BY ForwardInitially
<1>2. ForwardInv /\ [ForwardNext]_forwardVars => ForwardInv'
  BY ForwardStep
<1>3. ForwardInv => ForwardTypeOK /\ CollectorSeesOrder
  BY CollectorSees DEF ForwardInv
<1> QED BY <1>1, <1>2, <1>3, PTL DEF ForwardSpec

-----------------------------------------------------------------------------
(* The start of the server *)

\* A table that is being rebuilt: its new form has the temporary name.
Built(f, i) == f \in DOMAIN Scripts /\ i \in DOMAIN Scripts[f] /\ Scripts[f][i].does = "build"
Waits(f, i) == Built(f, i) /\ Scripts[f][i].object \in schema

\* The process is in a script, past its first lines, or between a build and its rename.
Runs(f)     == boot.at = "files" /\ boot.line > 0 /\ boot.file = f
Past(f, i)  == Runs(f) /\ boot.line > i
Swaps(f, i) == Runs(f) /\ boot.line \in {i + 1, i + 2, i + 3}

\* The table a rebuild starts from, and why the rebuild may have broken off.
Source(f, i) == Scripts[f][i + 1].from
Broken(f, i) == f \in torn \/ Source(f, i) \in loose

\* A table that was dropped is there under the temporary name of its new form.
Lost(o) == \E f \in DOMAIN Scripts : \E i \in DOMAIN Scripts[f] :
             Waits(f, i) /\ Scripts[f][i + 2].object = o /\ ~(Runs(f) /\ boot.line \in {i + 1, i + 2})
Present(o) == o \in schema \/ Lost(o)

\* What a line makes is there, or was cut off behind a column.
Fine(f, j) == Present(Scripts[f][j].object) \/ CutOff(f, j)
AllFine(f) == \A j \in DOMAIN Scripts[f] : Scripts[f][j].does \in Making => Fine(f, j)

\* What is marked, and where the process is.
Progress ==
    /\ marked \subseteq 1..release
    /\ boot.at = "files" =>
         /\ boot.file \in 1..(release + 1) /\ 1..(boot.file - 1) \subseteq marked
         /\ boot.line > 0 => /\ boot.file <= release /\ boot.file \notin marked
                             /\ boot.line <= Len(Scripts[boot.file]) + 1
    /\ boot.at \in {"secrets", "seed", "up"} => 1..release \subseteq marked

\* A rebuilt table waits for its name while its script runs; else its script was cut, or its
\* copy failed, and no later script has been run.
RebuildsWait == \A f \in DOMAIN Scripts : \A i \in DOMAIN Scripts[f] :
    Waits(f, i) => /\ f <= release /\ f \notin marked /\ 1..(f - 1) \subseteq marked
                   /\ Swaps(f, i) \/ (Broken(f, i) /\ ~Past(f, i))
RebuildsRun == \A f \in DOMAIN Scripts : \A i \in DOMAIN Scripts[f] :
    Built(f, i) /\ Swaps(f, i) => Waits(f, i)

\* A marked script has made what its lines make, and one that runs what its first lines make.
MarkedMade == \A f \in marked : AllFine(f)
RunMade == \A f \in DOMAIN Scripts : Runs(f) =>
    \A j \in DOMAIN Scripts[f] : j < boot.line /\ Scripts[f][j].does \in Making => Fine(f, j)

\* A column that is there: its script is past it, or has run to its end, unless it was cut.
ColumnsTell == \A f \in DOMAIN Scripts \ (marked \cup torn) : \A i \in DOMAIN Scripts[f] :
    Scripts[f][i].does = "column" /\ Scripts[f][i].object \in schema =>
      Past(f, i) \/ \A o \in Made(f) : Present(o)

SecretsFit ==
    /\ \A k \in Kept : secret[k] # "twice" /\ (k \in sealed => secret[k] # "plain")
    /\ boot.at \in {"seed", "up"} => sealed = Kept

FailsFit == boot.at = "failed" => ~(admin \/ password) \/ \E f \in (1..release) \ marked : Stuck(f)

StartupInv ==
    /\ StartupTypeOK /\ Progress /\ RebuildsWait /\ RebuildsRun
    /\ MarkedMade /\ RunMade /\ ColumnsTell /\ SecretsFit /\ FailsFit

\* The scripts are sequences of statements.
LEMMA ScriptLines ==
    /\ Len(Scripts) \in Nat /\ DOMAIN Scripts = 1..Len(Scripts)
    /\ \A f \in DOMAIN Scripts :
         /\ f \in Nat /\ f >= 1 /\ Len(Scripts[f]) \in Nat /\ Len(Scripts[f]) >= 1
         /\ DOMAIN Scripts[f] = 1..Len(Scripts[f])
         /\ \A i \in DOMAIN Scripts[f] : i \in Nat /\ i >= 1 /\ i <= Len(Scripts[f])
<1>1. Len(Scripts) \in Nat /\ DOMAIN Scripts = 1..Len(Scripts)
  BY StartupAssumption, LenProperties
<1>2. ASSUME NEW f \in DOMAIN Scripts
      PROVE  /\ f \in Nat /\ f >= 1 /\ Len(Scripts[f]) \in Nat /\ Len(Scripts[f]) >= 1
             /\ DOMAIN Scripts[f] = 1..Len(Scripts[f])
             /\ \A i \in DOMAIN Scripts[f] : i \in Nat /\ i >= 1 /\ i <= Len(Scripts[f])
  <2>1. Scripts[f] \in Seq(Statements) /\ Scripts[f] # <<>>
    BY StartupAssumption
  <2>2. Len(Scripts[f]) \in Nat /\ DOMAIN Scripts[f] = 1..Len(Scripts[f])
    BY <2>1, LenProperties
  <2>3. Len(Scripts[f]) # 0
    BY <2>1, EmptySeq
  <2> QED BY <1>1, <2>2, <2>3
<1> QED BY <1>1, <1>2

\* A table is rebuilt by four statements.
LEMMA Rebuild ==
    ASSUME NEW f, NEW i, Built(f, i)
    PROVE  /\ f \in DOMAIN Scripts /\ i \in DOMAIN Scripts[f] /\ i \in Nat /\ i >= 1
           /\ i + 1 \in DOMAIN Scripts[f] /\ i + 2 \in DOMAIN Scripts[f] /\ i + 3 \in DOMAIN Scripts[f]
           /\ Len(Scripts[f]) \in Nat /\ i + 3 <= Len(Scripts[f])
           /\ Scripts[f][i].does = "build" /\ Scripts[f][i + 1].does = "copy"
           /\ Scripts[f][i + 2].does = "drop" /\ Scripts[f][i + 3].does = "rename"
           /\ Scripts[f][i + 3].object = Scripts[f][i + 2].object
           /\ Source(f, i) = Scripts[f][i + 2].object
           /\ Scripts[f][i + 3].from = Scripts[f][i].object
           /\ \A j \in DOMAIN Scripts[f] : Scripts[f][j].does # "column"
<1>1. f \in DOMAIN Scripts /\ i \in DOMAIN Scripts[f] /\ Scripts[f][i].does = "build"
  BY DEF Built
<1>2. /\ i + 1 \in LinesThat(f, "copy") /\ i + 2 \in LinesThat(f, "drop")
      /\ i + 3 \in LinesThat(f, "rename")
      /\ Scripts[f][i + 3].object = Scripts[f][i + 2].object
      /\ Scripts[f][i + 1].from = Scripts[f][i + 2].object
      /\ Scripts[f][i + 3].from = Scripts[f][i].object
      /\ LinesThat(f, "column") = {}
  <2>1. i \in LinesThat(f, "build")
    BY <1>1 DEF LinesThat
  <2> QED BY <1>1, <2>1, RebuildAssumption, Zenon
<1>3. /\ i + 1 \in DOMAIN Scripts[f] /\ Scripts[f][i + 1].does = "copy"
      /\ i + 2 \in DOMAIN Scripts[f] /\ Scripts[f][i + 2].does = "drop"
      /\ i + 3 \in DOMAIN Scripts[f] /\ Scripts[f][i + 3].does = "rename"
      /\ \A j \in DOMAIN Scripts[f] : Scripts[f][j].does # "column"
  BY <1>2 DEF LinesThat
<1>4. i \in Nat /\ i >= 1 /\ Len(Scripts[f]) \in Nat /\ i + 3 <= Len(Scripts[f])
  BY <1>1, <1>3, ScriptLines
<1> QED BY <1>1, <1>2, <1>3, <1>4 DEF Source

\* The lines before a copy, a drop or a rename.
LEMMA InRebuild ==
    ASSUME NEW f \in DOMAIN Scripts, NEW l \in DOMAIN Scripts[f]
    PROVE  /\ Scripts[f][l].does = "copy" => Built(f, l - 1)
           /\ Scripts[f][l].does = "drop" =>
                /\ Built(f, l - 2)
                /\ \E g \in 1..(f - 1) : Scripts[f][l].object \in Made(g) /\ LinesThat(g, "column") = {}
           /\ Scripts[f][l].does = "rename" => Built(f, l - 3)
<1>1. ASSUME Scripts[f][l].does = "drop"
      PROVE  /\ Built(f, l - 2)
             /\ \E g \in 1..(f - 1) : Scripts[f][l].object \in Made(g) /\ LinesThat(g, "column") = {}
  <2>1. l \in LinesThat(f, "drop")
    BY <1>1 DEF LinesThat
  <2>2. /\ l - 2 \in LinesThat(f, "build")
        /\ \E g \in 1..(f - 1) : Scripts[f][l].object \in Made(g) /\ LinesThat(g, "column") = {}
    BY <2>1, RebuildAssumption, Zenon
  <2> QED BY <2>2 DEF Built, LinesThat
<1>2. ASSUME Scripts[f][l].does = "rename" PROVE Built(f, l - 3)
  <2>1. l \in LinesThat(f, "rename")
    BY <1>2 DEF LinesThat
  <2>2. l - 3 \in LinesThat(f, "build")
    BY <2>1, RebuildAssumption, Zenon
  <2> QED BY <2>2 DEF Built, LinesThat
<1>3. ASSUME Scripts[f][l].does = "copy" PROVE Built(f, l - 1)
  <2>1. l \in LinesThat(f, "copy")
    BY <1>3 DEF LinesThat
  <2>2. l - 1 \in LinesThat(f, "build")
    BY <2>1, RebuildAssumption, Zenon
  <2> QED BY <2>2 DEF Built, LinesThat
<1> QED BY <1>1, <1>2, <1>3

\* The names of columns and of tables that are being built are their own.
LEMMA OwnName ==
    ASSUME NEW f \in DOMAIN Scripts, NEW i \in DOMAIN Scripts[f],
           Scripts[f][i].does \in {"build", "column"},
           NEW g \in DOMAIN Scripts, NEW j \in DOMAIN Scripts[g],
           Scripts[g][j].does # "copy", Scripts[g][j].object = Scripts[f][i].object
    PROVE  g = f /\ j = i
<1>1. i \in LinesThat(f, "build") \cup LinesThat(f, "column") /\ j \in DOMAIN Scripts[g] \ LinesThat(g, "copy")
  BY DEF LinesThat
<1> QED BY <1>1, NamesAssumption, Zenon

\* What a script makes, line by line.
LEMMA MadeLines ==
    ASSUME NEW f \in DOMAIN Scripts
    PROVE  \A o : o \in Made(f) <=>
             \E i \in DOMAIN Scripts[f] : Scripts[f][i].does \in Making /\ Scripts[f][i].object = o
BY DEF Made, Making

\* No script makes anything under the name of a table that is being built.
LEMMA NotTemporary ==
    ASSUME NEW f \in DOMAIN Scripts, NEW o \in Made(f), NEW g, NEW i, Built(g, i)
    PROVE  o # Scripts[g][i].object
<1>1. PICK j \in DOMAIN Scripts[f] : Scripts[f][j].does \in Making /\ Scripts[f][j].object = o
  BY MadeLines
<1>2. ASSUME o = Scripts[g][i].object PROVE FALSE
  <2>1. f = g /\ j = i
    BY <1>1, <1>2, Rebuild, OwnName DEF Making
  <2> QED BY <1>1, <2>1, Rebuild DEF Making
<1> QED BY <1>2

\* What is known of the process.
LEMMA BootKnown ==
    ASSUME StartupInv
    PROVE  /\ boot \in [at : Stages, file : 0..Len(Scripts) + 1, line : Nat]
           /\ boot.line \in Nat /\ boot.file \in Nat /\ release \in Nat /\ Len(Scripts) \in Nat
           /\ release <= Len(Scripts) /\ 1..release \subseteq DOMAIN Scripts
           /\ marked \subseteq DOMAIN Scripts /\ torn \subseteq DOMAIN Scripts
<1>1. Len(Scripts) \in Nat /\ DOMAIN Scripts = 1..Len(Scripts)
  BY ScriptLines
<1>2. /\ boot \in [at : Stages, file : 0..Len(Scripts) + 1, line : Nat] /\ release \in 0..Len(Scripts)
      /\ marked \subseteq DOMAIN Scripts /\ torn \subseteq DOMAIN Scripts
  BY DEF StartupInv, StartupTypeOK
<1>3. boot.line \in Nat /\ boot.file \in 0..Len(Scripts) + 1
  BY <1>2
<1> QED BY <1>1, <1>2, <1>3

\* The script that runs.
LEMMA RunKnown ==
    ASSUME StartupInv, Running
    PROVE  /\ boot.file \in DOMAIN Scripts /\ Runs(boot.file) /\ boot.file <= release
           /\ boot.file \notin marked /\ 1..(boot.file - 1) \subseteq marked
           /\ boot.line \in Nat /\ boot.line > 0 /\ boot.line <= Len(Scripts[boot.file]) + 1
           /\ \A f : Runs(f) <=> f = boot.file
<1>1. /\ boot.at = "files" /\ boot.line > 0
  BY DEF Running
<1>2. /\ boot.file \in 1..(release + 1) /\ 1..(boot.file - 1) \subseteq marked
      /\ boot.file <= release /\ boot.file \notin marked /\ boot.line <= Len(Scripts[boot.file]) + 1
  BY <1>1 DEF StartupInv, Progress
<1>3. boot.file \in DOMAIN Scripts /\ boot.line \in Nat
  BY <1>2, BootKnown
<1> QED BY <1>1, <1>2, <1>3 DEF Runs

-----------------------------------------------------------------------------
\* Steps that leave the schema alone

\* A step after which no script is past its first line.
LEMMA RestingParts ==
    ASSUME StartupInv, schema' = schema, ~(boot'.at = "files" /\ boot'.line > 1),
           boot'.line \in Nat,
           release' \in Nat, release <= release', marked \subseteq marked', torn \subseteq torn',
           \A f \in DOMAIN Scripts : \A i \in DOMAIN Scripts[f] : Waits(f, i) =>
             f \notin marked' /\ (Broken(f, i) \/ Swaps(f, i) => Broken(f, i)'),
           \A f \in marked' \ marked : AllFine(f),
           \A f \in DOMAIN Scripts \ (marked' \cup torn') : \A i \in DOMAIN Scripts[f] :
             Scripts[f][i].does = "column" /\ Scripts[f][i].object \in schema /\ Past(f, i) =>
               \A o \in Made(f) : Present(o)
    PROVE  RebuildsWait' /\ RebuildsRun' /\ MarkedMade' /\ RunMade' /\ ColumnsTell'
<1>1. ASSUME NEW f \in DOMAIN Scripts, NEW i \in DOMAIN Scripts[f]
      PROVE  /\ ~Past(f, i)' /\ ~Swaps(f, i)' /\ ~(Runs(f) /\ boot.line \in {i + 1, i + 2})' /\ f \in Nat
  <2>1. i \in Nat /\ i >= 1 /\ f \in Nat
    BY ScriptLines
  <2> QED BY <2>1 DEF Past, Swaps, Runs
<1>2. \A f, i : Waits(f, i)' <=> Waits(f, i)
  BY DEF Waits
<1>3. \A o : Present(o) => Present(o)'
  <2>1. ASSUME NEW o, Lost(o) PROVE Lost(o)'
    <3>1. PICK f \in DOMAIN Scripts : \E i \in DOMAIN Scripts[f] :
            Waits(f, i) /\ Scripts[f][i + 2].object = o
      BY <2>1 DEF Lost
    <3>2. PICK i \in DOMAIN Scripts[f] : Waits(f, i) /\ Scripts[f][i + 2].object = o
      BY <3>1
    <3>3. Waits(f, i)' /\ ~(Runs(f) /\ boot.line \in {i + 1, i + 2})'
      BY <1>1, <1>2, <3>2
    <3> QED BY <3>2, <3>3 DEF Lost
  <2> QED BY <2>1 DEF Present
<1>4. RebuildsWait'
  <2>1. ASSUME NEW f \in DOMAIN Scripts, NEW i \in DOMAIN Scripts[f], Waits(f, i)'
        PROVE  /\ f <= release' /\ f \notin marked' /\ 1..(f - 1) \subseteq marked'
               /\ Broken(f, i)' /\ ~Past(f, i)'
    <3>1. Waits(f, i)
      BY <1>2, <2>1
    <3>2. f <= release /\ 1..(f - 1) \subseteq marked /\ (Swaps(f, i) \/ Broken(f, i))
      BY <3>1 DEF StartupInv, RebuildsWait
    <3>3. f <= release'
      BY <1>1, <3>2, BootKnown
    <3> QED BY <1>1, <3>1, <3>2, <3>3
  <2> QED BY <2>1 DEF RebuildsWait
<1>5. RebuildsRun'
  BY <1>1 DEF RebuildsRun
<1>6. MarkedMade'
  <2>1. ASSUME NEW f \in marked', NEW j \in DOMAIN Scripts[f], Scripts[f][j].does \in Making
        PROVE  Fine(f, j)'
    <3>1. AllFine(f)
      BY <2>1 DEF StartupInv, MarkedMade
    <3>2. Fine(f, j)
      BY <2>1, <3>1 DEF AllFine
    <3>3. CutOff(f, j) => CutOff(f, j)'
      BY DEF CutOff
    <3> QED BY <1>3, <3>2, <3>3 DEF Fine
  <2> QED BY <2>1 DEF MarkedMade, AllFine
<1>7. RunMade'
  <2>1. ASSUME NEW f \in DOMAIN Scripts, Runs(f)', NEW j \in DOMAIN Scripts[f], j < boot'.line PROVE FALSE
    <3>1. j \in Nat /\ j >= 1
      BY ScriptLines
    <3> QED BY <2>1, <3>1 DEF Runs
  <2> QED BY <2>1 DEF RunMade
<1>8. ColumnsTell'
  <2>1. ASSUME NEW f \in DOMAIN Scripts \ (marked' \cup torn'), NEW i \in DOMAIN Scripts[f],
               Scripts[f][i].does = "column", Scripts[f][i].object \in schema, NEW o \in Made(f)
        PROVE  Present(o)
    <3>1. f \in DOMAIN Scripts \ (marked \cup torn)
      BY <2>1
    <3>2. Past(f, i) \/ \A p \in Made(f) : Present(p)
      BY <2>1, <3>1 DEF StartupInv, ColumnsTell
    <3> QED BY <2>1, <3>2
  <2> QED BY <1>3, <2>1 DEF ColumnsTell
<1> QED BY <1>4, <1>5, <1>6, <1>7, <1>8

\* A step from outside the scripts to outside them, or to the first line of one.
LEMMA StandingParts ==
    ASSUME StartupInv, ~Running, schema' = schema, ~(boot'.at = "files" /\ boot'.line > 1),
           boot'.line \in Nat, release' \in Nat, release <= release', marked' = marked, torn' = torn,
           \A f \in DOMAIN Scripts : \A i \in DOMAIN Scripts[f] : Waits(f, i) => loose' = loose
    PROVE  RebuildsWait' /\ RebuildsRun' /\ MarkedMade' /\ RunMade' /\ ColumnsTell'
<1>1. \A f, i : ~Swaps(f, i) /\ ~Past(f, i)
  BY DEF Running, Swaps, Past, Runs
<1>2. \A f \in DOMAIN Scripts : \A i \in DOMAIN Scripts[f] : Waits(f, i) =>
        f \notin marked' /\ (Broken(f, i) => Broken(f, i)')
  BY DEF StartupInv, RebuildsWait, Broken, Source
<1>3. marked' \ marked = {}
  OBVIOUS
<1> QED BY <1>1, <1>2, <1>3, RestingParts

\* A script's last line is done: no table waits for its name.
LEMMA NothingWaitsAtEnd ==
    ASSUME StartupInv, Running, boot.line = Len(Scripts[boot.file]) + 1,
           NEW i \in DOMAIN Scripts[boot.file]
    PROVE  ~Waits(boot.file, i)
<1>1. ASSUME Waits(boot.file, i) PROVE FALSE
  <2>1. boot.file \in DOMAIN Scripts /\ Runs(boot.file)
    BY RunKnown
  <2>2. i \in Nat /\ i + 3 <= Len(Scripts[boot.file]) /\ Len(Scripts[boot.file]) \in Nat
    BY <1>1, Rebuild DEF Waits
  <2>3. Swaps(boot.file, i) \/ ~Past(boot.file, i)
    BY <1>1, <2>1 DEF StartupInv, RebuildsWait
  <2> QED BY <2>1, <2>2, <2>3 DEF Swaps, Past
<1> QED BY <1>1

\* A script's last line is done: it has made all that it makes and that was not cut off.
LEMMA AllMadeAtEnd ==
    ASSUME StartupInv, Running, boot.line = Len(Scripts[boot.file]) + 1
    PROVE  AllFine(boot.file)
<1>1. boot.file \in DOMAIN Scripts /\ Runs(boot.file)
  BY RunKnown
<1>2. ASSUME NEW i \in DOMAIN Scripts[boot.file] PROVE i < boot.line
  <2>1. i \in Nat /\ i <= Len(Scripts[boot.file]) /\ Len(Scripts[boot.file]) \in Nat
    BY <1>1, ScriptLines
  <2> QED BY <2>1
<1> QED BY <1>1, <1>2 DEF StartupInv, RunMade, AllFine

\* A script that was not cut is fine only if all that it makes is there.
LEMMA FineUncut ==
    ASSUME NEW f \in DOMAIN Scripts, f \notin torn, AllFine(f), NEW o \in Made(f)
    PROVE  Present(o)
<1>1. PICK j \in DOMAIN Scripts[f] : Scripts[f][j].does \in Making /\ Scripts[f][j].object = o
  BY MadeLines
<1> QED BY <1>1 DEF AllFine, Fine, CutOff

-----------------------------------------------------------------------------
\* A statement is run

\* The line a process is at.
LEMMA LineKnown ==
    ASSUME StartupInv, Running, boot.line <= Len(Scripts[boot.file])
    PROVE  /\ boot.file \in DOMAIN Scripts /\ boot.line \in DOMAIN Scripts[boot.file]
           /\ boot.line \in Nat /\ Scripts[boot.file][boot.line].does \in {"create", "column", "build", "copy", "drop", "rename"}
<1>1. /\ boot.file \in DOMAIN Scripts /\ boot.line \in Nat /\ boot.line > 0
  BY RunKnown
<1>2. DOMAIN Scripts[boot.file] = 1..Len(Scripts[boot.file]) /\ Len(Scripts[boot.file]) \in Nat
  BY <1>1, ScriptLines
<1>3. boot.line \in DOMAIN Scripts[boot.file]
  BY <1>1, <1>2
<1>4. Scripts[boot.file] \in Seq(Statements)
  BY <1>1, StartupAssumption
<1>5. Scripts[boot.file][boot.line] \in Statements
  BY <1>2, <1>3, <1>4, ElementOfSeq
<1> QED BY <1>1, <1>3, <1>5 DEF Statements

\* What the line says of the lines before it.
LEMMA LinesBefore ==
    ASSUME StartupInv, Running, boot.line <= Len(Scripts[boot.file]), NEW i, Built(boot.file, i)
    PROVE  /\ boot.line = i => Scripts[boot.file][boot.line].does = "build"
           /\ boot.line = i + 1 => Scripts[boot.file][boot.line].does = "copy"
           /\ boot.line = i + 2 => Scripts[boot.file][boot.line].does = "drop"
           /\ boot.line = i + 3 => Scripts[boot.file][boot.line].does = "rename"
BY Rebuild

\* The process moves on one line.  What is left to show of each kind of statement: which
\* tables wait, that nothing made is lost, and that the line has made what it makes.
LEMMA MovingParts ==
    ASSUME StartupInv, Running, boot.line <= Len(Scripts[boot.file]),
           boot' = [boot EXCEPT !.line = @ + 1],
           loose' = loose, marked' = marked, torn' = torn, release' = release,
           \A g \in DOMAIN Scripts : \A i \in DOMAIN Scripts[g] : Waits(g, i)' =>
             \/ Waits(g, i) /\ ~(g = boot.file /\ boot.line = i + 3)
             \/ g = boot.file /\ i = boot.line,
           \A i \in DOMAIN Scripts[boot.file] :
             Built(boot.file, i) /\ boot.line \in {i, i + 1, i + 2} => Waits(boot.file, i)',
           \A g \in DOMAIN Scripts : \A o \in Made(g) : Present(o) => Present(o)',
           NEW made, made = Scripts[boot.file][boot.line].object,
           Scripts[boot.file][boot.line].does \in Making => Present(made)',
           \A g \in DOMAIN Scripts : \A i \in DOMAIN Scripts[g] : Scripts[g][i].does = "column" =>
             /\ Scripts[g][i].object \in schema => Scripts[g][i].object \in schema'
             /\ Scripts[g][i].object \in schema' =>
                  Scripts[g][i].object \in schema \/ (g = boot.file /\ i = boot.line)
    PROVE  RebuildsWait' /\ RebuildsRun' /\ MarkedMade' /\ RunMade' /\ ColumnsTell'
<1> DEFINE f == boot.file
           l == boot.line
<1>1. /\ f \in DOMAIN Scripts /\ l \in DOMAIN Scripts[f] /\ l \in Nat /\ l > 0
      /\ f <= release /\ f \notin marked /\ 1..(f - 1) \subseteq marked
      /\ \A g : Runs(g) <=> g = f
  BY LineKnown, RunKnown
<1>2. boot'.at = "files" /\ boot'.file = f /\ boot'.line = l + 1
  BY BootKnown DEF Running
<1>3. \A g : Runs(g)' <=> g = f
  BY <1>1, <1>2 DEF Runs
<1> HIDE DEF f, l
<1>4. ASSUME NEW g \in DOMAIN Scripts, NEW i \in DOMAIN Scripts[g]
      PROVE  /\ i \in Nat
             /\ Past(g, i) <=> g = f /\ l > i
             /\ Past(g, i)' <=> g = f /\ l + 1 > i
             /\ Swaps(g, i) <=> g = f /\ l \in {i + 1, i + 2, i + 3}
             /\ Swaps(g, i)' <=> g = f /\ l + 1 \in {i + 1, i + 2, i + 3}
  BY <1>1, <1>2, <1>3, ScriptLines DEF Past, Swaps, f, l
<1>5. RebuildsWait'
  <2>1. ASSUME NEW g \in DOMAIN Scripts, NEW i \in DOMAIN Scripts[g], Waits(g, i)'
        PROVE  /\ g <= release' /\ g \notin marked' /\ 1..(g - 1) \subseteq marked'
               /\ Swaps(g, i)' \/ (Broken(g, i)' /\ ~Past(g, i)')
    <3>1. CASE g = f /\ i = l
      BY <1>1, <1>4, <3>1
    <3>2. CASE Waits(g, i) /\ ~(g = f /\ l = i + 3) /\ ~(g = f /\ i = l)
      <4>1. /\ g <= release /\ g \notin marked /\ 1..(g - 1) \subseteq marked
            /\ Swaps(g, i) \/ (Broken(g, i) /\ ~Past(g, i))
        BY <3>2 DEF StartupInv, RebuildsWait
      <4>2. CASE Swaps(g, i)
        <5>1. g = f /\ l \in {i + 1, i + 2} /\ i \in Nat
          BY <1>4, <3>2, <4>2
        <5>2. l + 1 \in {i + 1, i + 2, i + 3}
          BY <5>1
        <5> QED BY <1>4, <4>1, <5>1, <5>2
      <4>3. CASE Broken(g, i) /\ ~Past(g, i)
        <5>1. ~Past(g, i)' /\ Broken(g, i)'
          BY <1>1, <1>4, <3>2, <4>3 DEF Broken, Source
        <5> QED BY <4>1, <4>3, <5>1
      <4> QED BY <4>1, <4>2, <4>3
    <3> QED BY <2>1, <3>1, <3>2 DEF f, l
  <2> QED BY <2>1 DEF RebuildsWait
<1>6. RebuildsRun'
  <2>1. ASSUME NEW g \in DOMAIN Scripts, NEW i \in DOMAIN Scripts[g], Built(g, i), Swaps(g, i)'
        PROVE  Waits(g, i)'
    <3>1. g = f /\ l + 1 \in {i + 1, i + 2, i + 3} /\ i \in Nat
      BY <1>4, <2>1
    <3>2. l \in {i, i + 1, i + 2}
      BY <1>1, <3>1
    <3> QED BY <2>1, <3>1, <3>2 DEF f, l
  <2> QED BY <2>1 DEF RebuildsRun, Built
<1>10. ASSUME NEW g \in DOMAIN Scripts, NEW j \in DOMAIN Scripts[g], Scripts[g][j].does \in Making,
              Fine(g, j)
       PROVE  Fine(g, j)'
  <2>1. CASE Present(Scripts[g][j].object)
    <3>1. Scripts[g][j].object \in Made(g)
      BY <1>10, MadeLines
    <3> QED BY <2>1, <3>1 DEF Fine
  <2>2. CASE CutOff(g, j)
    BY <2>2 DEF CutOff, Fine, LinesThat
  <2> QED BY <1>10, <2>1, <2>2 DEF Fine
<1>7. MarkedMade'
  <2>1. ASSUME NEW g \in marked, NEW j \in DOMAIN Scripts[g], Scripts[g][j].does \in Making
        PROVE  Fine(g, j)'
    <3>1. g \in DOMAIN Scripts /\ Fine(g, j)
      BY <2>1, BootKnown DEF StartupInv, MarkedMade, AllFine
    <3> QED BY <1>10, <2>1, <3>1
  <2> QED BY <2>1 DEF MarkedMade, AllFine
<1>8. RunMade'
  <2>1. ASSUME NEW g \in DOMAIN Scripts, Runs(g)', NEW j \in DOMAIN Scripts[g],
               j < boot'.line, Scripts[g][j].does \in Making
        PROVE  Fine(g, j)'
    <3>1. g = f /\ j \in Nat /\ (j < l \/ j = l)
      BY <1>1, <1>2, <1>3, <1>4, <2>1
    <3>2. CASE j = l
      <4>1. made = Scripts[g][j].object /\ Scripts[boot.file][boot.line].does \in Making
        BY <2>1, <3>1, <3>2 DEF f, l
      <4> QED BY <4>1 DEF Fine
    <3>3. CASE j < l
      <4>1. Runs(f)
        BY <1>1
      <4>2. Fine(g, j)
        BY <2>1, <3>1, <3>3, <4>1 DEF StartupInv, RunMade, l
      <4> QED BY <1>10, <2>1, <4>2
    <3> QED BY <3>1, <3>2, <3>3
  <2> QED BY <2>1 DEF RunMade
<1>9. ColumnsTell'
  <2>1. ASSUME NEW g \in DOMAIN Scripts \ (marked \cup torn), NEW i \in DOMAIN Scripts[g],
               Scripts[g][i].does = "column", Scripts[g][i].object \in schema', ~Past(g, i)',
               NEW o \in Made(g)
        PROVE  Present(o)'
    <3>1. ~(g = f /\ i = l) /\ ~Past(g, i)
      BY <1>1, <1>4, <2>1
    <3>2. Scripts[g][i].object \in schema
      BY <2>1, <3>1 DEF f, l
    <3>3. Present(o)
      BY <2>1, <3>1, <3>2 DEF StartupInv, ColumnsTell
    <3> QED BY <3>3
  <2> QED BY <2>1 DEF ColumnsTell
<1> QED BY <1>5, <1>6, <1>7, <1>8, <1>9

\* A dropped table stays there under its temporary name when the process moves on, but
\* for the table that the lines to come drop.
LEMMA LostStays ==
    ASSUME StartupInv, Running, boot.line <= Len(Scripts[boot.file]),
           boot' = [boot EXCEPT !.line = @ + 1], NEW o,
           NEW g \in DOMAIN Scripts, NEW i \in DOMAIN Scripts[g],
           Scripts[g][i + 2].object = o, Waits(g, i)',
           ~(g = boot.file /\ boot.line \in {i, i + 1})
    PROVE  Lost(o)'
<1>1. /\ boot'.line = boot.line + 1 /\ boot.line \in Nat /\ boot'.file = boot.file
  BY BootKnown
<1>2. ~(Runs(g) /\ boot.line \in {i + 1, i + 2})'
  <2>1. i \in Nat
    BY ScriptLines
  <2> QED BY <1>1, <2>1 DEF Runs
<1> QED BY <1>2 DEF Lost

\* A table that is there under the temporary name of its new form, with the lines it is not
\* looked for at.
LEMMA LostKnown ==
    ASSUME StartupInv, Running, NEW o, Lost(o)
    PROVE  \E g \in DOMAIN Scripts : \E i \in DOMAIN Scripts[g] :
             Waits(g, i) /\ Scripts[g][i + 2].object = o /\ ~(g = boot.file /\ boot.line = i + 1)
<1>1. Runs(boot.file)
  BY RunKnown
<1> QED BY <1>1 DEF Lost

\* A table or a column is made.
LEMMA GrowParts ==
    ASSUME StartupInv, Running, boot.line <= Len(Scripts[boot.file]),
           boot' = [boot EXCEPT !.line = @ + 1],
           loose' = loose, marked' = marked, torn' = torn, release' = release,
           Scripts[boot.file][boot.line].does \in {"create", "column"},
           schema' = schema \cup {Scripts[boot.file][boot.line].object}
    PROVE  RebuildsWait' /\ RebuildsRun' /\ MarkedMade' /\ RunMade' /\ ColumnsTell'
<1> DEFINE f == boot.file
           l == boot.line
           made == Scripts[f][l].object
<1>1. f \in DOMAIN Scripts /\ l \in DOMAIN Scripts[f] /\ l \in Nat
  BY LineKnown
<1>2. schema' = schema \cup {made}
  OBVIOUS
<1>3. ASSUME NEW g \in DOMAIN Scripts, NEW i \in DOMAIN Scripts[g], Waits(g, i)'
      PROVE  Waits(g, i) /\ ~(g = f /\ l = i + 3) /\ ~(g = f /\ i = l)
  <2>1. Built(g, i) /\ Scripts[g][i].object \in schema'
    BY <1>3 DEF Waits, Built
  <2>2. ~(g = f /\ l = i + 3) /\ ~(g = f /\ i = l)
    BY <2>1, LinesBefore
  <2>3. Scripts[g][i].object # made
    <3>1. Scripts[g][i].does = "build"
      BY <2>1, Rebuild
    <3> QED BY <1>1, <2>2, <3>1, OwnName
  <2> QED BY <1>2, <2>1, <2>2, <2>3 DEF Waits
<1>4. \A g, i : Waits(g, i) => Waits(g, i)'
  BY <1>2 DEF Waits
<1>5. ASSUME NEW i \in DOMAIN Scripts[f], Built(f, i), l \in {i, i + 1, i + 2} PROVE Waits(f, i)'
  BY <1>5, LinesBefore
<1>6. ASSUME NEW o, Present(o) PROVE Present(o)'
  <2>1. CASE o \in schema
    BY <1>2, <2>1 DEF Present
  <2>2. CASE Lost(o)
    <3>1. PICK g \in DOMAIN Scripts : \E i \in DOMAIN Scripts[g] :
            /\ Waits(g, i) /\ Scripts[g][i + 2].object = o
            /\ ~(g = boot.file /\ boot.line = i + 1)
      BY <2>2, LostKnown
    <3>2. PICK i \in DOMAIN Scripts[g] :
            /\ Waits(g, i) /\ Scripts[g][i + 2].object = o
            /\ ~(g = boot.file /\ boot.line = i + 1)
      BY <3>1
    <3>3. Waits(g, i)' /\ ~(g = boot.file /\ i = boot.line)
      BY <1>3, <1>4, <3>2
    <3> QED BY <3>2, <3>3, LostStays DEF Present
  <2> QED BY <1>6, <2>1, <2>2 DEF Present
<1>7. ASSUME NEW g \in DOMAIN Scripts, NEW i \in DOMAIN Scripts[g], Scripts[g][i].does = "column"
      PROVE  /\ Scripts[g][i].object \in schema => Scripts[g][i].object \in schema'
             /\ Scripts[g][i].object \in schema' =>
                  Scripts[g][i].object \in schema \/ (g = f /\ i = l)
  BY <1>1, <1>2, <1>7, OwnName
<1>8. PICK o : o = made
  OBVIOUS
<1>9. Present(o)'
  BY <1>2, <1>8 DEF Present
<1>10. o = Scripts[boot.file][boot.line].object
  BY <1>8
<1> HIDE DEF made
<1> QED BY <1>3, <1>5, <1>6, <1>7, <1>9, <1>10, MovingParts

\* A table is built under its temporary name.
LEMMA BuildParts ==
    ASSUME StartupInv, Running, boot.line <= Len(Scripts[boot.file]),
           boot' = [boot EXCEPT !.line = @ + 1],
           loose' = loose, marked' = marked, torn' = torn, release' = release,
           Scripts[boot.file][boot.line].does = "build",
           Scripts[boot.file][boot.line].object \notin schema,
           schema' = schema \cup {Scripts[boot.file][boot.line].object}
    PROVE  RebuildsWait' /\ RebuildsRun' /\ MarkedMade' /\ RunMade' /\ ColumnsTell'
<1> DEFINE f == boot.file
           l == boot.line
           made == Scripts[f][l].object
<1>1. f \in DOMAIN Scripts /\ l \in DOMAIN Scripts[f] /\ l \in Nat /\ Built(f, l)
  BY LineKnown DEF Built
<1>2. schema' = schema \cup {made} /\ made \notin schema
  OBVIOUS
<1>3. ASSUME NEW g \in DOMAIN Scripts, NEW i \in DOMAIN Scripts[g], Waits(g, i)',
             ~(g = f /\ i = l)
      PROVE  Waits(g, i) /\ ~(g = f /\ l = i + 3)
  <2>1. Built(g, i) /\ Scripts[g][i].object \in schema'
    BY <1>3 DEF Waits, Built
  <2>2. ~(g = f /\ l = i + 3)
    BY <2>1, LinesBefore
  <2>3. Scripts[g][i].object # made
    <3>1. Scripts[g][i].does = "build"
      BY <2>1, Rebuild
    <3> QED BY <1>1, <1>3, <3>1, OwnName
  <2> QED BY <1>2, <2>1, <2>2, <2>3 DEF Waits
<1>4. \A g, i : Waits(g, i) => Waits(g, i)'
  BY <1>2 DEF Waits
<1>5. ASSUME NEW i \in DOMAIN Scripts[f], Built(f, i), l \in {i, i + 1, i + 2} PROVE Waits(f, i)'
  <2>1. i = l
    BY <1>5, LinesBefore
  <2> QED BY <1>1, <1>2, <2>1 DEF Waits, Built
<1>6. ASSUME NEW o, Present(o) PROVE Present(o)'
  <2>1. CASE o \in schema
    BY <1>2, <2>1 DEF Present
  <2>2. CASE Lost(o)
    <3>1. PICK g \in DOMAIN Scripts : \E i \in DOMAIN Scripts[g] :
            /\ Waits(g, i) /\ Scripts[g][i + 2].object = o
            /\ ~(g = boot.file /\ boot.line = i + 1)
      BY <2>2, LostKnown
    <3>2. PICK i \in DOMAIN Scripts[g] :
            /\ Waits(g, i) /\ Scripts[g][i + 2].object = o
            /\ ~(g = boot.file /\ boot.line = i + 1)
      BY <3>1
    <3>3. ~(g = boot.file /\ i = boot.line)
      BY <1>2, <3>2 DEF Waits
    <3>4. Waits(g, i)'
      BY <1>4, <3>2
    <3> QED BY <3>2, <3>3, <3>4, LostStays DEF Present
  <2> QED BY <1>6, <2>1, <2>2 DEF Present
<1>7. ASSUME NEW g \in DOMAIN Scripts, NEW i \in DOMAIN Scripts[g], Scripts[g][i].does = "column"
      PROVE  /\ Scripts[g][i].object \in schema => Scripts[g][i].object \in schema'
             /\ Scripts[g][i].object \in schema' =>
                  Scripts[g][i].object \in schema \/ (g = f /\ i = l)
  BY <1>1, <1>2, <1>7, OwnName
<1>8. "build" \notin Making
  BY DEF Making
<1> HIDE DEF made
<1> QED BY <1>3, <1>5, <1>6, <1>7, <1>8, MovingParts DEF made

\* The table that was rebuilt is dropped.
LEMMA DropParts ==
    ASSUME StartupInv, Running, boot.line <= Len(Scripts[boot.file]),
           boot' = [boot EXCEPT !.line = @ + 1],
           loose' = loose, marked' = marked, torn' = torn, release' = release,
           Scripts[boot.file][boot.line].does = "drop",
           schema' = schema \ {Scripts[boot.file][boot.line].object}
    PROVE  RebuildsWait' /\ RebuildsRun' /\ MarkedMade' /\ RunMade' /\ ColumnsTell'
<1> DEFINE f == boot.file
           l == boot.line
           gone == Scripts[f][l].object
<1>1. f \in DOMAIN Scripts /\ l \in DOMAIN Scripts[f] /\ l \in Nat /\ Runs(f)
  BY LineKnown, RunKnown
<1>2. schema' = schema \ {gone}
  OBVIOUS
<1>3. ASSUME NEW g \in DOMAIN Scripts, NEW i \in DOMAIN Scripts[g], Waits(g, i)
      PROVE  Waits(g, i)' /\ ~(g = f /\ i = l)
  <2>1. Built(g, i) /\ Scripts[g][i].object \in schema /\ Scripts[g][i].does = "build"
    BY <1>3 DEF Waits, Built
  <2>2. ~(g = f /\ i = l)
    BY <2>1
  <2>3. Scripts[g][i].object # gone
    BY <1>1, <2>1, <2>2, OwnName
  <2> QED BY <1>2, <2>1, <2>2, <2>3 DEF Waits, Built
<1>4. ASSUME NEW g \in DOMAIN Scripts, NEW i \in DOMAIN Scripts[g], Waits(g, i)'
      PROVE  Waits(g, i) /\ ~(g = f /\ l = i + 3)
  <2>1. Built(g, i) /\ Waits(g, i)
    BY <1>2, <1>4 DEF Waits, Built
  <2> QED BY <2>1, LinesBefore
<1>5. ASSUME NEW i \in DOMAIN Scripts[f], Built(f, i), l \in {i, i + 1, i + 2} PROVE Waits(f, i)'
  <2>1. l = i + 2
    BY <1>5, LinesBefore
  <2>2. Swaps(f, i)
    BY <1>1, <2>1 DEF Swaps
  <2>3. Waits(f, i)
    BY <1>1, <1>5, <2>2 DEF StartupInv, RebuildsRun
  <2> QED BY <1>1, <1>3, <2>3
<1>6. ASSUME NEW o, Present(o) PROVE Present(o)'
  <2>1. CASE o \in schema /\ o # gone
    BY <1>2, <2>1 DEF Present
  <2>2. CASE Lost(o)
    <3>1. PICK g \in DOMAIN Scripts : \E i \in DOMAIN Scripts[g] :
            /\ Waits(g, i) /\ Scripts[g][i + 2].object = o
            /\ ~(g = boot.file /\ boot.line = i + 1)
      BY <2>2, LostKnown
    <3>2. PICK i \in DOMAIN Scripts[g] :
            /\ Waits(g, i) /\ Scripts[g][i + 2].object = o
            /\ ~(g = boot.file /\ boot.line = i + 1)
      BY <3>1
    <3>3. Waits(g, i)' /\ ~(g = boot.file /\ i = boot.line)
      BY <1>3, <3>2
    <3> QED BY <3>2, <3>3, LostStays DEF Present
  <2>3. CASE o = gone
    <3>1. Built(f, l - 2) /\ (l - 2) + 2 = l
      BY <1>1, InRebuild
    <3>2. PICK g \in DOMAIN Scripts : g = f
      BY <1>1
    <3>3. PICK i \in DOMAIN Scripts[g] : i = l - 2
      BY <3>1, <3>2 DEF Built
    <3>4. Built(g, i) /\ Swaps(g, i) /\ Scripts[g][i + 2].object = o /\ l \notin {i, i + 1}
      BY <1>1, <2>3, <3>1, <3>2, <3>3 DEF Swaps
    <3>5. Waits(g, i)
      BY <3>4 DEF StartupInv, RebuildsRun
    <3>6. Waits(g, i)'
      BY <1>3, <3>5
    <3> QED BY <3>4, <3>6, LostStays DEF Present
  <2> QED BY <1>6, <2>1, <2>2, <2>3 DEF Present
<1>7. ASSUME NEW g \in DOMAIN Scripts, NEW i \in DOMAIN Scripts[g], Scripts[g][i].does = "column"
      PROVE  /\ Scripts[g][i].object \in schema => Scripts[g][i].object \in schema'
             /\ Scripts[g][i].object \in schema' =>
                  Scripts[g][i].object \in schema \/ (g = f /\ i = l)
  <2>1. Scripts[g][i].object # gone
    BY <1>1, <1>7, OwnName
  <2> QED BY <1>2, <2>1
<1>8. "drop" \notin Making
  BY DEF Making
<1> HIDE DEF gone
<1> QED BY <1>4, <1>5, <1>6, <1>7, <1>8, MovingParts DEF gone

\* The new form gets the table's name.
LEMMA RenameParts ==
    ASSUME StartupInv, Running, boot.line <= Len(Scripts[boot.file]),
           boot' = [boot EXCEPT !.line = @ + 1],
           loose' = loose, marked' = marked, torn' = torn, release' = release,
           Scripts[boot.file][boot.line].does = "rename",
           schema' = (schema \ {Scripts[boot.file][boot.line].from})
                       \cup {Scripts[boot.file][boot.line].object}
    PROVE  RebuildsWait' /\ RebuildsRun' /\ MarkedMade' /\ RunMade' /\ ColumnsTell'
<1> DEFINE f == boot.file
           l == boot.line
           made == Scripts[f][l].object
           temp == Scripts[f][l].from
<1>1. f \in DOMAIN Scripts /\ l \in DOMAIN Scripts[f] /\ l \in Nat /\ Runs(f)
  BY LineKnown, RunKnown
<1>2. schema' = (schema \ {temp}) \cup {made}
  OBVIOUS
<1>3. PICK k \in DOMAIN Scripts[f] :
        /\ k + 3 = l /\ Built(f, k) /\ Scripts[f][k].object = temp
        /\ Scripts[f][k + 2].object = made
  <2>1. Built(f, l - 3) /\ (l - 3) + 3 = l
    BY <1>1, InRebuild
  <2>2. PICK k \in DOMAIN Scripts[f] : k = l - 3
    BY <2>1 DEF Built
  <2>3. Built(f, k) /\ k + 3 = l
    BY <2>1, <2>2
  <2>4. Scripts[f][k + 3].from = Scripts[f][k].object /\ Scripts[f][k + 3].object = Scripts[f][k + 2].object
    BY <2>3, Rebuild
  <2> QED BY <2>3, <2>4
<1>4. ASSUME NEW g \in DOMAIN Scripts, NEW i \in DOMAIN Scripts[g], Waits(g, i)'
      PROVE  Waits(g, i) /\ ~(g = f /\ l = i + 3)
  <2>1. Built(g, i) /\ Scripts[g][i].object \in schema' /\ Scripts[g][i].does = "build"
    BY <1>4 DEF Waits, Built
  <2>2. Scripts[g][i].object # made
    BY <1>1, <2>1, OwnName
  <2>3. Scripts[g][i].object \in schema /\ Scripts[g][i].object # temp
    BY <1>2, <2>1, <2>2
  <2>4. ~(g = f /\ l = i + 3)
    <3>1. ASSUME g = f, l = i + 3 PROVE FALSE
      <4>1. i = k
        BY <1>1, <1>3, <3>1, ScriptLines
      <4> QED BY <1>3, <2>3, <3>1, <4>1
    <3> QED BY <3>1
  <2> QED BY <2>1, <2>3, <2>4 DEF Waits
<1>5. ASSUME NEW i \in DOMAIN Scripts[f], Built(f, i), l \in {i, i + 1, i + 2} PROVE Waits(f, i)'
  BY <1>5, LinesBefore
<1>6. ASSUME NEW h \in DOMAIN Scripts, NEW o \in Made(h), Present(o) PROVE Present(o)'
  <2>1. o # temp
    BY <1>3, NotTemporary
  <2>2. CASE o \in schema \/ o = made
    BY <1>2, <2>1, <2>2 DEF Present
  <2>3. CASE Lost(o) /\ o # made
    <3>1. PICK g \in DOMAIN Scripts : \E i \in DOMAIN Scripts[g] :
            /\ Waits(g, i) /\ Scripts[g][i + 2].object = o
            /\ ~(g = boot.file /\ boot.line = i + 1)
      BY <2>3, LostKnown
    <3>2. PICK i \in DOMAIN Scripts[g] :
            /\ Waits(g, i) /\ Scripts[g][i + 2].object = o
            /\ ~(g = boot.file /\ boot.line = i + 1)
      BY <3>1
    <3>3. Scripts[g][i].does = "build" /\ Scripts[f][k].does = "build" /\ Built(g, i)
      BY <1>3, <3>2, Rebuild, SMTT(20) DEF Waits
    <3>4. Scripts[g][i].object # temp
      <4>1. ASSUME Scripts[g][i].object = temp PROVE FALSE
        <5>1. g = f /\ i = k
          BY <1>1, <1>3, <3>3, <4>1, OwnName
        <5> QED BY <1>3, <2>3, <3>2, <5>1
      <4> QED BY <4>1
    <3>5. Waits(g, i)'
      BY <1>2, <3>2, <3>4 DEF Waits
    <3>6. ~(g = boot.file /\ i = boot.line)
      BY <3>3
    <3> QED BY <3>2, <3>5, <3>6, LostStays DEF Present
  <2> QED BY <1>6, <2>2, <2>3 DEF Present
<1>7. ASSUME NEW g \in DOMAIN Scripts, NEW i \in DOMAIN Scripts[g], Scripts[g][i].does = "column"
      PROVE  /\ Scripts[g][i].object \in schema => Scripts[g][i].object \in schema'
             /\ Scripts[g][i].object \in schema' =>
                  Scripts[g][i].object \in schema \/ (g = f /\ i = l)
  <2>1. Scripts[g][i].object # temp
    <3>1. Scripts[f][k].does = "build"
      BY <1>3, Rebuild
    <3>2. ASSUME Scripts[g][i].object = temp PROVE FALSE
      <4>1. g = f /\ i = k
        BY <1>1, <1>3, <1>7, <3>1, <3>2, OwnName
      <4> QED BY <1>7, <3>1, <4>1
    <3> QED BY <3>2
  <2>2. Scripts[g][i].object = made => g = f /\ i = l
    BY <1>1, <1>7, OwnName
  <2> QED BY <1>2, <2>1, <2>2
<1>8. PICK o : o = made
  OBVIOUS
<1>9. Present(o)'
  BY <1>2, <1>8 DEF Present
<1>10. o = Scripts[boot.file][boot.line].object
  BY <1>8
<1> HIDE DEF made, temp
<1> QED BY <1>4, <1>5, <1>6, <1>7, <1>9, <1>10, MovingParts

\* The rows of the old table are copied.
LEMMA CopyParts ==
    ASSUME StartupInv, Running, boot.line <= Len(Scripts[boot.file]),
           boot' = [boot EXCEPT !.line = @ + 1],
           loose' = loose, marked' = marked, torn' = torn, release' = release,
           Scripts[boot.file][boot.line].does = "copy", schema' = schema
    PROVE  RebuildsWait' /\ RebuildsRun' /\ MarkedMade' /\ RunMade' /\ ColumnsTell'
<1> DEFINE f == boot.file
           l == boot.line
<1>1. f \in DOMAIN Scripts /\ l \in DOMAIN Scripts[f] /\ l \in Nat /\ Runs(f)
  BY LineKnown, RunKnown
<1>2. \A g, i : Waits(g, i)' <=> Waits(g, i)
  BY DEF Waits
<1>3. ASSUME NEW g \in DOMAIN Scripts, NEW i \in DOMAIN Scripts[g], Waits(g, i)
      PROVE  ~(g = f /\ l = i + 3) /\ ~(g = f /\ i = l)
  BY <1>3, LinesBefore DEF Waits
<1>4. ASSUME NEW i \in DOMAIN Scripts[f], Built(f, i), l \in {i, i + 1, i + 2} PROVE Waits(f, i)'
  <2>1. l = i + 1
    BY <1>4, LinesBefore
  <2>2. Swaps(f, i)
    BY <1>1, <2>1 DEF Swaps
  <2> QED BY <1>1, <1>2, <1>4, <2>2 DEF StartupInv, RebuildsRun
<1>5. ASSUME NEW o, Present(o) PROVE Present(o)'
  <2>1. CASE o \in schema
    BY <2>1 DEF Present
  <2>2. CASE Lost(o)
    <3>1. PICK g \in DOMAIN Scripts : \E i \in DOMAIN Scripts[g] :
            /\ Waits(g, i) /\ Scripts[g][i + 2].object = o
            /\ ~(g = boot.file /\ boot.line = i + 1)
      BY <2>2, LostKnown
    <3>2. PICK i \in DOMAIN Scripts[g] :
            /\ Waits(g, i) /\ Scripts[g][i + 2].object = o
            /\ ~(g = boot.file /\ boot.line = i + 1)
      BY <3>1
    <3>3. Waits(g, i)' /\ ~(g = boot.file /\ i = boot.line)
      BY <1>2, <1>3, <3>2
    <3> QED BY <3>2, <3>3, LostStays DEF Present
  <2> QED BY <1>5, <2>1, <2>2 DEF Present
<1>6. "copy" \notin Making
  BY DEF Making
<1>7. PICK made : made = Scripts[boot.file][boot.line].object
  OBVIOUS
<1> QED BY <1>2, <1>3, <1>4, <1>5, <1>6, <1>7, MovingParts

\* A statement is run.
LEMMA StatementParts ==
    ASSUME StartupInv, RunStatement
    PROVE  RebuildsWait' /\ RebuildsRun' /\ MarkedMade' /\ RunMade' /\ ColumnsTell'
<1> DEFINE st == Scripts[boot.file][boot.line]
<1>1. /\ Running /\ boot.line <= Len(Scripts[boot.file])
      /\ ~Duplicate(st) /\ ~Refused(st) /\ schema' = Effect(st)
      /\ boot' = [boot EXCEPT !.line = @ + 1]
      /\ loose' = loose /\ marked' = marked /\ torn' = torn /\ release' = release
  BY DEF RunStatement, Script
<1>2. st.does \in {"create", "column", "build", "copy", "drop", "rename"}
  BY <1>1, LineKnown
<1>3. CASE st.does \in {"create", "column"}
  <2>1. schema' = schema \cup {st.object}
    BY <1>1, <1>3 DEF Effect
  <2> QED BY <1>1, <1>3, <2>1, GrowParts
<1>4. CASE st.does = "build"
  <2>1. schema' = schema \cup {st.object} /\ st.object \notin schema
    BY <1>1, <1>4 DEF Effect, Refused
  <2> QED BY <1>1, <1>4, <2>1, BuildParts
<1>5. CASE st.does = "drop"
  <2>1. schema' = schema \ {st.object}
    BY <1>1, <1>5 DEF Effect
  <2> QED BY <1>1, <1>5, <2>1, DropParts
<1>6. CASE st.does = "rename"
  <2>1. schema' = (schema \ {st.from}) \cup {st.object}
    BY <1>1, <1>6 DEF Effect
  <2> QED BY <1>1, <1>6, <2>1, RenameParts
<1>7. CASE st.does = "copy"
  <2>1. schema' = schema
    BY <1>1, <1>7 DEF Effect
  <2> QED BY <1>1, <1>7, <2>1, CopyParts
<1> QED BY <1>2, <1>3, <1>4, <1>5, <1>6, <1>7

\* "duplicate column name": the script has been run to its end, or the rest was cut off.
LEMMA AppliedParts ==
    ASSUME StartupInv, TakeAsApplied
    PROVE  RebuildsWait' /\ RebuildsRun' /\ MarkedMade' /\ RunMade' /\ ColumnsTell'
<1> DEFINE f == boot.file
           l == boot.line
<1>1. /\ Running /\ l <= Len(Scripts[f]) /\ Scripts[f][l].does = "column"
      /\ Scripts[f][l].object \in schema
      /\ boot' = [boot EXCEPT !.line = Len(Scripts[f]) + 1]
      /\ schema' = schema /\ loose' = loose /\ marked' = marked /\ torn' = torn
      /\ release' = release
  BY DEF TakeAsApplied, Script, Duplicate
<1>2. /\ f \in DOMAIN Scripts /\ l \in DOMAIN Scripts[f] /\ l \in Nat /\ l > 0 /\ f \notin marked /\ Runs(f)
      /\ \A g : Runs(g) <=> g = f
  BY <1>1, LineKnown, RunKnown
<1>3. Len(Scripts[f]) \in Nat
  BY <1>2, ScriptLines
<1>4. boot'.at = "files" /\ boot'.file = f /\ boot'.line = Len(Scripts[f]) + 1
  BY <1>1, BootKnown DEF Running
<1>5. \A g : Runs(g)' <=> g = f
  BY <1>3, <1>4 DEF Runs
<1>6. f \notin torn => \A o \in Made(f) : Present(o)
  <2>1. ~Past(f, l)
    BY <1>2 DEF Past
  <2> QED BY <1>1, <1>2, <2>1 DEF StartupInv, ColumnsTell
<1>7. \A g, i : Built(g, i) => g # f
  BY <1>1, <1>2, Rebuild
<1> HIDE DEF f, l
<1>8. \A g, i : Waits(g, i)' <=> Waits(g, i)
  BY <1>1 DEF Waits
<1>9. \A g, i : g # f => ~Swaps(g, i) /\ ~Swaps(g, i)' /\ ~Past(g, i) /\ ~Past(g, i)'
  BY <1>2, <1>5 DEF Swaps, Past
<1>10. ASSUME NEW o, Present(o) PROVE Present(o)'
  <2>1. CASE o \in schema
    BY <1>1, <2>1 DEF Present
  <2>2. CASE Lost(o)
    <3>1. PICK g \in DOMAIN Scripts : \E i \in DOMAIN Scripts[g] :
            Waits(g, i) /\ Scripts[g][i + 2].object = o
      BY <2>2 DEF Lost
    <3>2. PICK i \in DOMAIN Scripts[g] : Waits(g, i) /\ Scripts[g][i + 2].object = o
      BY <3>1
    <3>3. Waits(g, i)' /\ g # f
      BY <1>7, <1>8, <3>2 DEF Waits
    <3>4. ~(Runs(g) /\ boot.line \in {i + 1, i + 2})'
      BY <1>5, <3>3
    <3> QED BY <3>2, <3>3, <3>4 DEF Present, Lost
  <2> QED BY <1>10, <2>1, <2>2 DEF Present
<1>11. RebuildsWait'
  <2>1. ASSUME NEW g \in DOMAIN Scripts, NEW i \in DOMAIN Scripts[g], Waits(g, i)'
        PROVE  /\ g <= release /\ g \notin marked /\ 1..(g - 1) \subseteq marked
               /\ Broken(g, i)' /\ ~Past(g, i)'
    <3>1. Waits(g, i) /\ g # f
      BY <1>7, <1>8, <2>1 DEF Waits
    <3>2. Broken(g, i)' <=> Broken(g, i)
      BY <1>1 DEF Broken, Source
    <3> QED BY <1>9, <3>1, <3>2 DEF StartupInv, RebuildsWait
  <2> QED BY <1>1, <2>1 DEF RebuildsWait
<1>12. RebuildsRun'
  BY <1>7, <1>9 DEF RebuildsRun, Built
<1>16. \A g, j : Fine(g, j) => Fine(g, j)'
  BY <1>1, <1>10 DEF Fine, CutOff
<1>13. MarkedMade'
  BY <1>1, <1>16 DEF StartupInv, MarkedMade, AllFine
<1>17. ASSUME NEW j \in DOMAIN Scripts[f], Scripts[f][j].does \in Making PROVE Fine(f, j)
  <2>1. CASE f \notin torn
    <3>1. Scripts[f][j].object \in Made(f)
      BY <1>2, <1>17, MadeLines
    <3> QED BY <1>6, <2>1, <3>1 DEF Fine
  <2>2. CASE f \in torn /\ l < j
    <3>1. l \in LinesThat(f, "column")
      BY <1>1, <1>2 DEF LinesThat
    <3> QED BY <1>1, <2>2, <3>1 DEF Fine, CutOff
  <2>3. CASE j = l
    BY <1>1, <2>3 DEF Fine, Present
  <2>4. CASE j < l
    BY <1>2, <1>17, <2>4 DEF StartupInv, RunMade, l
  <2> QED BY <1>2, <2>1, <2>2, <2>3, <2>4, ScriptLines
<1>14. RunMade'
  BY <1>5, <1>16, <1>17 DEF RunMade
<1>15. ColumnsTell'
  <2>1. ASSUME NEW g \in DOMAIN Scripts \ (marked \cup torn), NEW i \in DOMAIN Scripts[g],
               Scripts[g][i].does = "column", Scripts[g][i].object \in schema, NEW o \in Made(g)
        PROVE  Present(o)'
    <3>1. CASE g = f
      BY <1>6, <1>10, <2>1, <3>1
    <3>2. CASE g # f
      <4>1. Present(o)
        BY <1>9, <2>1, <3>2 DEF StartupInv, ColumnsTell
      <4> QED BY <1>10, <4>1
    <3> QED BY <3>1, <3>2
  <2> QED BY <1>1, <2>1 DEF ColumnsTell
<1> QED BY <1>11, <1>12, <1>13, <1>14, <1>15

-----------------------------------------------------------------------------
\* The ends of a script

\* What a rebuild copies and drops was made by an earlier script; it can only be gone when
\* the rebuild broke off between its drop and its rename.
LEMMA SourceGone ==
    ASSUME StartupInv, Running, boot.line <= Len(Scripts[boot.file]),
           NEW k, Built(boot.file, k), boot.line \in {k + 1, k + 2}, Source(boot.file, k) \notin schema
    PROVE  Broken(boot.file, k)
<1> DEFINE f == boot.file
           l == boot.line
<1>1. /\ f \in DOMAIN Scripts /\ l \in Nat /\ f \notin marked /\ 1..(f - 1) \subseteq marked /\ f \in Nat
      /\ \A g : Runs(g) <=> g = f
  BY RunKnown, ScriptLines
<1>2. /\ k + 2 \in DOMAIN Scripts[f] /\ Scripts[f][k + 2].does = "drop" /\ k \in Nat
      /\ Source(f, k) = Scripts[f][k + 2].object
  BY Rebuild
<1>3. PICK g \in 1..(f - 1) : Scripts[f][k + 2].object \in Made(g) /\ LinesThat(g, "column") = {}
  BY <1>1, <1>2, InRebuild
<1>4. g \in marked /\ g \in DOMAIN Scripts
  BY <1>1, <1>3, BootKnown
<1>5. PICK j \in DOMAIN Scripts[g] : Scripts[g][j].does \in Making /\ Scripts[g][j].object = Source(f, k)
  BY <1>2, <1>3, <1>4, MadeLines
<1>6. Fine(g, j)
  BY <1>4, <1>5 DEF StartupInv, MarkedMade, AllFine
<1>7. Lost(Source(f, k))
  BY <1>3, <1>5, <1>6 DEF Fine, CutOff, Present
<1>8. PICK h \in DOMAIN Scripts : \E i \in DOMAIN Scripts[h] :
        /\ Waits(h, i) /\ Scripts[h][i + 2].object = Source(f, k)
        /\ ~(Runs(h) /\ boot.line \in {i + 1, i + 2})
  BY <1>7 DEF Lost
<1>9. PICK i \in DOMAIN Scripts[h] :
        /\ Waits(h, i) /\ Scripts[h][i + 2].object = Source(f, k)
        /\ ~(Runs(h) /\ boot.line \in {i + 1, i + 2})
  BY <1>8
<1>10. h \notin marked /\ 1..(h - 1) \subseteq marked /\ (Swaps(h, i) \/ Broken(h, i))
  BY <1>9 DEF StartupInv, RebuildsWait
<1>11. h = f
  <2>1. h \in Nat /\ h >= 1 /\ f >= 1
    BY <1>1, ScriptLines
  <2>2. ASSUME h < f PROVE FALSE
    <3>1. h \in 1..(f - 1)
      BY <1>1, <2>1, <2>2
    <3> QED BY <1>1, <1>10, <3>1
  <2>3. ASSUME f < h PROVE FALSE
    <3>1. f \in 1..(h - 1)
      BY <1>1, <2>1, <2>3
    <3> QED BY <1>1, <1>10, <3>1
  <2> QED BY <1>1, <2>1, <2>2, <2>3
<1>12. Built(f, i) /\ Source(f, i) = Source(f, k)
  <2>1. Waits(f, i) /\ Scripts[f][i + 2].object = Source(f, k)
    BY <1>9, <1>11
  <2>2. Built(f, i)
    BY <2>1 DEF Waits
  <2>3. Source(f, i) = Scripts[f][i + 2].object
    BY <2>2, Rebuild, SMTT(60) DEF Source
  <2> QED BY <2>1, <2>2, <2>3
<1>13. ~Swaps(f, i)
  <2>1. ASSUME Swaps(f, i) PROVE FALSE
    <3>1. l = i + 3
      BY <1>1, <1>9, <1>11, <2>1 DEF Swaps
    <3> QED BY <1>12, <3>1, LinesBefore
  <2> QED BY <2>1
<1> QED BY <1>10, <1>11, <1>12, <1>13 DEF Broken

\* Every statement can be run again, unless it is in a rebuild that broke off.
LEMMA RefusedMeansBroken ==
    ASSUME StartupInv, Running, boot.line <= Len(Scripts[boot.file]),
           Refused(Scripts[boot.file][boot.line])
    PROVE  /\ \E i \in DOMAIN Scripts[boot.file] : Waits(boot.file, i) /\ Broken(boot.file, i)
           /\ \A i \in DOMAIN Scripts[boot.file] : Swaps(boot.file, i) /\ Waits(boot.file, i) => Broken(boot.file, i)
           /\ \A j \in DOMAIN Scripts[boot.file] : Scripts[boot.file][j].does # "column"
<1> DEFINE f == boot.file
           l == boot.line
           st == Scripts[f][l]
<1>1. /\ f \in DOMAIN Scripts /\ l \in DOMAIN Scripts[f] /\ l \in Nat /\ l > 0 /\ Runs(f)
      /\ \A g : Runs(g) <=> g = f
  BY LineKnown, RunKnown
<1>2. CASE st.does = "build" /\ st.object \in schema
  <2>1. Built(f, l)
    BY <1>1, <1>2 DEF Built
  <2>2. Waits(f, l) /\ ~Swaps(f, l)
    BY <1>1, <1>2, <2>1 DEF Waits, Swaps
  <2>3. Broken(f, l)
    BY <1>1, <2>2 DEF StartupInv, RebuildsWait
  <2>4. \A i \in DOMAIN Scripts[f] : Waits(f, i) => ~Swaps(f, i)
    BY <1>2, LinesBefore DEF Waits, Swaps
  <2> QED BY <1>1, <2>1, <2>2, <2>3, <2>4, Rebuild
<1>3. ASSUME NEW k, Built(f, k), l \in {k + 1, k + 2}, Broken(f, k)
      PROVE  /\ \E i \in DOMAIN Scripts[f] : Waits(f, i) /\ Broken(f, i)
             /\ \A i \in DOMAIN Scripts[f] : Swaps(f, i) /\ Waits(f, i) => Broken(f, i)
             /\ \A j \in DOMAIN Scripts[f] : Scripts[f][j].does # "column"
  <2>1. k \in DOMAIN Scripts[f] /\ k \in Nat
    BY <1>3, Rebuild
  <2>2. Waits(f, k)
    BY <1>1, <1>3, <2>1 DEF StartupInv, RebuildsRun, Swaps
  <2>3. ASSUME NEW i \in DOMAIN Scripts[f], Swaps(f, i), Waits(f, i) PROVE i = k
    <3>1. i \in Nat /\ l \in {i + 1, i + 2, i + 3} /\ Built(f, i)
      BY <1>1, <2>3, ScriptLines DEF Swaps, Waits
    <3>2. /\ l = i + 1 => Scripts[f][l].does = "copy"
          /\ l = i + 2 => Scripts[f][l].does = "drop"
          /\ l = i + 3 => Scripts[f][l].does = "rename"
      BY <3>1, LinesBefore
    <3>3. /\ l = k + 1 => Scripts[f][l].does = "copy"
          /\ l = k + 2 => Scripts[f][l].does = "drop"
      BY <1>3, LinesBefore
    <3>4. PICK does : does = Scripts[f][l].does
      OBVIOUS
    <3>5. (l = i + 1 /\ does = "copy") \/ (l = i + 2 /\ does = "drop") \/ (l = i + 3 /\ does = "rename")
      BY <3>1, <3>2, <3>4
    <3>6. (l = k + 1 /\ does = "copy") \/ (l = k + 2 /\ does = "drop")
      BY <1>3, <3>3, <3>4
    <3> QED BY <1>1, <2>1, <3>1, <3>5, <3>6
  <2> QED BY <1>3, <2>1, <2>2, <2>3, Rebuild
<1>4. CASE st.does = "copy" /\ (st.from \in loose \/ st.from \notin schema)
  <2>1. Built(f, l - 1) /\ l = (l - 1) + 1
    BY <1>1, <1>4, InRebuild
  <2>2. Source(f, l - 1) = st.from
    BY <2>1 DEF Source
  <2>3. Broken(f, l - 1)
    <3>1. CASE st.from \in loose
      BY <2>2, <3>1 DEF Broken
    <3>2. CASE st.from \notin schema
      BY <2>1, <2>2, <3>2, SourceGone
    <3> QED BY <1>4, <3>1, <3>2
  <2> QED BY <1>3, <2>1, <2>3
<1>5. CASE st.does = "drop" /\ st.object \notin schema
  <2>1. Built(f, l - 2) /\ l = (l - 2) + 2
    BY <1>1, <1>5, InRebuild
  <2>2. Source(f, l - 2) = st.object
    BY <2>1, Rebuild
  <2>3. Broken(f, l - 2)
    BY <1>5, <2>1, <2>2, SourceGone
  <2> QED BY <1>3, <2>1, <2>3
<1> QED BY <1>2, <1>4, <1>5 DEF Refused

\* The start fails.
LEMMA ScriptFailsParts ==
    ASSUME StartupInv, ScriptFails
    PROVE  RebuildsWait' /\ RebuildsRun' /\ MarkedMade' /\ RunMade' /\ ColumnsTell'
<1>1. /\ Running /\ boot.line <= Len(Scripts[boot.file]) /\ Refused(Scripts[boot.file][boot.line])
      /\ boot' = Stage("failed", 0, 0)
      /\ schema' = schema /\ loose' = loose /\ marked' = marked /\ torn' = torn /\ release' = release
  BY DEF ScriptFails, Script
<1>2. /\ \A i \in DOMAIN Scripts[boot.file] :
           Swaps(boot.file, i) /\ Waits(boot.file, i) => Broken(boot.file, i)
      /\ \A j \in DOMAIN Scripts[boot.file] : Scripts[boot.file][j].does # "column"
  BY <1>1, RefusedMeansBroken
<1>3. boot'.at = "failed" /\ boot'.line = 0
  BY <1>1 DEF Stage
<1>4. ~(boot'.at = "files" /\ boot'.line > 1) /\ boot'.line \in Nat /\ release' \in Nat /\ release <= release'
  BY <1>1, <1>3, BootKnown
<1>5. \A f \in DOMAIN Scripts : \A i \in DOMAIN Scripts[f] : Waits(f, i) =>
        f \notin marked' /\ (Broken(f, i) \/ Swaps(f, i) => Broken(f, i)')
  <2>1. ASSUME NEW f \in DOMAIN Scripts, NEW i \in DOMAIN Scripts[f], Waits(f, i)
        PROVE  f \notin marked' /\ (Broken(f, i) \/ Swaps(f, i) => Broken(f, i)')
    <3>1. Swaps(f, i) => Broken(f, i)
      BY <1>2, <2>1 DEF Swaps, Runs
    <3>2. Broken(f, i)' <=> Broken(f, i)
      BY <1>1 DEF Broken, Source
    <3> QED BY <1>1, <2>1, <3>1, <3>2 DEF StartupInv, RebuildsWait
  <2> QED BY <2>1
<1>6. \A f \in DOMAIN Scripts : \A i \in DOMAIN Scripts[f] : Past(f, i) => Scripts[f][i].does # "column"
  BY <1>2 DEF Past, Runs
<1> QED BY <1>1, <1>4, <1>5, <1>6, RestingParts

\* A script is marked.
LEMMA MarkScriptParts ==
    ASSUME StartupInv, MarkScript
    PROVE  RebuildsWait' /\ RebuildsRun' /\ MarkedMade' /\ RunMade' /\ ColumnsTell'
<1> DEFINE f == boot.file
<1>1. /\ Running /\ boot.line = Len(Scripts[f]) + 1 /\ marked' = marked \cup {f}
      /\ boot' = Stage("files", f + 1, 0)
      /\ schema' = schema /\ loose' = loose /\ torn' = torn /\ release' = release
  BY DEF MarkScript, Script
<1>2. boot'.line = 0
  BY <1>1 DEF Stage
<1>3. ~(boot'.at = "files" /\ boot'.line > 1) /\ boot'.line \in Nat /\ release' \in Nat /\ release <= release'
  BY <1>1, <1>2, BootKnown
<1>4. \A g : Runs(g) <=> g = f
  BY <1>1, RunKnown
<1>5. \A i \in DOMAIN Scripts[f] : ~Waits(f, i)
  BY <1>1, NothingWaitsAtEnd
<1>6. AllFine(f)
  BY <1>1, AllMadeAtEnd
<1> HIDE DEF f
<1>7. \A g \in DOMAIN Scripts : \A i \in DOMAIN Scripts[g] : Waits(g, i) =>
        g \notin marked' /\ (Broken(g, i) \/ Swaps(g, i) => Broken(g, i)')
  BY <1>1, <1>4, <1>5 DEF StartupInv, RebuildsWait, Swaps, Broken, Source
<1>8. \A g \in marked' \ marked : AllFine(g)
  BY <1>1, <1>6
<1>9. \A g \in DOMAIN Scripts \ (marked' \cup torn') : \A i \in DOMAIN Scripts[g] : ~Past(g, i)
  BY <1>1, <1>4 DEF Past
<1> QED BY <1>1, <1>3, <1>7, <1>8, <1>9, RestingParts

\* The process is killed.
LEMMA KillParts ==
    ASSUME StartupInv, Kill
    PROVE  RebuildsWait' /\ RebuildsRun' /\ MarkedMade' /\ RunMade' /\ ColumnsTell'
<1> DEFINE f == boot.file
<1>1. /\ boot' = Stage("down", 0, 0)
      /\ torn' = IF Running /\ boot.line \in 2..Len(Scripts[f]) THEN torn \cup {f} ELSE torn
      /\ schema' = schema /\ loose' = loose /\ marked' = marked /\ release' = release
  BY DEF Kill, Script
<1>2. boot'.at = "down" /\ boot'.line = 0
  BY <1>1 DEF Stage
<1>3. ~(boot'.at = "files" /\ boot'.line > 1) /\ boot'.line \in Nat /\ release' \in Nat /\ release <= release'
  BY <1>1, <1>2, BootKnown
<1>4. \A g \in DOMAIN Scripts : \A i \in DOMAIN Scripts[g] :
        Waits(g, i) => g \notin marked' /\ (Broken(g, i) => Broken(g, i)')
  BY <1>1 DEF StartupInv, RebuildsWait, Broken, Source
<1>5. ASSUME NEW g \in DOMAIN Scripts, NEW i \in DOMAIN Scripts[g], Past(g, i)
      PROVE  /\ Running /\ g = f /\ i \in Nat /\ i >= 1 /\ boot.line > i
             /\ boot.line \in Nat /\ Len(Scripts[f]) \in Nat
             /\ boot.line \in 2..Len(Scripts[f]) \/ boot.line = Len(Scripts[f]) + 1
  <2>1. Running /\ g = f /\ boot.line > i
    BY <1>5 DEF Past, Runs, Running
  <2>2. /\ i \in Nat /\ i >= 1 /\ Len(Scripts[f]) \in Nat /\ boot.line \in Nat
        /\ boot.line <= Len(Scripts[f]) + 1
    BY <2>1, ScriptLines, RunKnown
  <2> QED BY <2>1, <2>2
<1>6. ASSUME NEW g \in DOMAIN Scripts, NEW i \in DOMAIN Scripts[g], Waits(g, i), Swaps(g, i)
      PROVE  Broken(g, i)'
  <2>1. Past(g, i)
    <3>1. i \in Nat
      BY ScriptLines
    <3> QED BY <1>6, <3>1 DEF Past, Swaps
  <2>2. Running /\ g = f /\ i \in DOMAIN Scripts[f]
    BY <1>5, <2>1
  <2>3. boot.line # Len(Scripts[f]) + 1
    BY <1>6, <2>2, NothingWaitsAtEnd
  <2>4. boot.line \in 2..Len(Scripts[f])
    BY <1>5, <2>1, <2>3
  <2> QED BY <1>1, <2>2, <2>4 DEF Broken
<1>7. ASSUME NEW g \in DOMAIN Scripts \ (marked' \cup torn'), NEW i \in DOMAIN Scripts[g], Past(g, i),
             NEW o \in Made(g)
      PROVE  Present(o)
  <2>1. Running /\ g = f
    BY <1>5, <1>7
  <2>2. boot.line = Len(Scripts[f]) + 1
    BY <1>1, <1>5, <1>7, <2>1
  <2>3. f \notin torn
    BY <1>1, <1>7, <2>1
  <2>4. AllFine(g)
    BY <2>1, <2>2, AllMadeAtEnd
  <2> QED BY <1>7, <2>1, <2>3, <2>4, FineUncut
<1>8. marked' \ marked = {} /\ torn \subseteq torn' /\ marked \subseteq marked'
  BY <1>1
<1> QED BY <1>1, <1>3, <1>4, <1>6, <1>7, <1>8, RestingParts

\* The other steps.
LEMMA OtherParts ==
    ASSUME StartupInv,
           \/ Boot \/ OpenScript \/ SkipScript \/ FilesDone \/ SecretsDone \/ SeedAdmin \/ Upgrade
           \/ RestartService \/ (\E k \in Kept : EncryptLegacy(k) \/ StoreSecret(k))
           \/ \E t \in Copied : EditRows(t)
    PROVE  RebuildsWait' /\ RebuildsRun' /\ MarkedMade' /\ RunMade' /\ ColumnsTell'
<1>1. schema' = schema /\ marked' = marked /\ torn' = torn
  BY DEF Boot, OpenScript, SkipScript, FilesDone, SecretsDone, SeedAdmin, Upgrade, RestartService,
         EncryptLegacy, StoreSecret, EditRows
<1>2. release' \in Nat /\ release <= release'
  <2>1. release' \in {release, release + 1}
    BY DEF Boot, OpenScript, SkipScript, FilesDone, SecretsDone, SeedAdmin, Upgrade, RestartService,
           EncryptLegacy, StoreSecret, EditRows
  <2> QED BY <2>1, BootKnown
<1>3. ~Running
  <2>1. ASSUME Running, FilesDone PROVE FALSE
    BY <2>1, BootKnown, RunKnown DEF FilesDone
  <2>2. boot.line = 0 \/ boot.at # "files" \/ FilesDone
    BY DEF Boot, OpenScript, SkipScript, SecretsDone, SeedAdmin, Upgrade, RestartService,
           EncryptLegacy, StoreSecret, EditRows
  <2> QED BY <2>1, <2>2, BootKnown DEF Running
<1>4. ~(boot'.at = "files" /\ boot'.line > 1) /\ boot'.line \in Nat
  BY BootKnown
     DEF Boot, OpenScript, SkipScript, FilesDone, SecretsDone, SeedAdmin, Upgrade, RestartService,
         EncryptLegacy, StoreSecret, EditRows, Stage
<1>5. \A f \in DOMAIN Scripts : \A i \in DOMAIN Scripts[f] : Waits(f, i) => loose' = loose
  <2>1. CASE boot.at = "up"
    <3>1. 1..release \subseteq marked /\ release \in Nat
      BY <2>1, BootKnown DEF StartupInv, Progress
    <3>2. \A f \in DOMAIN Scripts : f \in Nat /\ f >= 1
      BY ScriptLines
    <3> QED BY <3>1, <3>2 DEF StartupInv, RebuildsWait
  <2>2. CASE loose' = loose
    BY <2>2
  <2>3. boot.at = "up" \/ loose' = loose
    BY DEF Boot, OpenScript, SkipScript, FilesDone, SecretsDone, SeedAdmin, Upgrade, RestartService,
           EncryptLegacy, StoreSecret, EditRows
  <2> QED BY <2>1, <2>2, <2>3
<1> QED BY <1>1, <1>2, <1>3, <1>4, <1>5, StandingParts

\* Every step keeps what is known of the scripts and the tables.
LEMMA PartsKeep ==
    ASSUME StartupInv, [StartupNext]_startupVars
    PROVE  RebuildsWait' /\ RebuildsRun' /\ MarkedMade' /\ RunMade' /\ ColumnsTell'
<1>1. CASE UNCHANGED startupVars
  <2>1. /\ schema' = schema /\ loose' = loose /\ marked' = marked /\ torn' = torn
        /\ release' = release /\ boot' = boot
    BY <1>1 DEF startupVars
  <2>2. RebuildsWait /\ RebuildsRun /\ MarkedMade /\ RunMade /\ ColumnsTell
    BY DEF StartupInv
  <2>3. (\A f, i : Waits(f, i)' <=> Waits(f, i)) /\ (\A f : Runs(f)' <=> Runs(f))
    BY <2>1 DEF Waits, Runs
  <2>4. /\ \A f, i : Past(f, i)' <=> Past(f, i)
        /\ \A f, i : Swaps(f, i)' <=> Swaps(f, i)
    BY <2>1, <2>3 DEF Past, Swaps
  <2>5. \A o : Present(o)' <=> Present(o)
    BY <2>1, <2>3 DEF Present, Lost
  <2>6. /\ \A f, i : Broken(f, i)' <=> Broken(f, i)
        /\ \A f, j : CutOff(f, j)' <=> CutOff(f, j)
    BY <2>1 DEF Broken, Source, CutOff
  <2>7. /\ \A f, j : Fine(f, j)' <=> Fine(f, j)
        /\ \A f : AllFine(f)' <=> AllFine(f)
    BY <2>5, <2>6 DEF Fine, AllFine
  <2> QED BY <2>1, <2>2, <2>3, <2>4, <2>5, <2>6, <2>7, Zenon
          DEF RebuildsWait, RebuildsRun, MarkedMade, RunMade, ColumnsTell
<1>2. CASE \/ Boot \/ OpenScript \/ SkipScript \/ FilesDone \/ SecretsDone \/ SeedAdmin \/ Upgrade
           \/ RestartService \/ (\E k \in Kept : EncryptLegacy(k) \/ StoreSecret(k))
           \/ \E t \in Copied : EditRows(t)
  BY <1>2, OtherParts
<1> QED BY <1>1, <1>2, StatementParts, AppliedParts, ScriptFailsParts, MarkScriptParts, KillParts
        DEF StartupNext

\* The process at a line of a script.
LEMMA FilesFields ==
    ASSUME NEW file \in 0..Len(Scripts) + 1, NEW line \in Nat, boot' = Stage("files", file, line)
    PROVE  /\ boot' \in [at : Stages, file : 0..Len(Scripts) + 1, line : Nat]
           /\ boot'.at = "files" /\ boot'.file = file /\ boot'.line = line
BY DEF Stage, Stages

\* Types and the process's way through the scripts.
LEMMA ProgressKeeps == ASSUME StartupInv, [StartupNext]_startupVars PROVE StartupTypeOK' /\ Progress'
<1>1. /\ boot \in [at : Stages, file : 0..Len(Scripts) + 1, line : Nat]
      /\ boot.line \in Nat /\ boot.file \in Nat /\ release \in Nat /\ Len(Scripts) \in Nat
      /\ release <= Len(Scripts) /\ DOMAIN Scripts = 1..Len(Scripts)
      /\ marked \subseteq DOMAIN Scripts /\ torn \subseteq DOMAIN Scripts /\ marked \subseteq 1..release
      /\ \A f \in DOMAIN Scripts : Len(Scripts[f]) \in Nat
  BY BootKnown, ScriptLines DEF StartupInv, Progress
<1>2. /\ StartupTypeOK /\ Progress
  BY DEF StartupInv
<1>3. MaxKills \in Nat
  BY StartupAssumption
<1>4. \A at \in Stages, file \in 0..Len(Scripts) + 1, line \in Nat :
        /\ Stage(at, file, line) \in [at : Stages, file : 0..Len(Scripts) + 1, line : Nat]
        /\ Stage(at, file, line).at = at /\ Stage(at, file, line).file = file
        /\ Stage(at, file, line).line = line
  BY DEF Stage
<1>5. {"down", "files", "secrets", "seed", "up", "failed"} = Stages /\ "files" \in Stages
  BY DEF Stages
<1> DEFINE BootType == [at : Stages, file : 0..Len(Scripts) + 1, line : Nat]
           InScripts == /\ boot.file \in 1..(release + 1) /\ 1..(boot.file - 1) \subseteq marked
                        /\ boot.line > 0 => /\ boot.file <= release /\ boot.file \notin marked
                                            /\ boot.line <= Len(Scripts[boot.file]) + 1
           Rest == /\ sealed' \subseteq Kept /\ secret' \in [Kept -> {"none", "plain", "sealed", "twice"}]
                   /\ admin' \in BOOLEAN /\ password' \in BOOLEAN
                   /\ torn' \subseteq DOMAIN Scripts /\ kills' \in 0..MaxKills /\ loose' \subseteq Copied
<1>6. Rest
  <2>1. /\ sealed \subseteq Kept /\ secret \in [Kept -> {"none", "plain", "sealed", "twice"}]
        /\ admin \in BOOLEAN /\ password \in BOOLEAN /\ kills \in 0..MaxKills
    BY <1>2, Zenon DEF StartupTypeOK
  <2>2. sealed' \subseteq Kept /\ secret' \in [Kept -> {"none", "plain", "sealed", "twice"}]
    <3>1. CASE sealed' = sealed /\ secret' = secret
      BY <2>1, <3>1
    <3>2. ASSUME NEW k \in Kept, EncryptLegacy(k) \/ StoreSecret(k)
          PROVE  sealed' \subseteq Kept /\ secret' \in [Kept -> {"none", "plain", "sealed", "twice"}]
      <4>1. sealed' \subseteq Kept
        BY <2>1, <3>2 DEF EncryptLegacy, StoreSecret, EditRows
      <4>2. PICK v \in {"none", "plain", "sealed", "twice"} : secret' = [secret EXCEPT ![k] = v]
        BY <2>1, <3>2 DEF EncryptLegacy, StoreSecret, Sealed
      <4> QED BY <2>1, <4>1, <4>2
    <3>3. (sealed' = sealed /\ secret' = secret) \/ \E k \in Kept : EncryptLegacy(k) \/ StoreSecret(k)
      BY DEF StartupNext, startupVars, Boot, OpenScript, SkipScript, RunStatement, TakeAsApplied,
             ScriptFails, MarkScript, FilesDone, SecretsDone, SeedAdmin, Upgrade, RestartService, Kill,
             EditRows
    <3> QED BY <3>1, <3>2, <3>3
  <2>3. admin' \in BOOLEAN /\ password' \in BOOLEAN
    <3>1. password' = password /\ (admin' = admin \/ admin' = TRUE)
      BY DEF StartupNext, startupVars, Boot, OpenScript, SkipScript, RunStatement, TakeAsApplied,
             ScriptFails, MarkScript, FilesDone, SecretsDone, SeedAdmin, Upgrade, RestartService, Kill,
             EncryptLegacy, StoreSecret, EditRows
    <3> QED BY <2>1, <3>1, Zenon
  <2>4. torn' \subseteq DOMAIN Scripts /\ kills' \in 0..MaxKills
    <3>1. CASE torn' = torn /\ kills' = kills
      BY <1>1, <2>1, <3>1
    <3>2. CASE Kill
      <4>1. Running => boot.file \in DOMAIN Scripts
        BY RunKnown
      <4> QED BY <1>1, <1>3, <2>1, <3>2, <4>1 DEF Kill
    <3>3. (torn' = torn /\ kills' = kills) \/ Kill
      BY DEF StartupNext, startupVars, Boot, OpenScript, SkipScript, RunStatement, TakeAsApplied,
             ScriptFails, MarkScript, FilesDone, SecretsDone, SeedAdmin, Upgrade, RestartService,
             EncryptLegacy, StoreSecret, EditRows
    <3> QED BY <3>1, <3>2, <3>3
  <2>5. loose' \subseteq Copied
    <3>1. loose \subseteq Copied
      BY <1>2 DEF StartupTypeOK
    <3>2. loose' = loose \/ \E t \in Copied : EditRows(t)
      BY DEF StartupNext, startupVars, Boot, OpenScript, SkipScript, RunStatement, TakeAsApplied,
             ScriptFails, MarkScript, FilesDone, SecretsDone, SeedAdmin, Upgrade, RestartService, Kill,
             EncryptLegacy, StoreSecret
    <3>3. ASSUME NEW t \in Copied, EditRows(t) PROVE loose' \subseteq Copied
      BY <3>1, <3>3 DEF EditRows
    <3> QED BY <3>1, <3>2, <3>3
  <2> QED BY <2>2, <2>3, <2>4, <2>5
<1> HIDE DEF Rest
<1>7. SUFFICES boot' \in BootType /\ release' \in 0..Len(Scripts) /\ Progress'
  <2>1. ASSUME boot' \in BootType, release' \in 0..Len(Scripts), Progress' PROVE StartupTypeOK'
    <3>1. marked' \subseteq 1..release'
      BY <2>1 DEF Progress
    <3>2. marked' \subseteq DOMAIN Scripts
      BY <1>1, <2>1, <3>1
    <3> QED BY <1>6, <2>1, <3>2, Zenon DEF StartupTypeOK, Rest
  <2> QED BY <2>1
<1>8. release \in 0..Len(Scripts) /\ 0 \in 0..Len(Scripts) + 1 /\ 0 \in Nat /\ 1 \in Nat
  BY <1>1
<1>9. boot.at = "files" => InScripts
  BY <1>2 DEF Progress
<1>10. boot.at \in {"secrets", "seed", "up"} => 1..release \subseteq marked
  BY <1>2 DEF Progress
\* A step to a stage outside the scripts.
<1>11. ASSUME NEW at \in Stages \ {"files"}, boot' = Stage(at, 0, 0),
              release' = release \/ (release' = release + 1 /\ release < Len(Scripts)),
              marked' = marked,
              at \in {"secrets", "seed", "up"} => release' = release /\ 1..release \subseteq marked
       PROVE  boot' \in BootType /\ release' \in 0..Len(Scripts) /\ Progress'
  <2>1. boot' \in BootType /\ boot'.at = at
    BY <1>4, <1>8, <1>11
  <2>2. release' \in 0..Len(Scripts) /\ marked' \subseteq 1..release'
    BY <1>1, <1>11
  <2>3. at # "files"
    BY <1>11
  <2> QED BY <1>11, <2>1, <2>2, <2>3 DEF Progress
<1>12. CASE UNCHANGED startupVars
  <2>1. boot' = boot /\ release' = release /\ marked' = marked
    BY <1>12 DEF startupVars
  <2> QED BY <1>1, <1>2, <1>8, <2>1 DEF Progress
<1>13. CASE FilesDone
  <2>1. 1..release \subseteq marked
    BY <1>1, <1>9, <1>13 DEF FilesDone
  <2> QED BY <1>5, <1>11, <1>13, <2>1 DEF FilesDone
<1>14. CASE SecretsDone \/ SeedAdmin
  BY <1>5, <1>10, <1>11, <1>14 DEF SecretsDone, SeedAdmin
<1>15. CASE ScriptFails \/ Upgrade \/ RestartService \/ Kill
  BY <1>5, <1>11, <1>15 DEF ScriptFails, Upgrade, RestartService, Kill
<1>16. ASSUME NEW k \in Kept, EncryptLegacy(k) \/ StoreSecret(k)
       PROVE  boot' \in BootType /\ release' \in 0..Len(Scripts) /\ Progress'
  <2>1. boot' = boot /\ release' = release /\ marked' = marked
    BY <1>16 DEF EncryptLegacy, StoreSecret, EditRows
  <2> QED BY <1>1, <1>2, <1>8, <2>1 DEF Progress
<1>22. ASSUME NEW t \in Copied, EditRows(t)
       PROVE  boot' \in BootType /\ release' \in 0..Len(Scripts) /\ Progress'
  <2>1. boot' = boot /\ release' = release /\ marked' = marked
    BY <1>22 DEF EditRows
  <2> QED BY <1>1, <1>2, <1>8, <2>1 DEF Progress
\* A step to a script, or in one.
<1>17. ASSUME NEW file \in 1..(release + 1), NEW line \in Nat, boot' \in BootType,
              boot'.at = "files", boot'.file = file, boot'.line = line, release' = release,
              marked \subseteq marked', marked' \subseteq 1..release, 1..(file - 1) \subseteq marked',
              line > 0 => file <= release /\ file \notin marked' /\ line <= Len(Scripts[file]) + 1
       PROVE  boot' \in BootType /\ release' \in 0..Len(Scripts) /\ Progress'
  BY <1>1, <1>17 DEF Progress
<1>18. CASE Boot
  <2>1. /\ boot' = Stage("files", 1, 0) /\ release' = release /\ marked' = marked
    BY <1>18 DEF Boot
  <2>2. 1 \in 1..(release + 1) /\ 1 \in 0..Len(Scripts) + 1 /\ 1..(1 - 1) = {}
    BY <1>1
  <2>3. boot' \in BootType /\ boot'.at = "files" /\ boot'.file = 1 /\ boot'.line = 0
    BY <1>5, <1>8, <2>1, <2>2, FilesFields
  <2> QED BY <1>1, <1>8, <1>17, <2>1, <2>2, <2>3
<1>19. CASE OpenScript
  <2>1. /\ boot' = Stage("files", boot.file, 1) /\ release' = release /\ marked' = marked
        /\ boot.at = "files" /\ boot.file <= release /\ boot.file \notin marked
    BY <1>19 DEF OpenScript
  <2>2. boot.file \in 1..(release + 1) /\ boot.file \in 0..Len(Scripts) + 1
    BY <1>1, <1>9, <2>1
  <2>3. boot' \in BootType /\ boot'.at = "files" /\ boot'.file = boot.file /\ boot'.line = 1
    BY <1>5, <1>8, <2>1, <2>2, FilesFields
  <2>4. 1 <= Len(Scripts[boot.file]) + 1
    BY <1>1, <2>1, <2>2
  <2> QED BY <1>1, <1>8, <1>9, <1>17, <2>1, <2>2, <2>3, <2>4
<1>20. CASE SkipScript \/ MarkScript
  <2>1. /\ boot' = Stage("files", boot.file + 1, 0) /\ release' = release
        /\ boot.at = "files" /\ boot.file <= release
        /\ marked' = marked \cup {boot.file}
    <3>1. CASE SkipScript
      BY <3>1 DEF SkipScript
    <3>2. CASE MarkScript
      BY <3>2, RunKnown DEF MarkScript, Running
    <3> QED BY <1>20, <3>1, <3>2
  <2>2. /\ boot.file \in 1..release /\ boot.file + 1 \in 1..(release + 1)
        /\ boot.file + 1 \in 0..Len(Scripts) + 1 /\ 1..((boot.file + 1) - 1) \subseteq marked'
    <3>1. boot.file \in 1..(release + 1) /\ 1..(boot.file - 1) \subseteq marked
      BY <1>9, <2>1
    <3>2. 1..((boot.file + 1) - 1) = 1..(boot.file - 1) \cup {boot.file}
      BY <1>1, <3>1
    <3>3. 1..((boot.file + 1) - 1) \subseteq marked'
      BY <2>1, <3>1, <3>2
    <3> QED BY <1>1, <2>1, <3>1, <3>3
  <2>3. boot' \in BootType /\ boot'.at = "files" /\ boot'.file = boot.file + 1 /\ boot'.line = 0
    BY <1>5, <1>8, <2>1, <2>2, FilesFields
  <2>4. marked \subseteq marked' /\ marked' \subseteq 1..release
    BY <1>1, <2>1, <2>2
  <2>5. PICK file \in 1..(release + 1) : file = boot.file + 1
    BY <2>2
  <2>6. 1..(file - 1) \subseteq marked' /\ boot'.file = file /\ ~(0 > 0)
    BY <2>2, <2>3, <2>5
  <2> QED BY <1>8, <1>17, <2>1, <2>3, <2>4, <2>5, <2>6
<1>21. CASE RunStatement \/ TakeAsApplied
  <2>1. /\ Running /\ boot.line <= Len(Scripts[boot.file]) /\ release' = release /\ marked' = marked
        /\ \/ boot' = [boot EXCEPT !.line = boot.line + 1]
           \/ boot' = [boot EXCEPT !.line = Len(Scripts[boot.file]) + 1]
    BY <1>21 DEF RunStatement, TakeAsApplied, Script
  <2>2. boot.at = "files" /\ boot.file \in DOMAIN Scripts /\ boot.file <= release /\ boot.file \notin marked
    BY <2>1, RunKnown DEF Running
  <2>3. PICK line \in Nat : boot' = [boot EXCEPT !.line = line] /\ line <= Len(Scripts[boot.file]) + 1
    BY <1>1, <2>1, <2>2
  <2>4. boot' \in BootType /\ boot'.at = "files" /\ boot'.file = boot.file /\ boot'.line = line
    BY <1>1, <2>2, <2>3
  <2> QED BY <1>1, <1>9, <1>17, <2>1, <2>2, <2>3, <2>4
<1> QED BY <1>12, <1>13, <1>14, <1>15, <1>16, <1>18, <1>19, <1>20, <1>21, <1>22 DEF StartupNext

\* Secrets are encrypted once, and before the administrator is seeded.
LEMMA SecretsKeep == ASSUME StartupInv, [StartupNext]_startupVars PROVE SecretsFit'
<1>1. /\ sealed \subseteq Kept /\ secret \in [Kept -> {"none", "plain", "sealed", "twice"}]
      /\ \A k \in Kept : secret[k] # "twice" /\ (k \in sealed => secret[k] # "plain")
      /\ boot.at \in {"seed", "up"} => sealed = Kept
  BY DEF StartupInv, StartupTypeOK, SecretsFit
<1>2. CASE /\ sealed' = sealed /\ secret' = secret
           /\ boot'.at \notin {"seed", "up"} \/ boot'.at = boot.at \/ SecretsDone \/ SeedAdmin
  <2>1. boot'.at \in {"seed", "up"} => sealed = Kept
    BY <1>1, <1>2 DEF SecretsDone, SeedAdmin
  <2> QED BY <1>1, <1>2, <2>1 DEF SecretsFit
<1>3. ASSUME NEW k \in Kept, EncryptLegacy(k) PROVE SecretsFit'
  <2>1. /\ boot' = boot /\ boot.at = "secrets" /\ sealed' = sealed \cup {k}
        /\ secret' = [secret EXCEPT ![k] = Sealed(secret[k])]
    BY <1>3 DEF EncryptLegacy
  <2>2. Sealed(secret[k]) \notin {"plain", "twice"}
    BY <1>1 DEF Sealed
  <2> QED BY <1>1, <2>1, <2>2 DEF SecretsFit
<1>4. ASSUME NEW k \in Kept, StoreSecret(k) PROVE SecretsFit'
  <2>1. boot' = boot /\ sealed' = sealed /\ secret' = [secret EXCEPT ![k] = "sealed"]
    BY <1>4 DEF StoreSecret
  <2> QED BY <1>1, <2>1 DEF SecretsFit
<1>5. CASE UNCHANGED startupVars
  BY <1>2, <1>5 DEF startupVars
<1>6. CASE Boot \/ ScriptFails \/ FilesDone \/ Upgrade \/ RestartService \/ Kill
  BY <1>2, <1>6 DEF Boot, ScriptFails, FilesDone, Upgrade, RestartService, Kill, Stage
<1>7. CASE OpenScript \/ SkipScript \/ MarkScript
  BY <1>2, <1>7 DEF OpenScript, SkipScript, MarkScript, Stage
<1>8. CASE RunStatement \/ TakeAsApplied
  <2>1. boot'.at = boot.at
    <3>1. boot \in [at : Stages, file : 0..Len(Scripts) + 1, line : Nat]
      BY BootKnown
    <3>2. PICK line : boot' = [boot EXCEPT !.line = line]
      BY <1>8 DEF RunStatement, TakeAsApplied
    <3> QED BY <3>1, <3>2
  <2>2. sealed' = sealed /\ secret' = secret
    BY <1>8 DEF RunStatement, TakeAsApplied
  <2> QED BY <1>2, <2>1, <2>2
<1>9. CASE SecretsDone \/ SeedAdmin
  BY <1>2, <1>9 DEF SecretsDone, SeedAdmin
<1>10. CASE \E t \in Copied : EditRows(t)
  BY <1>2, <1>10 DEF EditRows
<1> QED BY <1>3, <1>4, <1>5, <1>6, <1>7, <1>8, <1>9, <1>10 DEF StartupNext

\* A start fails at a script whose rebuilding of a table broke off, or for want of an
\* administrator.
LEMMA FailsKeep == ASSUME StartupInv, [StartupNext]_startupVars PROVE FailsFit'
<1>1. CASE ScriptFails
  <2>1. /\ Running /\ boot.line <= Len(Scripts[boot.file]) /\ Refused(Scripts[boot.file][boot.line])
        /\ UNCHANGED <<schema, loose, marked, torn, release, admin, password>>
    BY <1>1 DEF ScriptFails, Script
  <2>2. PICK i \in DOMAIN Scripts[boot.file] : Waits(boot.file, i) /\ Broken(boot.file, i)
    BY <2>1, RefusedMeansBroken
  <2>3. Stuck(boot.file)
    BY <2>2 DEF Stuck, Waits, Built, Broken, Source, LinesThat
  <2>4. boot.file \in (1..release) \ marked
    BY <2>1, RunKnown, ScriptLines, BootKnown
  <2>5. PICK f : f = boot.file
    OBVIOUS
  <2>6. f \in (1..release') \ marked' /\ Stuck(f)'
    BY <2>1, <2>3, <2>4, <2>5 DEF Stuck
  <2> QED BY <2>6 DEF FailsFit
<1>2. CASE SeedAdmin
  <2>1. CASE admin \/ password
    BY <1>2, <2>1 DEF SeedAdmin, Stage, FailsFit
  <2>2. CASE ~(admin \/ password)
    BY <1>2, <2>2 DEF SeedAdmin, FailsFit
  <2> QED BY <2>1, <2>2
<1>3. CASE UNCHANGED startupVars
  BY <1>3 DEF startupVars, FailsFit, StartupInv, Stuck
<1>4. CASE Boot \/ OpenScript \/ SkipScript \/ MarkScript \/ FilesDone
  BY <1>4 DEF Boot, OpenScript, SkipScript, MarkScript, FilesDone, Stage, FailsFit
<1>5. CASE SecretsDone \/ Upgrade \/ RestartService \/ Kill
  BY <1>5 DEF SecretsDone, Upgrade, RestartService, Kill, Stage, FailsFit
<1>6. CASE RunStatement \/ TakeAsApplied
  <2>1. boot \in [at : Stages, file : 0..Len(Scripts) + 1, line : Nat] /\ boot.at = "files"
    BY <1>6, BootKnown DEF RunStatement, TakeAsApplied, Running
  <2>2. PICK line : boot' = [boot EXCEPT !.line = line]
    BY <1>6 DEF RunStatement, TakeAsApplied
  <2>3. boot'.at = "files"
    BY <2>1, <2>2
  <2> QED BY <2>3 DEF FailsFit
<1>7. CASE \E k \in Kept : EncryptLegacy(k) \/ StoreSecret(k)
  <2>1. boot.at # "failed" /\ boot' = boot
    BY <1>7 DEF EncryptLegacy, StoreSecret, EditRows
  <2> QED BY <2>1 DEF FailsFit
<1>8. CASE \E t \in Copied : EditRows(t)
  BY <1>8 DEF EditRows, FailsFit
<1> QED BY <1>1, <1>2, <1>3, <1>4, <1>5, <1>6, <1>7, <1>8 DEF StartupNext

\* Before the first start nothing waits for its name, and what is marked is made.
LEMMA StartupInitially == StartupInit => StartupInv
<1> SUFFICES ASSUME StartupInit PROVE StartupInv
  OBVIOUS
<1>1. PICK old \in 0..release :
        marked = 1..old /\ schema = UNION {Made(f) : f \in 1..old} /\ admin = (old > 0)
  BY DEF StartupInit
<1>2. /\ Len(Scripts) \in Nat /\ DOMAIN Scripts = 1..Len(Scripts) /\ release \in 1..Len(Scripts)
      /\ MaxKills \in Nat
  BY ScriptLines, StartupAssumption DEF StartupInit
<1>3. /\ secret \in [Kept -> {"none", "plain", "sealed"}] /\ password \in BOOLEAN
      /\ sealed = {} /\ torn = {} /\ kills = 0
  BY DEF StartupInit
<1>4. boot.at = "down" /\ boot.file = 0 /\ boot.line = 0
  BY DEF StartupInit, Stage
<1>5. boot \in [at : Stages, file : 0..Len(Scripts) + 1, line : Nat]
  <2>1. 0 \in 0..Len(Scripts) + 1
    BY <1>2
  <2> QED BY <2>1 DEF StartupInit, Stage, Stages
<1>6. marked \subseteq 1..release /\ marked \subseteq DOMAIN Scripts
  BY <1>1, <1>2
<1>7. StartupTypeOK
  <2>1. secret \in [Kept -> {"none", "plain", "sealed", "twice"}]
    BY <1>3
  <2>2. admin \in BOOLEAN /\ release \in 0..Len(Scripts) /\ kills \in 0..MaxKills
    BY <1>1, <1>2, <1>3
  <2>3. loose \subseteq Copied
    BY DEF StartupInit, Unbound
  <2> QED BY <1>3, <1>5, <1>6, <2>1, <2>2, <2>3 DEF StartupTypeOK
<1>8. \A o : o \in schema <=> \E g \in marked : o \in Made(g)
  BY <1>1
<1>9. ASSUME NEW f, NEW i, Waits(f, i) PROVE FALSE
  <2>1. Built(f, i) /\ Scripts[f][i].object \in schema
    BY <1>9 DEF Waits
  <2>2. PICK g \in marked : Scripts[f][i].object \in Made(g)
    BY <1>8, <2>1
  <2> QED BY <1>6, <2>1, <2>2, NotTemporary
<1>10. \A f, i : ~Past(f, i) /\ ~Swaps(f, i)
  BY <1>4 DEF Past, Swaps, Runs
<1>11. Progress
  BY <1>4, <1>6 DEF Progress
<1>12. RebuildsWait /\ RebuildsRun
  BY <1>9, <1>10 DEF RebuildsWait, RebuildsRun
<1>13. MarkedMade
  <2>1. ASSUME NEW f \in marked, NEW j \in DOMAIN Scripts[f], Scripts[f][j].does \in Making
        PROVE  Scripts[f][j].object \in schema
    BY <1>6, <1>8, <2>1, MadeLines
  <2> QED BY <2>1 DEF MarkedMade, AllFine, Fine, Present
<1>14. RunMade
  BY <1>4 DEF RunMade, Runs
<1>15. ColumnsTell
  <2>1. ASSUME NEW f \in DOMAIN Scripts, f \notin marked, NEW i \in DOMAIN Scripts[f],
               Scripts[f][i].does = "column", Scripts[f][i].object \in schema
        PROVE  FALSE
    <3>1. PICK g \in marked : Scripts[f][i].object \in Made(g)
      BY <1>8, <2>1
    <3>2. g \in DOMAIN Scripts
      BY <1>6
    <3>3. PICK j \in DOMAIN Scripts[g] :
            Scripts[g][j].object = Scripts[f][i].object /\ Scripts[g][j].does # "copy"
      BY <3>1, <3>2, MadeLines DEF Making
    <3>4. g = f
      BY <2>1, <3>2, <3>3, OwnName
    <3> QED BY <2>1, <3>1, <3>4
  <2> QED BY <2>1 DEF ColumnsTell
<1>16. SecretsFit /\ FailsFit
  BY <1>3, <1>4 DEF SecretsFit, FailsFit
<1> QED BY <1>7, <1>11, <1>12, <1>13, <1>14, <1>15, <1>16 DEF StartupInv

\* What the invariant says of a server that is up, and of one that cannot start.
LEMMA WholeThen == StartupInv => StartIsWhole
<1> SUFFICES ASSUME StartupInv PROVE StartIsWhole
  OBVIOUS
<1>1. FailsFit
  BY DEF StartupInv
<1>2. ASSUME boot.at = "up", NEW k \in Kept PROVE secret[k] \in {"none", "sealed"}
  <2>1. secret \in [Kept -> {"none", "plain", "sealed", "twice"}] /\ SecretsFit
    BY DEF StartupInv, StartupTypeOK
  <2> QED BY <1>2, <2>1 DEF SecretsFit
<1>3. ASSUME boot.at = "up", NEW f \in 1..release, NEW j \in DOMAIN Scripts[f],
             Scripts[f][j].does \in Making
      PROVE  Scripts[f][j].object \in schema \/ CutOff(f, j)
  <2>1. 1..release \subseteq marked /\ release \in Nat
    BY <1>3, BootKnown DEF StartupInv, Progress
  <2>2. Fine(f, j)
    BY <1>3, <2>1 DEF StartupInv, MarkedMade, AllFine
  <2>3. ASSUME NEW g \in DOMAIN Scripts, NEW i \in DOMAIN Scripts[g], Waits(g, i) PROVE FALSE
    <3>1. g <= release /\ g \notin marked
      BY <2>3 DEF StartupInv, RebuildsWait
    <3>2. g \in Nat /\ g >= 1
      BY ScriptLines
    <3> QED BY <2>1, <3>1, <3>2
  <2> QED BY <2>2, <2>3 DEF Fine, Present, Lost
<1> QED BY <1>1, <1>2, <1>3 DEF StartIsWhole, FailsFit

\* Whatever the migration files are, if they rebuild tables as 010 and 011 do and no other
\* statement makes or drops a table that is being built or a column, wherever the process is
\* killed and restarted, and whichever rows the copies meet: a server that is up has
\* everything that the scripts of its release make, except what comes after a column in a
\* script that a kill cut, and every secret encrypted exactly once; one that cannot start has
\* no administrator to seed, or is at a script whose rebuilding of a table was cut, or whose
\* copy failed (init_db, _encrypt_legacy_api_keys and seed_admin in app/database.py).
THEOREM StartStaysWhole == StartupSpec => [](StartupTypeOK /\ StartIsWhole)
<1>1. ASSUME StartupInv, [StartupNext]_startupVars PROVE StartupInv'
  BY <1>1, PartsKeep, ProgressKeeps, SecretsKeep, FailsKeep DEF StartupInv
<1>2. StartupInv => StartupTypeOK /\ StartIsWhole
  BY WholeThen DEF StartupInv
<1> QED BY <1>1, <1>2, StartupInitially, PTL DEF StartupSpec
=============================================================================
