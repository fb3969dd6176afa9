--------------------------- MODULE SharedPreferenceV2 --------------------------
(***************************************************************************)
(* SharedPreferenceV2: a cache in front of Android's SharedPreferences.    *)
(* Getters read through it; an editor fills it when it is applied or       *)
(* committed, and apply() leaves the commit to a pool of threads.  The     *)
(* task has the editor itself, not a copy: it commits what the editor      *)
(* holds when it runs.  The preferences below are external: their commit   *)
(* is one step, it empties the editor, and it notifies on the main thread  *)
(* when it has changed something.                                          *)
(*                                                                         *)
(* A thread uses one editor at a time, the last it got from edit(); tasks  *)
(* keep the older ones.  It may go on with an editor it has handed over:   *)
(* reused says that one has.                                               *)
(***************************************************************************)
EXTENDS Naturals, Sequences, FiniteSets

CONSTANTS
  Keys, Values,
  Absent,       \* no value: a key that is not there, or a null
  Kept,         \* a key an editor says nothing about
  Threads,      \* threads that use the preferences
  main,         \* the one notifications are delivered on
  Writers,      \* the threads that edit; the others only read
  Cores,        \* what availableProcessors() may return
  QueueSize,    \* tasks the queue of the pool holds, 200 in the code
  MaxCalls      \* bound: calls of editors in a behaviour

ASSUME PreferenceAssumption ==
  /\ Absent \notin Values /\ Kept \notin Values /\ Absent # Kept
  /\ Keys # {} /\ main \in Threads /\ Writers \subseteq Threads
  /\ Cores \subseteq Nat \ {0}
  /\ QueueSize \in Nat
  /\ MaxCalls \in Nat

Store == [Keys -> Values \union {Absent}]
Nothing == [k \in Keys |-> Absent]

(* What an editor will do to the preferences: clear() comes first. *)
Changes == [cleared: BOOLEAN, mods: [Keys -> Values \union {Absent, Kept}]]
NoChanges == [cleared |-> FALSE, mods |-> [k \in Keys |-> Kept]]

VARIABLES
  core,         \* SharedPreferenceV2Executors.CORE_COUNT
  listening,    \* the cache is registered as a listener of the preferences
  disk,         \* the preferences
  cache,        \* SharedPreferenceV2.cache
  open,         \* the number of each thread's editor
  handed,       \* it has been applied or committed
  editorCache,  \* its EditorV2.editorCache
  held,         \* what the editor it wraps holds, and that of each older one
  reused,       \* an editor was used after it was handed over (history)
  pc,           \* where each thread is
  key,          \* the key its getter is asked for
  fill,         \* what it has yet to put into the cache
  workers,      \* threads of the pool
  queue,        \* tasks that wait for one
  running,      \* tasks that one of them runs
  calls,        \* calls of editors so far
  notices,      \* notifications that wait in the main looper
  latest,       \* what the edits handed over say of each key (history)
  users,        \* the threads that have used each key (history)
  removed,      \* the keys removed or cleared so far (history)
  synced,       \* commit() has been called (history)
  overflown,    \* the queue has been full (history)
  nulled        \* the keys whose getter found null instead of a value (history)

poolVars == <<workers, queue, running, overflown>>
ownVars == <<open, handed, editorCache, reused>>
editorVars == <<ownVars, held>>
callVars == <<pc, key, fill>>
historyVars == <<latest, users, removed, synced>>
vars == <<core, listening, disk, cache, editorVars, callVars, poolVars, calls, notices,
          historyVars, nulled>>

Pcs == {"idle", "hit", "miss", "filling", "applying", "committing", "told"}
Editors == Threads \X (0..MaxCalls)
Tasks == [of: Editors, id: Nat]

TypeOK ==
  /\ core \in Cores
  /\ listening \in BOOLEAN
  /\ disk \in Store /\ cache \in Store
  /\ open \in [Threads -> 0..MaxCalls]
  /\ handed \in [Threads -> BOOLEAN]
  /\ editorCache \in [Threads -> Store]
  /\ held \in [Editors -> Changes]
  /\ pc \in [Threads -> Pcs]
  /\ key \in [Threads -> Keys]
  /\ fill \in [Threads -> Store]
  /\ workers \in 0..(2 * core)
  /\ queue \in Seq(Tasks) /\ Len(queue) <= QueueSize
  /\ running \subseteq Tasks
  /\ calls \in 0..MaxCalls
  /\ notices \in Nat
  /\ latest \in Store
  /\ users \in [Keys -> SUBSET Threads]
  /\ removed \subseteq Keys /\ nulled \subseteq Keys
  /\ synced \in BOOLEAN /\ overflown \in BOOLEAN /\ reused \in BOOLEAN

Init ==
  /\ core \in Cores
  /\ listening \in BOOLEAN
  /\ disk \in Store
  /\ cache = disk
  /\ open = [t \in Threads |-> 0]
  /\ handed = [t \in Threads |-> FALSE]
  /\ editorCache = [t \in Threads |-> Nothing]
  /\ held = [e \in Editors |-> NoChanges]
  /\ pc = [t \in Threads |-> "idle"]
  /\ key \in [Threads -> {CHOOSE k \in Keys : TRUE}]
  /\ fill = [t \in Threads |-> Nothing]
  /\ workers = 0
  /\ queue = <<>>
  /\ running = {}
  /\ calls = 0
  /\ notices = 0
  /\ latest = disk
  /\ users = [k \in Keys |-> {}]
  /\ removed = {} /\ nulled = {}
  /\ synced = FALSE /\ overflown = FALSE /\ reused = FALSE

--------------------------------------------------------------------------------
(* Helpers *)

Goes(t, from, to) == pc[t] = from /\ pc' = [pc EXCEPT ![t] = to]
Uses(t, ks) == users' = [k \in Keys |-> IF k \in ks THEN users[k] \union {t} ELSE users[k]]
Says(e, k, v) == [e EXCEPT !.mods = [e.mods EXCEPT ![k] = v]]
Edited(store, e) ==
  [k \in Keys |-> IF e.mods[k] # Kept THEN e.mods[k] ELSE IF e.cleared THEN Absent ELSE store[k]]

Over(store, new) == [k \in Keys |-> IF new[k] # Absent THEN new[k] ELSE store[k]]

My(t) == <<t, open[t]>>

(* The preferences commit what an editor holds, empty it, and notify if    *)
(* that has changed something.                                             *)
Commit(e) ==
  /\ disk' = Edited(disk, held[e])
  /\ held' = [held EXCEPT ![e] = NoChanges]
  /\ notices' = IF listening /\ disk' # disk THEN notices + 1 ELSE notices

--------------------------------------------------------------------------------
(* Getters.  The cache is asked twice, containsKey and get, and what it    *)
(* does not have is read below it and put into it.                         *)

(* Fault: containsKey is not asked. *)
neverHit(t, k) ==
  /\ Goes(t, "idle", "miss")
  /\ key' = [key EXCEPT ![t] = k]
  /\ Uses(t, {k})
  /\ UNCHANGED <<core, listening, disk, cache, editorVars, fill, poolVars, calls, notices, latest,
                 removed, synced, nulled>>

containsKey(t, k) ==
  /\ Goes(t, "idle", IF cache[k] # Absent THEN "hit" ELSE "miss")
  /\ key' = [key EXCEPT ![t] = k]
  /\ Uses(t, {k})
  /\ UNCHANGED <<core, listening, disk, cache, editorVars, fill, poolVars, calls, notices, latest,
                 removed, synced, nulled>>

hit(t) ==
  /\ Goes(t, "hit", "idle")
  /\ nulled' = IF cache[key[t]] = Absent THEN nulled \union {key[t]} ELSE nulled
  /\ UNCHANGED <<core, listening, disk, cache, editorVars, key, fill, poolVars, calls, notices,
                 historyVars>>

miss(t, default) ==
  /\ Goes(t, "miss", "filling")
  /\ fill' = [fill EXCEPT ![t] = [Nothing EXCEPT ![key[t]] =
                                    IF disk[key[t]] # Absent THEN disk[key[t]] ELSE default]]
  /\ UNCHANGED <<core, listening, disk, cache, editorVars, key, poolVars, calls, notices,
                 historyVars, nulled>>

(* cache.put, once or for each entry of a putAll; a null is not put. *)
put(t, k) ==
  /\ fill[t][k] # Absent
  /\ cache' = [cache EXCEPT ![k] = fill[t][k]]
  /\ fill' = [fill EXCEPT ![t] = [@ EXCEPT ![k] = Absent]]
  /\ UNCHANGED <<core, listening, disk, editorVars, pc, key, poolVars, calls, notices,
                 historyVars, nulled>>

filled(t) ==
  /\ Goes(t, "filling", "idle")
  /\ fill[t] = Nothing
  /\ UNCHANGED <<core, listening, disk, cache, editorVars, key, fill, poolVars, calls, notices,
                 historyVars, nulled>>

--------------------------------------------------------------------------------
(* Editors.  What is put waits in the editor; what is removed leaves the   *)
(* cache at once.                                                          *)

edit(t) ==
  /\ pc[t] = "idle"
  /\ handed[t] /\ open[t] < MaxCalls                \* bound: no editor is given up
  /\ open' = [open EXCEPT ![t] = @ + 1]
  /\ handed' = [handed EXCEPT ![t] = FALSE]
  /\ editorCache' = [editorCache EXCEPT ![t] = Nothing]
  /\ held' = [held EXCEPT ![<<t, open[t] + 1>>] = NoChanges]
  /\ UNCHANGED <<core, listening, disk, cache, reused, callVars, poolVars, calls, notices,
                 historyVars, nulled>>

(* A call of an editor.  Bound: an editor that was handed over counts twice. *)
Tells(t) ==
  /\ pc[t] = "idle"
  /\ calls' = calls + (IF handed[t] THEN 2 ELSE 1) /\ calls' <= MaxCalls
  /\ reused' = (reused \/ handed[t])
  /\ UNCHANGED <<core, listening, disk, open, poolVars, notices, nulled>>

putValue(t, k, v) ==
  /\ Tells(t)
  /\ editorCache' = [editorCache EXCEPT ![t] = [@ EXCEPT ![k] = v]]
  /\ held' = [held EXCEPT ![My(t)] = Says(held[My(t)], k, v)]
  /\ Uses(t, {k})
  /\ UNCHANGED <<cache, handed, callVars, latest, removed, synced>>

remove(t, k) ==
  /\ Tells(t)
  /\ cache' = [cache EXCEPT ![k] = Absent]
  /\ held' = [held EXCEPT ![My(t)] = Says(held[My(t)], k, Absent)]
  /\ Uses(t, {k})
  /\ removed' = removed \union {k}
  /\ UNCHANGED <<editorCache, handed, callVars, latest, synced>>

clear(t) ==
  /\ Tells(t)
  /\ cache' = Nothing
  /\ held' = [held EXCEPT ![My(t)] = [@ EXCEPT !.cleared = TRUE]]
  /\ Uses(t, Keys)
  /\ removed' = Keys
  /\ UNCHANGED <<editorCache, handed, callVars, latest, synced>>

(* apply() and commit() begin alike: the cache takes what was put.         *)
handOver(t, to) ==
  /\ Tells(t)
  /\ Goes(t, "idle", to)
  /\ handed' = [handed EXCEPT ![t] = TRUE]
  /\ fill' = [fill EXCEPT ![t] = editorCache[t]]
  /\ latest' = Edited(Over(latest, editorCache[t]), held[My(t)])
  /\ UNCHANGED <<cache, editorCache, held, key, users, removed>>

apply(t) == handOver(t, "applying") /\ UNCHANGED synced

commit(t) == handOver(t, "committing") /\ synced' = TRUE

(* commit() goes on to the preferences; so does apply() when the pool      *)
(* takes no more.  The main thread is notified before commit() returns.    *)
commits(t) ==
  /\ fill[t] = Nothing
  /\ Commit(My(t))
  /\ Goes(t, "committing", IF t = main /\ notices' # notices THEN "told" ELSE "idle")
  /\ UNCHANGED <<core, listening, cache, ownVars, key, fill, poolVars, calls, historyVars, nulled>>

--------------------------------------------------------------------------------
(* The pool: as many threads as there are cores, then the queue, then as   *)
(* many threads again, then the caller's own.                              *)

(* Fault: one thread more. *)
OneMore == core + 1

CoreSize == core

MaximumSize == 2 * core

(* Fault: two threads must be free. *)
HasTwoSpare == Cardinality(running) + 1 < workers

HasSpare == Cardinality(running) < workers

(* The lambda of apply(): it has the editor that apply() was called on.     *)
Task(t) == [of |-> My(t), id |-> calls]

execute(t) ==
  /\ pc[t] = "applying" /\ fill[t] = Nothing
  /\ \/ /\ workers < CoreSize
        /\ workers' = workers + 1
        /\ running' = running \union {Task(t)}
        /\ UNCHANGED <<queue, overflown>>
     \/ /\ workers >= CoreSize /\ Len(queue) < QueueSize
        /\ queue' = Append(queue, Task(t))
        /\ UNCHANGED <<workers, running, overflown>>
     \/ /\ workers >= CoreSize /\ workers < MaximumSize /\ Len(queue) >= QueueSize
        /\ workers' = workers + 1
        /\ running' = running \union {Task(t)}
        /\ overflown' = TRUE
        /\ UNCHANGED queue
  /\ pc' = [pc EXCEPT ![t] = "idle"]
  /\ UNCHANGED <<core, listening, disk, cache, editorVars, key, fill, calls, notices, historyVars,
                 nulled>>

callerRuns(t) ==
  /\ Goes(t, "applying", "committing")
  /\ fill[t] = Nothing
  /\ workers >= MaximumSize /\ Len(queue) >= QueueSize
  /\ overflown' = TRUE
  /\ UNCHANGED <<core, listening, disk, cache, editorVars, key, fill, workers, queue, running,
                 calls, notices, historyVars, nulled>>

take ==
  /\ HasSpare /\ queue # <<>>
  /\ running' = running \union {Head(queue)}
  /\ queue' = Tail(queue)
  /\ UNCHANGED <<core, listening, disk, cache, editorVars, callVars, workers, overflown, calls,
                 notices, historyVars, nulled>>

(* Fault: what is committed leaves the cache. *)
commitAndEvict(task) ==
  /\ Commit(task.of)
  /\ running' = running \ {task}
  /\ cache' = [k \in Keys |-> IF held[task.of].mods[k] = Kept THEN cache[k] ELSE Absent]
  /\ UNCHANGED <<core, listening, ownVars, callVars, workers, queue, overflown, calls,
                 historyVars, nulled>>

commitInBackground(task) ==
  /\ Commit(task.of)
  /\ running' = running \ {task}
  /\ UNCHANGED <<core, listening, cache, ownVars, callVars, workers, queue, overflown, calls,
                 historyVars, nulled>>

(* A thread beyond the core ones that finds nothing to do ends. *)
retire ==
  /\ HasSpare /\ queue = <<>> /\ workers > CoreSize
  /\ workers' = workers - 1
  /\ UNCHANGED <<core, listening, disk, cache, editorVars, callVars, queue, running, overflown,
                 calls, notices, historyVars, nulled>>

--------------------------------------------------------------------------------
(* The listener, on the main thread: the cache takes all that is below it. *)

(* Fault: only what the cache lacks. *)
MissingBelow == [k \in Keys |-> IF cache[k] = Absent THEN disk[k] ELSE Absent]

AllBelow == disk

onSharedPreferenceChanged ==
  /\ notices > 0 /\ pc[main] \in {"told", "idle"}
  /\ pc' = [pc EXCEPT ![main] = "filling"]
  /\ notices' = notices - 1
  /\ fill' = [fill EXCEPT ![main] = AllBelow]
  /\ UNCHANGED <<core, listening, disk, cache, editorVars, key, poolVars, calls, historyVars,
                 nulled>>

--------------------------------------------------------------------------------
(* The specification *)

Reads(t) == \E k \in Keys : containsKey(t, k)

Edits(t) ==
  \/ \E k \in Keys : remove(t, k) \/ \E v \in Values : putValue(t, k, v)
  \/ edit(t) \/ clear(t) \/ apply(t) \/ commit(t)

CallGoesOn(t) ==
  \/ hit(t) \/ filled(t) \/ commits(t) \/ execute(t) \/ callerRuns(t)
  \/ \E v \in Values \union {Absent} : miss(t, v)
  \/ \E k \in Keys : put(t, k)

PoolRuns == take \/ retire \/ \E task \in running : commitInBackground(task)

Next ==
  \/ \E t \in Threads : Reads(t) \/ CallGoesOn(t)
  \/ \E t \in Writers : Edits(t)
  \/ PoolRuns
  \/ onSharedPreferenceChanged

Spec == Init /\ [][Next]_vars

(* The threads of the pool run; users are free. *)
FairSpec == Spec /\ WF_vars(PoolRuns)

--------------------------------------------------------------------------------
(* Properties *)

Private(k) == \A t, u \in users[k] : t = u
Idle == queue = <<>> /\ running = {}
Quiet == Idle /\ notices = 0 /\ \A t \in Threads : pc[t] = "idle"

(* A thread that alone uses a key finds the value of its last edit, unless *)
(* the key was once removed or the listener is registered.  That it may go *)
(* on with an editor it has handed over makes no difference here.          *)
ReadsOwnWrites ==
  \A k \in Keys :
    /\ ~listening /\ k \notin removed /\ Private(k) /\ latest[k] # Absent
    /\ \A t \in users[k] : pc[t] \in {"idle", "hit", "miss"}
    => cache[k] = latest[k]

(* With one core, a queue that was never full, no commit() and a new       *)
(* editor after each apply(), the preferences end up as the last apply()   *)
(* of each key left them.  A put on an editor that waits for the pool is   *)
(* committed with it, although nobody has applied it.                      *)
DiskFollowsApplies ==
  Quiet /\ core = 1 /\ ~overflown /\ ~synced /\ ~reused =>
    \A k \in Keys : Private(k) => disk[k] = latest[k]

(* With the listener registered, once all is quiet the cache holds no      *)
(* value that differs from the one below it, if the main thread alone uses *)
(* the key, in whatever order the commits were run.  It takes a new editor *)
(* for each edit: what an old one is told may be committed with the edit   *)
(* before, and the cache does not have it.                                 *)
CacheFollowsDisk ==
  Quiet /\ listening /\ ~reused =>
    \A k \in Keys : users[k] \subseteq {main} /\ disk[k] # Absent => cache[k] \in {disk[k], Absent}

(* A getter never finds null behind a key that no other thread uses. *)
OnlySharedKeysAreNulled == \A k \in nulled : ~Private(k)

(* Every edit that was applied is committed. *)
AppliesAreCommitted == ~Idle ~> Idle

(* A pool of one thread and a pool of many make no difference. *)
PoolSizeMakesNoDifference ==
  Quiet /\ ~overflown /\ ~synced /\ ~reused => \A k \in Keys : Private(k) => disk[k] = latest[k]
================================================================================
