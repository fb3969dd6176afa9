------------------------ MODULE SharedPreferenceV2Proofs -----------------------
(***************************************************************************)
(* Theorems about SharedPreferenceV2, for any keys, values, threads, pool  *)
(* and queue.                                                              *)
(***************************************************************************)
EXTENDS SharedPreferenceV2, FiniteSetTheorems, TLAPS

USE PreferenceAssumption

(* Type correctness *)

LEMMA NothingTyped == Nothing \in Store
  BY DEF Nothing, Store

LEMMA NoChangesTyped == NoChanges \in Changes
  BY DEF NoChanges, Changes

(* Committing an edit to a store gives a store. *)
LEMMA EditedTyped ==
  ASSUME NEW s \in Store, NEW e \in Changes
  PROVE  Edited(s, e) \in Store
  <1>1. e.mods \in [Keys -> Values \union {Absent, Kept}]
    BY DEF Changes
  <1> QED BY <1>1 DEF Edited, Store

(* An entry of a store can be replaced. *)
LEMMA EntryTyped ==
  ASSUME NEW s \in Store, NEW k \in Keys, NEW v \in Values \union {Absent}
  PROVE  [s EXCEPT ![k] = v] \in Store
  BY DEF Store

(* What an editor is told is a change again. *)
LEMMA PutTyped ==
  ASSUME NEW e \in Changes, NEW k \in Keys, NEW v \in Values \union {Absent}
  PROVE  Says(e, k, v) \in Changes
  <1>1. e.mods \in [Keys -> Values \union {Absent, Kept}]
    BY DEF Changes
  <1>2. [e.mods EXCEPT ![k] = v] \in [Keys -> Values \union {Absent, Kept}]
    BY <1>1
  <1> QED BY <1>2 DEF Changes, Says

LEMMA ClearTyped ==
  ASSUME NEW e \in Changes
  PROVE  [e EXCEPT !.cleared = TRUE] \in Changes
  BY DEF Changes

LEMMA MineTyped ==
  ASSUME TypeOK, NEW t \in Threads
  PROVE  My(t) \in Editors /\ held[My(t)] \in Changes /\ editorCache[t] \in Store
  BY DEF TypeOK, My, Editors

LEMMA TaskTyped ==
  ASSUME TypeOK, NEW t \in Threads
  PROVE  Task(t) \in Tasks
  <1>1. calls \in Nat /\ My(t) \in Editors
    BY MineTyped DEF TypeOK
  <1> QED BY <1>1 DEF Task, Tasks

(* One more user of some keys. *)
LEMMA UsersTyped ==
  ASSUME TypeOK, NEW t \in Threads, NEW ks, Uses(t, ks)
  PROVE  users' \in [Keys -> SUBSET Threads]
  BY DEF TypeOK, Uses

LEMMA TellsTyped ==
  ASSUME TypeOK, NEW t \in Threads, Tells(t)
  PROVE  calls' \in 0..MaxCalls /\ reused' \in BOOLEAN
  BY DEF TypeOK, Tells

LEMMA CommitTyped ==
  ASSUME TypeOK, NEW e \in Editors, Commit(e)
  PROVE  disk' \in Store /\ notices' \in Nat /\ held' \in [Editors -> Changes]
  <1>1. disk' \in Store
    <2>1. held[e] \in Changes
      BY DEF TypeOK
    <2> QED BY <2>1, EditedTyped DEF TypeOK, Commit
  <1>2. notices' \in Nat
    BY DEF TypeOK, Commit
  <1>3. held' \in [Editors -> Changes]
    BY NoChangesTyped DEF TypeOK, Commit
  <1> QED BY <1>1, <1>2, <1>3

LEMMA TypeInit == Init => TypeOK
  <1> SUFFICES ASSUME Init PROVE TypeOK
    OBVIOUS
  <1> USE DEF Init
  <1>1. cache \in Store /\ editorCache \in [Threads -> Store] /\ fill \in [Threads -> Store]
    BY NothingTyped
  <1>2. held \in [Editors -> Changes] /\ open \in [Threads -> 0..MaxCalls]
    BY NoChangesTyped
  <1>3. pc \in [Threads -> Pcs]
    BY DEF Pcs
  <1>4. key \in [Threads -> Keys]
    OBVIOUS
  <1>5. core \in Nat /\ core > 0
    OBVIOUS
  <1>6. workers \in 0..(2 * core) /\ calls \in 0..MaxCalls
    BY <1>5
  <1>7. queue \in Seq(Tasks) /\ Len(queue) <= QueueSize
    OBVIOUS
  <1>8. users \in [Keys -> SUBSET Threads]
    OBVIOUS
  <1> QED BY <1>1, <1>2, <1>3, <1>4, <1>6, <1>7, <1>8 DEF TypeOK

(* A getter, an editor or the pool keeps every field typed. *)
LEMMA ReadTyped ==
  ASSUME TypeOK, NEW t \in Threads, NEW k \in Keys, containsKey(t, k)
  PROVE  TypeOK'
  <1>1. pc' \in [Threads -> Pcs] /\ key' \in [Threads -> Keys]
    BY DEF TypeOK, containsKey, Goes, Pcs
  <1>2. users' \in [Keys -> SUBSET Threads]
    BY UsersTyped DEF containsKey
  <1> QED BY <1>1, <1>2 DEF TypeOK, containsKey, editorVars, ownVars, poolVars

LEMMA HitTyped ==
  ASSUME TypeOK, NEW t \in Threads, hit(t)
  PROVE  TypeOK'
  <1>1. pc' \in [Threads -> Pcs] /\ nulled' \subseteq Keys
    BY DEF TypeOK, hit, Goes, Pcs
  <1> QED BY <1>1 DEF TypeOK, hit, editorVars, ownVars, poolVars, historyVars

LEMMA MissTyped ==
  ASSUME TypeOK, NEW t \in Threads, NEW v \in Values \union {Absent}, miss(t, v)
  PROVE  TypeOK'
  <1>1. pc' \in [Threads -> Pcs]
    BY DEF TypeOK, miss, Goes, Pcs
  <1>2. key[t] \in Keys /\ disk \in Store
    BY DEF TypeOK
  <1> DEFINE w == IF disk[key[t]] # Absent THEN disk[key[t]] ELSE v
  <1>3. w \in Values \union {Absent}
    BY <1>2 DEF Store
  <1>4. [Nothing EXCEPT ![key[t]] = w] \in Store
    BY <1>2, <1>3, NothingTyped, EntryTyped
  <1>5. fill' \in [Threads -> Store]
    BY <1>4 DEF TypeOK, miss
  <1> QED BY <1>1, <1>5 DEF TypeOK, miss, editorVars, ownVars, poolVars, historyVars

LEMMA PutInTyped ==
  ASSUME TypeOK, NEW t \in Threads, NEW k \in Keys, put(t, k)
  PROVE  TypeOK'
  <1>1. fill[t] \in Store /\ fill[t][k] \in Values \union {Absent}
    BY DEF TypeOK, Store
  <1>2. cache' \in Store
    BY <1>1, EntryTyped DEF TypeOK, put
  <1>3. [fill[t] EXCEPT ![k] = Absent] \in Store
    BY <1>1, EntryTyped
  <1>4. fill' \in [Threads -> Store]
    BY <1>3 DEF TypeOK, put
  <1> QED BY <1>2, <1>4 DEF TypeOK, put, editorVars, ownVars, poolVars, historyVars

LEMMA FilledTyped ==
  ASSUME TypeOK, NEW t \in Threads, filled(t)
  PROVE  TypeOK'
  <1>1. pc' \in [Threads -> Pcs]
    BY DEF TypeOK, filled, Goes, Pcs
  <1> QED BY <1>1 DEF TypeOK, filled, editorVars, ownVars, poolVars, historyVars

(* What edits of one thread do to its editor. *)
LEMMA EditorTyped ==
  ASSUME TypeOK, NEW t \in Threads, NEW s \in Store, NEW n \in Editors, NEW e \in Changes
  PROVE  /\ [editorCache EXCEPT ![t] = s] \in [Threads -> Store]
         /\ [held EXCEPT ![n] = e] \in [Editors -> Changes]
  BY DEF TypeOK

LEMMA EditTyped ==
  ASSUME TypeOK, NEW t \in Threads, edit(t)
  PROVE  TypeOK'
  <1>1. open[t] + 1 \in 0..MaxCalls
    BY DEF TypeOK, edit
  <1>2. <<t, open[t] + 1>> \in Editors
    BY <1>1 DEF Editors
  <1>3. editorCache' \in [Threads -> Store] /\ held' \in [Editors -> Changes]
    BY <1>2, EditorTyped, NothingTyped, NoChangesTyped DEF edit
  <1>4. open' \in [Threads -> 0..MaxCalls] /\ handed' \in [Threads -> BOOLEAN]
    BY <1>1 DEF TypeOK, edit
  <1> QED BY <1>3, <1>4 DEF TypeOK, edit, callVars, poolVars, historyVars

LEMMA PutValueTyped ==
  ASSUME TypeOK, NEW t \in Threads, NEW k \in Keys, NEW v \in Values, putValue(t, k, v)
  PROVE  TypeOK'
  <1>1. [editorCache[t] EXCEPT ![k] = v] \in Store
    BY MineTyped, EntryTyped
  <1>2. Says(held[My(t)], k, v) \in Changes
    BY MineTyped, PutTyped
  <1>3. editorCache' \in [Threads -> Store] /\ held' \in [Editors -> Changes]
    BY <1>1, <1>2, MineTyped, EditorTyped DEF putValue
  <1>4. users' \in [Keys -> SUBSET Threads]
    BY UsersTyped DEF putValue
  <1>5. calls' \in 0..MaxCalls /\ reused' \in BOOLEAN
    BY TellsTyped DEF putValue
  <1> QED BY <1>3, <1>4, <1>5 DEF TypeOK, putValue, Tells, callVars, poolVars

LEMMA RemoveTyped ==
  ASSUME TypeOK, NEW t \in Threads, NEW k \in Keys, remove(t, k)
  PROVE  TypeOK'
  <1>1. Says(held[My(t)], k, Absent) \in Changes
    BY MineTyped, PutTyped
  <1>2. held' \in [Editors -> Changes]
    BY <1>1, MineTyped, EditorTyped DEF remove
  <1>3. cache' \in Store
    BY EntryTyped DEF TypeOK, remove
  <1>4. users' \in [Keys -> SUBSET Threads]
    BY UsersTyped DEF remove
  <1>5. calls' \in 0..MaxCalls /\ reused' \in BOOLEAN
    BY TellsTyped DEF remove
  <1>6. removed' \subseteq Keys
    BY DEF TypeOK, remove
  <1> QED BY <1>2, <1>3, <1>4, <1>5, <1>6 DEF TypeOK, remove, Tells, callVars, poolVars

LEMMA ClearsTyped ==
  ASSUME TypeOK, NEW t \in Threads, clear(t)
  PROVE  TypeOK'
  <1>1. [held[My(t)] EXCEPT !.cleared = TRUE] \in Changes
    BY MineTyped, ClearTyped
  <1>2. held' \in [Editors -> Changes]
    BY <1>1, MineTyped, EditorTyped DEF clear
  <1>3. users' \in [Keys -> SUBSET Threads]
    BY UsersTyped DEF clear
  <1>4. calls' \in 0..MaxCalls /\ reused' \in BOOLEAN
    BY TellsTyped DEF clear
  <1>5. cache' \in Store /\ removed' \subseteq Keys
    BY NothingTyped DEF clear
  <1> QED BY <1>2, <1>3, <1>4, <1>5 DEF TypeOK, clear, Tells, callVars, poolVars

LEMMA HandOverTyped ==
  ASSUME TypeOK, NEW t \in Threads, NEW to \in {"applying", "committing"}, handOver(t, to),
         synced' \in BOOLEAN
  PROVE  TypeOK'
  <1>1. pc' \in [Threads -> Pcs]
    BY DEF TypeOK, handOver, Goes, Pcs
  <1>2. fill' \in [Threads -> Store] /\ handed' \in [Threads -> BOOLEAN]
    BY MineTyped DEF TypeOK, handOver
  <1>3. Over(latest, editorCache[t]) \in Store
    BY MineTyped DEF TypeOK, Over, Store
  <1>4. latest' \in Store
    BY <1>3, MineTyped, EditedTyped DEF handOver
  <1>5. calls' \in 0..MaxCalls /\ reused' \in BOOLEAN
    BY TellsTyped DEF handOver
  <1> QED BY <1>1, <1>2, <1>4, <1>5 DEF TypeOK, handOver, Tells, poolVars

LEMMA CommitsTyped ==
  ASSUME TypeOK, NEW t \in Threads, commits(t)
  PROVE  TypeOK'
  <1>1. disk' \in Store /\ notices' \in Nat /\ held' \in [Editors -> Changes]
    BY MineTyped, CommitTyped DEF commits
  <1>2. pc' \in [Threads -> Pcs]
    BY DEF TypeOK, commits, Goes, Pcs
  <1> QED BY <1>1, <1>2 DEF TypeOK, commits, ownVars, poolVars, historyVars

LEMMA ExecuteTyped ==
  ASSUME TypeOK, NEW t \in Threads, execute(t)
  PROVE  TypeOK'
  <1>1. pc' \in [Threads -> Pcs]
    BY DEF TypeOK, execute, Pcs
  <1>3. Task(t) \in Tasks
    BY TaskTyped
  <1>4. core \in Nat /\ workers \in 0..(2 * core)
    BY DEF TypeOK
  <1>5. running' \subseteq Tasks
    BY <1>3 DEF TypeOK, execute
  <1>6. queue' \in Seq(Tasks) /\ Len(queue') <= QueueSize
    <2>1. CASE queue' = queue
      BY <2>1 DEF TypeOK
    <2>2. CASE Len(queue) < QueueSize /\ queue' = Append(queue, Task(t))
      BY <2>2, <1>3 DEF TypeOK
    <2> QED BY <2>1, <2>2 DEF execute
  <1>7. workers' \in 0..(2 * core)
    BY <1>4 DEF execute, CoreSize, MaximumSize
  <1>8. overflown' \in BOOLEAN
    BY DEF TypeOK, execute
  <1> QED BY <1>1, <1>5, <1>6, <1>7, <1>8 DEF TypeOK, execute, editorVars, ownVars, historyVars

LEMMA CallerRunsTyped ==
  ASSUME TypeOK, NEW t \in Threads, callerRuns(t)
  PROVE  TypeOK'
  <1>1. pc' \in [Threads -> Pcs]
    BY DEF TypeOK, callerRuns, Goes, Pcs
  <1> QED BY <1>1 DEF TypeOK, callerRuns, editorVars, ownVars, historyVars

LEMMA TakeTyped == TypeOK /\ take => TypeOK'
  <1> SUFFICES ASSUME TypeOK, take PROVE TypeOK'
    OBVIOUS
  <1>1. queue \in Seq(Tasks) /\ queue # <<>>
    BY DEF TypeOK, take
  <1>2. Head(queue) \in Tasks /\ Tail(queue) \in Seq(Tasks) /\ Len(Tail(queue)) <= Len(queue)
    BY <1>1
  <1>3. running' \subseteq Tasks /\ queue' \in Seq(Tasks)
    BY <1>2 DEF TypeOK, take
  <1>4. Len(queue') <= QueueSize
    <2>1. Len(queue) \in Nat /\ Len(Tail(queue)) \in Nat /\ Len(queue) <= QueueSize
      BY <1>1, <1>2 DEF TypeOK
    <2> QED BY <2>1, <1>2 DEF take
  <1> QED BY <1>3, <1>4 DEF TypeOK, take, editorVars, ownVars, callVars, historyVars

LEMMA BackgroundTyped ==
  ASSUME TypeOK, NEW task \in running, commitInBackground(task)
  PROVE  TypeOK'
  <1>1. task.of \in Editors
    BY DEF TypeOK, Tasks
  <1>2. disk' \in Store /\ notices' \in Nat /\ held' \in [Editors -> Changes]
    BY <1>1, CommitTyped DEF commitInBackground
  <1>3. running' \subseteq Tasks
    BY DEF TypeOK, commitInBackground
  <1> QED BY <1>2, <1>3 DEF TypeOK, commitInBackground, ownVars, callVars, historyVars

LEMMA RetireTyped == TypeOK /\ retire => TypeOK'
  <1> SUFFICES ASSUME TypeOK, retire PROVE TypeOK'
    OBVIOUS
  <1>1. core \in Nat /\ workers \in 0..(2 * core)
    BY DEF TypeOK
  <1>2. workers' \in 0..(2 * core)
    BY <1>1 DEF retire, CoreSize
  <1> QED BY <1>2 DEF TypeOK, retire, editorVars, ownVars, callVars, historyVars

LEMMA ListenerTyped == TypeOK /\ onSharedPreferenceChanged => TypeOK'
  <1> SUFFICES ASSUME TypeOK, onSharedPreferenceChanged PROVE TypeOK'
    OBVIOUS
  <1>1. pc' \in [Threads -> Pcs]
    BY DEF TypeOK, onSharedPreferenceChanged, Pcs
  <1>2. fill' \in [Threads -> Store]
    BY DEF TypeOK, onSharedPreferenceChanged, AllBelow
  <1>3. notices' \in Nat
    BY DEF TypeOK, onSharedPreferenceChanged
  <1> QED BY <1>1, <1>2, <1>3 DEF TypeOK, onSharedPreferenceChanged, editorVars, ownVars,
                             poolVars, historyVars

LEMMA TypeStep == TypeOK /\ [Next]_vars => TypeOK'
  <1> SUFFICES ASSUME TypeOK, [Next]_vars PROVE TypeOK'
    OBVIOUS
  <1>1. ASSUME NEW t \in Threads, Reads(t) PROVE TypeOK'
    BY <1>1, ReadTyped DEF Reads
  <1>2. ASSUME NEW t \in Threads, CallGoesOn(t) PROVE TypeOK'
    BY <1>2, HitTyped, FilledTyped, CommitsTyped, ExecuteTyped, CallerRunsTyped, MissTyped,
       PutInTyped DEF CallGoesOn
  <1>3. ASSUME NEW t \in Writers, Edits(t) PROVE TypeOK'
    <2>1. t \in Threads
      OBVIOUS
    <2>2. CASE apply(t)
      BY <2>1, <2>2, HandOverTyped DEF apply, TypeOK
    <2>3. CASE commit(t)
      BY <2>1, <2>3, HandOverTyped DEF commit
    <2> QED BY <2>1, <2>2, <2>3, <1>3, RemoveTyped, PutValueTyped, EditTyped, ClearsTyped DEF Edits
  <1>4. CASE PoolRuns
    BY <1>4, TakeTyped, RetireTyped, BackgroundTyped DEF PoolRuns
  <1>5. CASE UNCHANGED vars
    BY <1>5 DEF TypeOK, vars, editorVars, ownVars, callVars, poolVars, historyVars
  <1> QED BY <1>1, <1>2, <1>3, <1>4, <1>5, ListenerTyped DEF Next

(* Every variable keeps its type, for any number of keys, threads and      *)
(* cores: the pool never has more than twice as many threads as there are  *)
(* cores, and the queue never more tasks than it holds.                    *)
THEOREM TypeCorrect == Spec => []TypeOK
  BY TypeInit, TypeStep, PTL DEF Spec

--------------------------------------------------------------------------------
(* Own writes *)

(* What a thread's editor holds.                                           *)
Told(t) == held[My(t)]

(* What a thread has in hand, it has asked for or put itself.              *)
InHand(t) ==
  /\ pc[t] \in {"hit", "miss"} => t \in users[key[t]]
  /\ pc[t] \in {"idle", "hit", "miss"} => fill[t] = Nothing
  /\ \A k \in Keys :
       /\ editorCache[t][k] # Absent => t \in users[k]
       /\ Told(t).mods[k] # Kept => t \in users[k]
       /\ ~listening /\ fill[t][k] # Absent => t \in users[k]

(* Without clear() and remove(), an editor holds nothing that its cache    *)
(* does not say as well.                                                   *)
EditorAgrees(t) ==
  /\ Told(t).cleared => removed = Keys
  /\ \A k \in Keys : k \notin removed /\ Told(t).mods[k] # Kept =>
       Told(t).mods[k] \in Values /\ Told(t).mods[k] = editorCache[t][k]

(* Without the listener nobody is notified.                                *)
Quieted == ~listening => notices = 0 /\ \A t \in Threads : pc[t] # "told"

(* The keys the property is about.                                         *)
Owned(k) == ~listening /\ k \notin removed /\ Private(k)

(* For such a key, what a call has yet to put is the latest value, and a   *)
(* getter brings a value only where there is none.                         *)
InStep(k, t) ==
  /\ pc[t] \in {"applying", "committing"} /\ fill[t][k] # Absent => fill[t][k] = latest[k]
  /\ pc[t] = "miss" /\ key[t] = k => latest[k] = Absent
  /\ pc[t] = "filling" /\ fill[t][k] # Absent => latest[k] = Absent

(* With nothing left to put, the cache has it.                             *)
CacheIsLatest(k) ==
  latest[k] # Absent /\ (\A t \in Threads : fill[t][k] = Absent) => cache[k] = latest[k]

OwnInv ==
  /\ \A t \in Threads : InHand(t) /\ EditorAgrees(t)
  /\ Quieted
  /\ \A k \in Keys : Owned(k) => CacheIsLatest(k) /\ \A t \in Threads : InStep(k, t)

LEMMA OwnInit == Init => OwnInv
  <1> SUFFICES ASSUME Init PROVE OwnInv
    OBVIOUS
  <1>1. ASSUME NEW t \in Threads PROVE InHand(t) /\ EditorAgrees(t)
    <2>1. My(t) \in Editors
      BY DEF Init, My, Editors
    <2>2. Told(t) = NoChanges
      BY <2>1 DEF Init, Told
    <2> QED BY <2>2 DEF Init, InHand, EditorAgrees, Nothing, NoChanges
  <1>2. Quieted
    BY DEF Init, Quieted
  <1>3. ASSUME NEW k \in Keys PROVE CacheIsLatest(k) /\ \A t \in Threads : InStep(k, t)
    BY DEF Init, CacheIsLatest, InStep
  <1> QED BY <1>1, <1>2, <1>3 DEF OwnInv

(* What happens to the editors: a call of t says something to its own,     *)
(* edit() gives it a new one, and a commit empties one.                    *)
LEMMA ToldStays ==
  ASSUME UNCHANGED editorVars
  PROVE  /\ \A t \in Threads : Told(t)' = Told(t)
         /\ UNCHANGED <<open, handed, editorCache, reused, held>>
  BY DEF editorVars, ownVars, Told, My

LEMMA ToldSaid ==
  ASSUME TypeOK, NEW t \in Threads, NEW e, open' = open, held' = [held EXCEPT ![My(t)] = e]
  PROVE  Told(t)' = e /\ \A u \in Threads : u # t => Told(u)' = Told(u)
  <1>1. \A u \in Threads : My(u) \in Editors /\ My(u)' = My(u) /\ (u # t => My(u) # My(t))
    BY DEF TypeOK, My, Editors
  <1>2. held \in [Editors -> Changes]
    BY DEF TypeOK
  <1> QED BY <1>1, <1>2 DEF Told

LEMMA ToldNew ==
  ASSUME TypeOK, NEW t \in Threads, edit(t)
  PROVE  Told(t)' = NoChanges /\ \A u \in Threads : u # t => Told(u)' = Told(u)
  <1>1. open[t] + 1 \in 0..MaxCalls
    BY DEF TypeOK, edit
  <1>2. <<t, open[t] + 1>> \in Editors /\ My(t)' = <<t, open[t] + 1>>
    BY <1>1 DEF TypeOK, edit, My, Editors
  <1>3. ASSUME NEW u \in Threads, u # t
        PROVE  My(u) \in Editors /\ My(u)' = My(u) /\ My(u) # <<t, open[t] + 1>>
    BY <1>3 DEF TypeOK, edit, My, Editors
  <1>4. held \in [Editors -> Changes] /\ held' = [held EXCEPT ![<<t, open[t] + 1>>] = NoChanges]
    BY DEF TypeOK, edit
  <1> QED BY <1>2, <1>3, <1>4 DEF Told

LEMMA ToldCommitted ==
  ASSUME TypeOK, NEW e \in Editors, Commit(e), open' = open
  PROVE  \A t \in Threads : Told(t)' = IF My(t) = e THEN NoChanges ELSE Told(t)
  <1>1. \A t \in Threads : My(t) \in Editors /\ My(t)' = My(t)
    BY DEF TypeOK, My, Editors
  <1> QED BY <1>1 DEF TypeOK, Commit, Told

(* A key that is owned after a step was owned before it: uses, removals    *)
(* and the listener stay.                                                  *)
LEMMA OwnedBefore ==
  ASSUME TypeOK, NEW k \in Keys, users[k] \subseteq users'[k], removed \subseteq removed',
         listening' = listening, Owned(k)'
  PROVE  Owned(k)
  BY DEF Owned, Private

(* Whoever has a value of an owned key in hand is its only user.           *)
LEMMA OnlyUser ==
  ASSUME NEW k \in Keys, NEW t \in Threads, NEW u \in Threads, Owned(k),
         t \in users[k], u \in users[k]
  PROVE  t = u
  BY DEF Owned, Private

LEMMA containsKeyOwn ==
  ASSUME TypeOK, OwnInv, NEW t \in Threads, NEW k0 \in Keys, containsKey(t, k0)
  PROVE  OwnInv'
  <1>0. \A k \in Keys : users[k] \subseteq users'[k]
    BY DEF containsKey, Uses, TypeOK
  <1>t. UNCHANGED editorCache /\ \A u \in Threads : Told(u)' = Told(u)
    BY ToldStays DEF containsKey
  <1>1. ASSUME NEW u \in Threads PROVE InHand(u)' /\ EditorAgrees(u)'
    <2>1. InHand(u) /\ EditorAgrees(u)
      BY DEF OwnInv
    <2>2. EditorAgrees(u)'
      BY <1>t, <2>1 DEF containsKey, EditorAgrees
    <2>3. t \in users'[k0]
      BY DEF containsKey, Uses, TypeOK
    <2>4. CASE u = t
      <3>1. key'[u] = k0 /\ fill[u] = Nothing
        BY <2>1, <2>4 DEF containsKey, Goes, InHand, TypeOK
      <3> QED BY <1>0, <1>t, <2>1, <2>2, <2>3, <2>4, <3>1 DEF containsKey, InHand
    <2>5. CASE u # t
      <3>1. key'[u] = key[u] /\ pc'[u] = pc[u] /\ key[u] \in Keys
        BY <2>5 DEF containsKey, Goes, TypeOK
      <3> QED BY <1>0, <1>t, <2>1, <2>2, <3>1 DEF containsKey, InHand
    <2> QED BY <2>4, <2>5
  <1>2. Quieted'
    BY DEF OwnInv, Quieted, containsKey, Goes, TypeOK
  <1>3. ASSUME NEW k \in Keys, Owned(k)'
        PROVE  CacheIsLatest(k)' /\ \A u \in Threads : InStep(k, u)'
    <2>1. Owned(k)
      BY <1>0, <1>3, OwnedBefore DEF containsKey
    <2>2. CacheIsLatest(k)'
      BY <2>1 DEF OwnInv, CacheIsLatest, containsKey
    <2>3. ASSUME NEW u \in Threads, u # t PROVE InStep(k, u)'
      <3>1. key'[u] = key[u] /\ pc'[u] = pc[u]
        BY <2>3 DEF containsKey, Goes, TypeOK
      <3> QED BY <2>1, <3>1 DEF OwnInv, InStep, containsKey
    <2>4. InStep(k, t)'
      <3>1. pc'[t] \in {"hit", "miss"} /\ key'[t] = k0
        BY DEF containsKey, Goes, TypeOK
      <3>2. CASE pc'[t] = "miss" /\ k = k0
        <4>1. cache[k] = Absent
          BY <3>2 DEF containsKey, Goes, TypeOK
        <4>2. ASSUME NEW u \in Threads PROVE fill[u][k] = Absent
          <5>1. CASE u = t
            BY <5>1 DEF OwnInv, InHand, Nothing, containsKey, Goes
          <5>2. CASE u # t
            <6>1. t \in users'[k]
              BY <3>2 DEF containsKey, Uses, TypeOK
            <6>2. u \notin users'[k]
              BY <1>3, <5>2, <6>1 DEF Owned, Private
            <6> QED BY <6>2, <1>0, <2>1 DEF OwnInv, InHand, Owned
          <5> QED BY <5>1, <5>2
        <4>3. latest[k] = Absent
          BY <2>1, <4>1, <4>2 DEF OwnInv, CacheIsLatest
        <4> QED BY <3>1, <4>3 DEF InStep, containsKey
      <3> QED BY <3>1, <3>2 DEF InStep
    <2> QED BY <2>2, <2>3, <2>4
  <1> QED BY <1>1, <1>2, <1>3 DEF OwnInv

LEMMA hitOwn ==
  ASSUME TypeOK, OwnInv, NEW t \in Threads, hit(t) \/ filled(t)
  PROVE  OwnInv'
  <1>0. /\ pc'[t] = "idle" /\ fill' = fill /\ fill[t] = Nothing
        /\ \A u \in Threads : u # t => pc'[u] = pc[u]
        /\ key' = key /\ users' = users /\ latest' = latest /\ removed' = removed
        /\ listening' = listening /\ notices' = notices /\ cache' = cache
        /\ editorCache' = editorCache /\ \A u \in Threads : Told(u)' = Told(u)
    BY ToldStays DEF hit, filled, Goes, historyVars, TypeOK, OwnInv, InHand
  <1>1. ASSUME NEW u \in Threads PROVE InHand(u)' /\ EditorAgrees(u)'
    BY <1>0 DEF OwnInv, InHand, EditorAgrees
  <1>2. Quieted'
    BY <1>0 DEF OwnInv, Quieted
  <1>3. ASSUME NEW k \in Keys, Owned(k)'
        PROVE  CacheIsLatest(k)' /\ \A u \in Threads : InStep(k, u)'
    <2>1. Owned(k)
      BY <1>0, <1>3 DEF Owned, Private
    <2>2. CacheIsLatest(k)'
      BY <1>0, <2>1 DEF OwnInv, CacheIsLatest
    <2>3. ASSUME NEW u \in Threads PROVE InStep(k, u)'
      BY <1>0, <2>1 DEF OwnInv, InStep
    <2> QED BY <2>2, <2>3
  <1> QED BY <1>1, <1>2, <1>3 DEF OwnInv

LEMMA missOwn ==
  ASSUME TypeOK, OwnInv, NEW t \in Threads, NEW v \in Values \union {Absent}, miss(t, v)
  PROVE  OwnInv'
  <1>0. /\ pc[t] = "miss" /\ pc'[t] = "filling" /\ fill[t] = Nothing
        /\ t \in users[key[t]] /\ key[t] \in Keys
        /\ \A k \in Keys : k # key[t] => fill'[t][k] = Absent
        /\ \A u \in Threads : u # t => pc'[u] = pc[u] /\ fill'[u] = fill[u]
        /\ key' = key /\ users' = users /\ latest' = latest /\ removed' = removed
        /\ listening' = listening /\ notices' = notices /\ cache' = cache
        /\ editorCache' = editorCache /\ \A u \in Threads : Told(u)' = Told(u)
    <2>1. pc[t] = "miss" /\ pc'[t] = "filling" /\ fill[t] = Nothing /\ key[t] \in Keys
      BY DEF miss, Goes, TypeOK, OwnInv, InHand
    <2>2. t \in users[key[t]]
      BY <2>1 DEF OwnInv, InHand
    <2>3. \A k \in Keys : k # key[t] => fill'[t][k] = Absent
      BY DEF miss, Nothing, TypeOK
    <2>4. \A u \in Threads : u # t => pc'[u] = pc[u] /\ fill'[u] = fill[u]
      BY DEF miss, Goes, TypeOK
    <2> QED BY <2>1, <2>2, <2>3, <2>4, ToldStays DEF miss, historyVars
  <1>1. ASSUME NEW u \in Threads PROVE InHand(u)' /\ EditorAgrees(u)'
    <2>1. EditorAgrees(u)'
      BY <1>0 DEF OwnInv, EditorAgrees
    <2>a. InHand(u)
      BY DEF OwnInv
    <2>b. /\ key' = key /\ users' = users /\ listening' = listening
          /\ editorCache' = editorCache /\ Told(u)' = Told(u)
      BY <1>0
    <2>2. CASE u = t
      <3>1. pc'[u] \notin {"idle", "hit", "miss"}
        BY <1>0, <2>2
      <3>2. ASSUME NEW k \in Keys, fill'[u][k] # Absent PROVE u \in users[k]
        BY <1>0, <2>2, <3>2
      <3> QED BY <2>1, <2>a, <2>b, <3>1, <3>2 DEF InHand
    <2>3. CASE u # t
      <3>1. pc'[u] = pc[u] /\ fill'[u] = fill[u]
        BY <1>0, <2>3
      <3> QED BY <2>1, <2>a, <2>b, <3>1 DEF InHand
    <2> QED BY <2>1, <2>2, <2>3
  <1>2. Quieted'
    BY <1>0 DEF OwnInv, Quieted
  <1>3. ASSUME NEW k \in Keys, Owned(k)'
        PROVE  CacheIsLatest(k)' /\ \A u \in Threads : InStep(k, u)'
    <2>1. Owned(k)
      BY <1>0, <1>3 DEF Owned, Private
    <2>2. CacheIsLatest(k)'
      <3>1. fill[t][k] = Absent
        BY <1>0 DEF Nothing
      <3> QED BY <1>0, <2>1, <3>1 DEF OwnInv, CacheIsLatest
    <2>3. ASSUME NEW u \in Threads PROVE InStep(k, u)'
      <3>1. CASE u = t
        BY <1>0, <2>1, <3>1 DEF OwnInv, InStep
      <3>2. CASE u # t
        BY <1>0, <2>1, <3>2 DEF OwnInv, InStep
      <3> QED BY <3>1, <3>2
    <2> QED BY <2>2, <2>3
  <1> QED BY <1>1, <1>2, <1>3 DEF OwnInv
LEMMA putOwn ==
  ASSUME TypeOK, OwnInv, NEW t \in Threads, NEW k0 \in Keys, put(t, k0)
  PROVE  OwnInv'
  <1>0. /\ fill[t][k0] # Absent /\ cache'[k0] = fill[t][k0] /\ fill'[t][k0] = Absent
        /\ pc[t] \notin {"idle", "hit", "miss"}
        /\ \A k \in Keys : k # k0 => cache'[k] = cache[k] /\ fill'[t][k] = fill[t][k]
        /\ \A u \in Threads : u # t => fill'[u] = fill[u]
        /\ pc' = pc /\ key' = key /\ users' = users /\ latest' = latest /\ removed' = removed
        /\ listening' = listening /\ notices' = notices
        /\ editorCache' = editorCache /\ \A u \in Threads : Told(u)' = Told(u)
    <2>1. pc[t] \notin {"idle", "hit", "miss"}
      BY DEF put, OwnInv, InHand, Nothing
    <2>2. fill[t] \in Store /\ fill'[t] = [fill[t] EXCEPT ![k0] = Absent]
      BY DEF put, TypeOK
    <2>3. fill'[t][k0] = Absent /\ \A k \in Keys : k # k0 => fill'[t][k] = fill[t][k]
      BY <2>2 DEF Store
    <2>4. cache'[k0] = fill[t][k0] /\ \A k \in Keys : k # k0 => cache'[k] = cache[k]
      BY DEF put, TypeOK, Store
    <2>5. \A u \in Threads : u # t => fill'[u] = fill[u]
      BY DEF put, TypeOK
    <2> QED BY <2>1, <2>3, <2>4, <2>5, ToldStays DEF put, historyVars
  <1>1. ASSUME NEW u \in Threads PROVE InHand(u)' /\ EditorAgrees(u)'
    <2>1. EditorAgrees(u)'
      BY <1>0 DEF OwnInv, EditorAgrees
    <2>2. InHand(u)
      BY DEF OwnInv
    <2>3. CASE u = t
      <3>1. \A k \in Keys : fill'[u][k] # Absent => fill[u][k] # Absent
        BY <1>0, <2>3
      <3> QED BY <1>0, <2>2, <2>3, <2>1, <3>1 DEF InHand
    <2>4. CASE u # t
      <3>1. fill'[u] = fill[u]
        BY <1>0, <2>4
      <3> QED BY <1>0, <2>2, <2>1, <3>1 DEF InHand
    <2> QED BY <2>3, <2>4
  <1>2. Quieted'
    BY <1>0 DEF OwnInv, Quieted
  <1>3. ASSUME NEW k \in Keys, Owned(k)'
        PROVE  CacheIsLatest(k)' /\ \A u \in Threads : InStep(k, u)'
    <2>1. Owned(k)
      BY <1>0, <1>3 DEF Owned, Private
    <2>2. CacheIsLatest(k) /\ InStep(k, t)
      BY <2>1 DEF OwnInv
    <2>3. CacheIsLatest(k)'
      <3>1. CASE k = k0
        <4>1. pc[t] \in {"filling", "applying", "committing"}
          BY <1>0, <2>1 DEF TypeOK, Pcs, OwnInv, Quieted, Owned
        <4>2. latest[k] # Absent => fill[t][k] = latest[k]
          BY <1>0, <2>2, <3>1, <4>1 DEF InStep
        <4> QED BY <1>0, <3>1, <4>2 DEF CacheIsLatest
      <3>2. CASE k # k0
        <4>1. cache'[k] = cache[k] /\ \A u \in Threads : fill'[u][k] = fill[u][k]
          BY <1>0, <3>2
        <4> QED BY <1>0, <2>2, <4>1 DEF CacheIsLatest
      <3> QED BY <3>1, <3>2
    <2>4. ASSUME NEW u \in Threads PROVE InStep(k, u)'
      <3>1. fill'[u][k] \in {Absent, fill[u][k]}
        BY <1>0
      <3> QED BY <1>0, <2>1, <3>1 DEF OwnInv, InStep
    <2> QED BY <2>3, <2>4
  <1> QED BY <1>1, <1>2, <1>3 DEF OwnInv

(* The edits before a hand-over: the cache loses what is removed.          *)
LEMMA editOwn ==
  ASSUME TypeOK, OwnInv, NEW t \in Threads,
         pc' = pc, key' = key, fill' = fill, latest' = latest, listening' = listening,
         notices' = notices,
         \A k \in Keys : users[k] \subseteq users'[k],
         removed \subseteq removed', removed' \subseteq Keys,
         \A k \in Keys : k \notin removed' => cache'[k] = cache[k],
         \A u \in Threads : u # t => editorCache'[u] = editorCache[u] /\ Told(u)' = Told(u),
         EditorAgrees(t)',
         \A k \in Keys :
           editorCache'[t][k] # Absent \/ Told(t)'.mods[k] # Kept => t \in users'[k]
  PROVE  OwnInv'
  <1>1. ASSUME NEW u \in Threads PROVE InHand(u)'
    <2>1. InHand(u) /\ key[u] \in Keys
      BY DEF OwnInv, TypeOK
    <2>2. ASSUME NEW k \in Keys
          PROVE  (editorCache'[u][k] # Absent => u \in users'[k])
                 /\ (Told(u)'.mods[k] # Kept => u \in users'[k])
      <3>1. CASE u = t
        BY <3>1
      <3>2. CASE u # t
        BY <2>1, <3>2 DEF InHand
      <3> QED BY <3>1, <3>2
    <2> QED BY <2>1, <2>2 DEF InHand
  <1>2. ASSUME NEW u \in Threads PROVE EditorAgrees(u)'
    <2>1. CASE u # t
      <3>1. EditorAgrees(u) /\ (removed = Keys => removed' = Keys)
        BY DEF OwnInv
      <3> QED BY <2>1, <3>1 DEF EditorAgrees
    <2> QED BY <2>1
  <1>3. Quieted'
    BY DEF OwnInv, Quieted
  <1>4. ASSUME NEW k \in Keys, Owned(k)'
        PROVE  CacheIsLatest(k)' /\ \A u \in Threads : InStep(k, u)'
    <2>1. Owned(k) /\ k \notin removed'
      BY <1>4, OwnedBefore DEF Owned
    <2>2. CacheIsLatest(k)'
      BY <2>1 DEF OwnInv, CacheIsLatest
    <2>3. ASSUME NEW u \in Threads PROVE InStep(k, u)'
      BY <2>1 DEF OwnInv, InStep
    <2> QED BY <2>2, <2>3
  <1> QED BY <1>1, <1>2, <1>3, <1>4 DEF OwnInv

LEMMA resetOwn ==
  ASSUME TypeOK, OwnInv, NEW t \in Threads, edit(t)
  PROVE  OwnInv'
  <1>1. Told(t)' = NoChanges /\ editorCache'[t] = Nothing
    BY ToldNew DEF edit, TypeOK
  <1>2. EditorAgrees(t)'
    BY <1>1 DEF EditorAgrees, NoChanges
  <1>3. \A k \in Keys : editorCache'[t][k] = Absent /\ Told(t)'.mods[k] = Kept
    BY <1>1 DEF Nothing, NoChanges
  <1>4. \A u \in Threads : u # t => editorCache'[u] = editorCache[u] /\ Told(u)' = Told(u)
    BY ToldNew DEF edit, TypeOK
  <1>5. removed \subseteq Keys
    BY DEF TypeOK
  <1> QED BY <1>2, <1>3, <1>4, <1>5, editOwn DEF edit, callVars, historyVars

LEMMA putValueOwn ==
  ASSUME TypeOK, OwnInv, NEW t \in Threads, NEW k0 \in Keys, NEW v \in Values,
         putValue(t, k0, v)
  PROVE  OwnInv'
  <1>0. EditorAgrees(t) /\ InHand(t)
    BY DEF OwnInv
  <1>1. /\ editorCache'[t][k0] = v /\ Told(t)'.mods[k0] = v
        /\ Told(t)'.cleared = Told(t).cleared
        /\ \A k \in Keys : k # k0 => /\ editorCache'[t][k] = editorCache[t][k]
                                     /\ Told(t)'.mods[k] = Told(t).mods[k]
    <2>1. editorCache[t] \in Store /\ Told(t) \in Changes
      BY MineTyped DEF Told
    <2>2. editorCache'[t] = [editorCache[t] EXCEPT ![k0] = v]
      BY DEF putValue, TypeOK
    <2>3. Told(t)' = Says(Told(t), k0, v)
      BY ToldSaid DEF putValue, Tells, Told
    <2> QED BY <2>1, <2>2, <2>3 DEF Says, Store, Changes
  <1>2. EditorAgrees(t)'
    BY <1>0, <1>1 DEF EditorAgrees, putValue
  <1>3. \A k \in Keys : users[k] \subseteq users'[k]
    BY DEF putValue, Uses, TypeOK
  <1>4. t \in users'[k0]
    BY DEF putValue, Uses, TypeOK
  <1>5. \A k \in Keys : editorCache'[t][k] # Absent \/ Told(t)'.mods[k] # Kept => t \in users'[k]
    BY <1>0, <1>1, <1>3, <1>4 DEF InHand
  <1>6. \A u \in Threads : u # t => editorCache'[u] = editorCache[u] /\ Told(u)' = Told(u)
    BY ToldSaid DEF putValue, Tells, TypeOK
  <1>7. removed \subseteq Keys
    BY DEF TypeOK
  <1> QED BY <1>2, <1>3, <1>5, <1>6, <1>7, editOwn DEF putValue, Tells, callVars

LEMMA removeOwn ==
  ASSUME TypeOK, OwnInv, NEW t \in Threads, NEW k0 \in Keys, remove(t, k0)
  PROVE  OwnInv'
  <1>0. EditorAgrees(t) /\ InHand(t) /\ removed \subseteq Keys
    BY DEF OwnInv, TypeOK
  <1>1. /\ Told(t)'.cleared = Told(t).cleared /\ editorCache' = editorCache
        /\ \A k \in Keys : k # k0 => Told(t)'.mods[k] = Told(t).mods[k]
    <2>1. Told(t) \in Changes
      BY MineTyped DEF Told
    <2>2. Told(t)' = Says(Told(t), k0, Absent)
      BY ToldSaid DEF remove, Tells, Told
    <2> QED BY <2>1, <2>2 DEF Says, Changes, remove
  <1>7. removed' = removed \union {k0} /\ \A k \in Keys : k # k0 => cache'[k] = cache[k]
    BY DEF remove, TypeOK, Store
  <1>2. EditorAgrees(t)'
    BY <1>0, <1>1, <1>7 DEF EditorAgrees
  <1>3. \A k \in Keys : users[k] \subseteq users'[k]
    BY DEF remove, Uses, TypeOK
  <1>4. t \in users'[k0]
    BY DEF remove, Uses, TypeOK
  <1>5. \A k \in Keys : editorCache'[t][k] # Absent \/ Told(t)'.mods[k] # Kept => t \in users'[k]
    BY <1>0, <1>1, <1>3, <1>4 DEF InHand
  <1>6. \A u \in Threads : u # t => editorCache'[u] = editorCache[u] /\ Told(u)' = Told(u)
    BY <1>1, ToldSaid DEF remove, Tells
  <1> QED BY <1>0, <1>2, <1>3, <1>5, <1>6, <1>7, editOwn DEF remove, Tells, callVars

LEMMA clearOwn ==
  ASSUME TypeOK, OwnInv, NEW t \in Threads, clear(t)
  PROVE  OwnInv'
  <1>0. EditorAgrees(t) /\ InHand(t)
    BY DEF OwnInv
  <1>1. Told(t)'.mods = Told(t).mods /\ editorCache' = editorCache
    <2>1. Told(t)' = [Told(t) EXCEPT !.cleared = TRUE]
      BY ToldSaid DEF clear, Tells, Told
    <2>2. Told(t) \in Changes
      BY MineTyped DEF Told
    <2> QED BY <2>1, <2>2 DEF clear, Changes
  <1>2. EditorAgrees(t)'
    BY DEF EditorAgrees, clear
  <1>3. \A k \in Keys : users[k] \subseteq users'[k]
    BY DEF clear, Uses, TypeOK
  <1>5. \A k \in Keys : editorCache'[t][k] # Absent \/ Told(t)'.mods[k] # Kept => t \in users'[k]
    BY <1>0, <1>1, <1>3 DEF InHand
  <1>6. \A u \in Threads : u # t => editorCache'[u] = editorCache[u] /\ Told(u)' = Told(u)
    BY <1>1, ToldSaid DEF clear, Tells
  <1>7. removed \subseteq removed' /\ removed' = Keys
    BY DEF clear, TypeOK
  <1> QED BY <1>2, <1>3, <1>5, <1>6, <1>7, editOwn DEF clear, Tells, callVars

LEMMA handOverOwn ==
  ASSUME TypeOK, OwnInv, NEW t \in Threads, NEW to \in {"applying", "committing"},
         handOver(t, to)
  PROVE  OwnInv'
  <1>0. /\ pc[t] = "idle" /\ pc'[t] = to /\ fill[t] = Nothing /\ fill'[t] = editorCache[t]
        /\ latest' = Edited(Over(latest, editorCache[t]), Told(t))
        /\ \A u \in Threads : u # t => pc'[u] = pc[u] /\ fill'[u] = fill[u]
        /\ key' = key /\ users' = users /\ removed' = removed
        /\ listening' = listening /\ notices' = notices /\ cache' = cache
        /\ editorCache' = editorCache /\ \A u \in Threads : Told(u)' = Told(u)
    <2>1. pc[t] = "idle" /\ pc'[t] = to /\ fill'[t] = editorCache[t]
      BY DEF handOver, Goes, TypeOK
    <2>2. fill[t] = Nothing
      BY <2>1 DEF OwnInv, InHand
    <2>3. \A u \in Threads : u # t => pc'[u] = pc[u] /\ fill'[u] = fill[u]
      BY DEF handOver, Goes, TypeOK
    <2> QED BY <2>1, <2>2, <2>3 DEF handOver, Tells, Told, My
  <1>h. \A u \in Threads : InHand(u) /\ EditorAgrees(u)
    BY DEF OwnInv
  <1>1. ASSUME NEW u \in Threads PROVE InHand(u)'
    <2>1. /\ key' = key /\ users' = users /\ listening' = listening
          /\ editorCache' = editorCache /\ Told(u)' = Told(u)
      BY <1>0
    <2>2. CASE u = t
      <3>1. pc'[u] \notin {"idle", "hit", "miss"} /\ fill'[u] = editorCache[u]
        BY <1>0, <2>2
      <3> QED BY <1>h, <2>1, <3>1 DEF InHand
    <2>3. CASE u # t
      <3>1. pc'[u] = pc[u] /\ fill'[u] = fill[u]
        BY <1>0, <2>3
      <3> QED BY <1>h, <2>1, <3>1 DEF InHand
    <2> QED BY <2>2, <2>3
  <1>2. ASSUME NEW u \in Threads PROVE EditorAgrees(u)'
    BY <1>0, <1>h DEF EditorAgrees
  <1>3. Quieted'
    BY <1>0 DEF OwnInv, Quieted
  <1>4. ASSUME NEW k \in Keys, Owned(k)'
        PROVE  CacheIsLatest(k)' /\ \A u \in Threads : InStep(k, u)'
    <2>1. Owned(k) /\ k \notin removed /\ ~Told(t).cleared
      <3>1. Owned(k) /\ k \notin removed
        BY <1>0, <1>4 DEF Owned, Private
      <3> QED BY <1>h, <3>1 DEF EditorAgrees
    <2>2. Told(t).mods[k] # Kept => Told(t).mods[k] = editorCache[t][k] /\ Told(t).mods[k] \in Values
      BY <1>h, <2>1 DEF EditorAgrees
    <2>3. latest'[k] = IF editorCache[t][k] # Absent THEN editorCache[t][k] ELSE latest[k]
      BY <1>0, <2>1, <2>2 DEF Edited, Over
    <2>4. CacheIsLatest(k)'
      <3>1. SUFFICES ASSUME latest'[k] # Absent, \A u \in Threads : fill'[u][k] = Absent
                     PROVE  cache'[k] = latest'[k]
        BY DEF CacheIsLatest
      <3>2. editorCache[t][k] = Absent
        BY <1>0, <3>1
      <3>3. latest'[k] = latest[k]
        BY <2>3, <3>2
      <3>4. \A u \in Threads : fill[u][k] = Absent
        BY <1>0, <3>1 DEF Nothing
      <3> QED BY <1>0, <2>1, <3>1, <3>3, <3>4 DEF OwnInv, CacheIsLatest
    <2>5. InStep(k, t)'
      BY <1>0, <2>3 DEF InStep
    <2>6. ASSUME NEW u \in Threads, u # t PROVE InStep(k, u)'
      <3>1. pc'[u] = pc[u] /\ fill'[u] = fill[u] /\ key'[u] = key[u]
        BY <1>0, <2>6
      <3>2. CASE latest'[k] = latest[k]
        BY <2>1, <3>1, <3>2 DEF OwnInv, InStep
      <3>3. CASE editorCache[t][k] # Absent
        <4>1. t \in users[k]
          BY <1>h, <3>3 DEF InHand
        <4>2. u \notin users[k]
          BY <2>1, <2>6, <4>1, OnlyUser
        <4>3. fill[u][k] = Absent /\ ~(pc[u] = "miss" /\ key[u] = k)
          BY <1>h, <2>1, <4>2 DEF InHand, Owned
        <4> QED BY <3>1, <4>3 DEF InStep
      <3> QED BY <2>3, <3>2, <3>3
    <2> QED BY <2>4, <2>5, <2>6
  <1> QED BY <1>1, <1>2, <1>3, <1>4 DEF OwnInv

(* A call ends: commit() returns, or the pool has the task.                *)
LEMMA handedOwn ==
  ASSUME TypeOK, OwnInv, NEW t \in Threads, fill[t] = Nothing,
         pc'[t] \in {"idle", "told"}, pc'[t] = "told" => listening,
         \A u \in Threads : u # t => pc'[u] = pc[u],
         \A u \in Threads : Told(u)' \in {Told(u), NoChanges},
         editorCache' = editorCache,
         cache' = cache, key' = key, fill' = fill, listening' = listening, users' = users,
         latest' = latest, removed' = removed, ~listening => notices' = notices
  PROVE  OwnInv'
  <1>h. \A u \in Threads : InHand(u) /\ EditorAgrees(u)
    BY DEF OwnInv
  <1>1. ASSUME NEW u \in Threads PROVE EditorAgrees(u)'
    BY <1>h DEF EditorAgrees, NoChanges
  <1>2. \A u \in Threads, k \in Keys : Told(u)'.mods[k] # Kept => Told(u).mods[k] # Kept
    BY DEF NoChanges
  <1>3. InHand(t)'
    <2>1. pc'[t] \notin {"hit", "miss"} /\ fill'[t] = Nothing
      OBVIOUS
    <2> QED BY <1>h, <1>2, <2>1 DEF InHand, Nothing
  <1>4. ASSUME NEW u \in Threads, u # t PROVE InHand(u)'
    <2>1. pc'[u] = pc[u] /\ fill'[u] = fill[u] /\ key'[u] = key[u] /\ InHand(u)
      BY <1>h, <1>4
    <2> QED BY <1>2, <2>1 DEF InHand
  <1>5. Quieted'
    BY DEF OwnInv, Quieted
  <1>6. ASSUME NEW k \in Keys, Owned(k)'
        PROVE  CacheIsLatest(k)' /\ \A u \in Threads : InStep(k, u)'
    <2>1. Owned(k)
      BY <1>6 DEF Owned, Private
    <2>2. CacheIsLatest(k)'
      BY <2>1 DEF OwnInv, CacheIsLatest
    <2>3. ASSUME NEW u \in Threads PROVE InStep(k, u)'
      BY <2>1 DEF OwnInv, InStep
    <2> QED BY <2>2, <2>3
  <1> QED BY <1>1, <1>3, <1>4, <1>5, <1>6 DEF OwnInv

LEMMA commitsOwn ==
  ASSUME TypeOK, OwnInv, NEW t \in Threads, commits(t)
  PROVE  OwnInv'
  <1>1. ~listening => notices' = notices
    BY DEF commits, Commit
  <1>2. pc'[t] \in {"idle", "told"} /\ (pc'[t] = "told" => listening)
    BY <1>1 DEF commits, Goes, TypeOK
  <1>3. \A u \in Threads : u # t => pc'[u] = pc[u]
    BY DEF commits, Goes, TypeOK
  <1>4. \A u \in Threads : Told(u)' \in {Told(u), NoChanges}
    BY MineTyped, ToldCommitted DEF commits, ownVars
  <1> QED BY <1>1, <1>2, <1>3, <1>4, handedOwn DEF commits, ownVars, historyVars

LEMMA executeOwn ==
  ASSUME TypeOK, OwnInv, NEW t \in Threads, execute(t)
  PROVE  OwnInv'
  <1>1. pc'[t] = "idle" /\ \A u \in Threads : u # t => pc'[u] = pc[u]
    BY DEF execute, TypeOK
  <1>2. editorCache' = editorCache /\ \A u \in Threads : Told(u)' \in {Told(u), NoChanges}
    BY ToldStays DEF execute
  <1> QED BY <1>1, <1>2, handedOwn DEF execute, historyVars

LEMMA callerRunsOwn ==
  ASSUME TypeOK, OwnInv, NEW t \in Threads, callerRuns(t)
  PROVE  OwnInv'
  <1>0. /\ pc[t] = "applying" /\ pc'[t] = "committing"
        /\ \A u \in Threads : u # t => pc'[u] = pc[u]
        /\ key' = key /\ users' = users /\ latest' = latest /\ removed' = removed
        /\ listening' = listening /\ notices' = notices /\ cache' = cache /\ fill' = fill
        /\ editorCache' = editorCache /\ \A u \in Threads : Told(u)' = Told(u)
    BY ToldStays DEF callerRuns, Goes, historyVars, TypeOK
  <1>1. ASSUME NEW u \in Threads PROVE InHand(u)' /\ EditorAgrees(u)'
    BY <1>0 DEF OwnInv, InHand, EditorAgrees
  <1>2. Quieted'
    BY <1>0 DEF OwnInv, Quieted
  <1>3. ASSUME NEW k \in Keys, Owned(k)'
        PROVE  CacheIsLatest(k)' /\ \A u \in Threads : InStep(k, u)'
    <2>1. Owned(k)
      BY <1>0, <1>3 DEF Owned, Private
    <2>2. CacheIsLatest(k)'
      BY <1>0, <2>1 DEF OwnInv, CacheIsLatest
    <2>3. ASSUME NEW u \in Threads PROVE InStep(k, u)'
      BY <1>0, <2>1 DEF OwnInv, InStep
    <2> QED BY <2>2, <2>3
  <1> QED BY <1>1, <1>2, <1>3 DEF OwnInv

(* What the pool does is no business of the cache, and an editor that has  *)
(* been emptied says nothing any more.                                     *)
LEMMA poolOwn ==
  ASSUME OwnInv,
         pc' = pc, key' = key, fill' = fill, editorCache' = editorCache,
         \A u \in Threads : Told(u)' \in {Told(u), NoChanges},
         cache' = cache, listening' = listening, users' = users, latest' = latest,
         removed' = removed, ~listening => notices' = notices
  PROVE  OwnInv'
  <1>1. ASSUME NEW u \in Threads PROVE InHand(u)' /\ EditorAgrees(u)'
    <2>1. InHand(u) /\ EditorAgrees(u)
      BY DEF OwnInv
    <2>2. CASE Told(u)' = Told(u)
      BY <2>1, <2>2 DEF InHand, EditorAgrees
    <2>3. CASE Told(u)' = NoChanges
      BY <2>1, <2>3 DEF InHand, EditorAgrees, NoChanges
    <2> QED BY <2>2, <2>3
  <1>2. Quieted'
    BY DEF OwnInv, Quieted
  <1> QED BY <1>1, <1>2 DEF OwnInv, Owned, Private, InStep, CacheIsLatest

LEMMA listenerOwn ==
  ASSUME TypeOK, OwnInv, onSharedPreferenceChanged
  PROVE  OwnInv'
  <1>1. listening /\ listening' = listening
    BY DEF OwnInv, Quieted, onSharedPreferenceChanged, TypeOK
  <1>2. ASSUME NEW u \in Threads PROVE InHand(u)' /\ EditorAgrees(u)'
    <2>1. InHand(u) /\ EditorAgrees(u)
      BY DEF OwnInv
    <2>e. UNCHANGED editorCache /\ Told(u)' = Told(u)
      BY ToldStays DEF onSharedPreferenceChanged
    <2>2. EditorAgrees(u)'
      BY <2>1, <2>e DEF EditorAgrees, onSharedPreferenceChanged, historyVars
    <2>3. \/ pc'[u] = "filling"
          \/ pc'[u] = pc[u] /\ fill'[u] = fill[u]
      BY DEF onSharedPreferenceChanged, TypeOK
    <2>4. InHand(u)'
      BY <1>1, <2>1, <2>3, <2>e DEF InHand, onSharedPreferenceChanged, historyVars
    <2> QED BY <2>2, <2>4
  <1> QED BY <1>1, <1>2 DEF OwnInv, Quieted, Owned

LEMMA OwnStep == TypeOK /\ OwnInv /\ [Next]_vars => OwnInv'
  <1> SUFFICES ASSUME TypeOK, OwnInv, [Next]_vars PROVE OwnInv'
    OBVIOUS
  <1>1. ASSUME NEW t \in Threads, Reads(t) PROVE OwnInv'
    BY <1>1, containsKeyOwn DEF Reads
  <1>2. ASSUME NEW t \in Threads, CallGoesOn(t) PROVE OwnInv'
    BY <1>2, hitOwn, missOwn, putOwn, commitsOwn, executeOwn, callerRunsOwn DEF CallGoesOn
  <1>3. ASSUME NEW t \in Writers, Edits(t) PROVE OwnInv'
    <2>1. t \in Threads
      OBVIOUS
    <2>2. CASE apply(t) \/ commit(t)
      BY <2>1, <2>2, handOverOwn DEF apply, commit
    <2> QED BY <2>1, <2>2, <1>3, removeOwn, putValueOwn, resetOwn, clearOwn DEF Edits
  <1>4. CASE PoolRuns
    <2>1. CASE take
      BY <2>1, poolOwn, ToldStays DEF take, callVars, historyVars
    <2>2. CASE retire
      BY <2>2, poolOwn, ToldStays DEF retire, callVars, historyVars
    <2>3. ASSUME NEW task \in running, commitInBackground(task) PROVE OwnInv'
      <3>1. task.of \in Editors
        BY DEF TypeOK, Tasks
      <3>2. \A u \in Threads : Told(u)' \in {Told(u), NoChanges}
        BY <2>3, <3>1, ToldCommitted DEF commitInBackground, ownVars
      <3>3. ~listening => notices' = notices
        BY <2>3 DEF commitInBackground, Commit
      <3> QED BY <2>3, <3>2, <3>3, poolOwn DEF commitInBackground, ownVars, callVars, historyVars
    <2> QED BY <1>4, <2>1, <2>2, <2>3 DEF PoolRuns
  <1>5. CASE UNCHANGED vars
    BY <1>5, poolOwn, ToldStays DEF vars, callVars, historyVars
  <1> QED BY <1>1, <1>2, <1>3, <1>4, <1>5, listenerOwn DEF Next

(* Once no call is under way, the inductive invariant is the property.     *)
LEMMA OwnImplies == TypeOK /\ OwnInv => ReadsOwnWrites
  <1> SUFFICES ASSUME TypeOK, OwnInv, NEW k \in Keys, ~listening, k \notin removed,
                      Private(k), latest[k] # Absent,
                      \A t \in users[k] : pc[t] \in {"idle", "hit", "miss"}
               PROVE  cache[k] = latest[k]
    BY DEF ReadsOwnWrites
  <1>1. ASSUME NEW t \in Threads PROVE fill[t][k] = Absent
    <2>1. CASE t \in users[k]
      BY <2>1 DEF OwnInv, InHand, Nothing
    <2>2. CASE t \notin users[k]
      BY <2>2 DEF OwnInv, InHand
    <2> QED BY <2>1, <2>2
  <1> QED BY <1>1 DEF OwnInv, Owned, CacheIsLatest

(* A thread that alone uses a key, and never removes it, finds in the      *)
(* cache what its last apply() or commit() said of it, however many other  *)
(* threads and keys there are and whatever the pool has got round to.      *)
THEOREM ReadsOwn == Spec => []ReadsOwnWrites
  BY TypeInit, TypeStep, OwnInit, OwnStep, OwnImplies, PTL DEF Spec

--------------------------------------------------------------------------------
(* Null behind a key *)

(* Between containsKey and get, a key that is private still has its value. *)
StillThere(t) ==
  pc[t] = "hit" => t \in users[key[t]] /\ (Private(key[t]) => cache[key[t]] # Absent)

NullInv == OnlySharedKeysAreNulled /\ \A t \in Threads : StillThere(t)

(* A key that others use as well stays one.                                *)
LEMMA StaysShared ==
  ASSUME NEW k \in Keys, users[k] \subseteq users'[k], Private(k)'
  PROVE  Private(k)
  BY DEF Private

(* Users only come, and what leaves the cache under a getter that has      *)
(* asked containsKey is a key it does not have to itself.                  *)
LEMMA keepsNull ==
  ASSUME TypeOK, NullInv, nulled' = nulled,
         \A k \in Keys : users[k] \subseteq users'[k],
         \A u \in Threads : pc'[u] = "hit" =>
            /\ pc[u] = "hit" /\ key'[u] = key[u]
            /\ Private(key[u])' /\ cache[key[u]] # Absent => cache'[key[u]] # Absent
  PROVE  NullInv'
  <1>1. OnlySharedKeysAreNulled'
    <2> SUFFICES ASSUME NEW k \in nulled, Private(k)' PROVE FALSE
      BY DEF OnlySharedKeysAreNulled
    <2>1. k \in Keys /\ ~Private(k)
      BY DEF TypeOK, NullInv, OnlySharedKeysAreNulled
    <2> QED BY <2>1, StaysShared
  <1>2. ASSUME NEW u \in Threads PROVE StillThere(u)'
    <2> SUFFICES ASSUME pc'[u] = "hit"
                 PROVE  u \in users'[key'[u]] /\ (Private(key[u])' => cache'[key'[u]] # Absent)
      BY DEF StillThere
    <2>1. key[u] \in Keys /\ key'[u] = key[u] /\ pc[u] = "hit"
      BY DEF TypeOK
    <2>2. u \in users[key[u]] /\ (Private(key[u]) => cache[key[u]] # Absent)
      BY <2>1 DEF NullInv, StillThere
    <2>3. Private(key[u])' => Private(key[u])
      BY <2>1 DEF Private
    <2> QED BY <2>1, <2>2, <2>3
  <1> QED BY <1>1, <1>2 DEF NullInv

LEMMA NullInit == Init => NullInv
  BY DEF Init, NullInv, StillThere, OnlySharedKeysAreNulled

LEMMA containsKeyNull ==
  ASSUME TypeOK, NullInv, NEW t \in Threads, NEW k0 \in Keys, containsKey(t, k0)
  PROVE  NullInv'
  <1>1. \A k \in Keys : users[k] \subseteq users'[k]
    BY DEF containsKey, Uses, TypeOK
  <1>2. OnlySharedKeysAreNulled'
    <2> SUFFICES ASSUME NEW k \in nulled, Private(k)' PROVE FALSE
      BY DEF OnlySharedKeysAreNulled, containsKey
    <2>1. k \in Keys /\ ~Private(k)
      BY DEF TypeOK, NullInv, OnlySharedKeysAreNulled
    <2> QED BY <1>1, <2>1, StaysShared
  <1>3. /\ key'[t] = k0 /\ t \in users'[k0] /\ cache' = cache
        /\ pc'[t] = "hit" => cache[k0] # Absent
    BY DEF containsKey, Goes, Uses, TypeOK
  <1>4. ASSUME NEW u \in Threads, u # t PROVE StillThere(u)'
    <2>1. pc'[u] = pc[u] /\ key'[u] = key[u] /\ key[u] \in Keys
      BY <1>4 DEF containsKey, Goes, TypeOK
    <2>2. StillThere(u) /\ users[key[u]] \subseteq users'[key[u]]
      BY <1>1, <2>1 DEF NullInv
    <2>3. Private(key[u])' => Private(key[u])
      BY <2>1, <2>2 DEF Private
    <2> QED BY <1>3, <2>1, <2>2, <2>3 DEF StillThere
  <1>5. StillThere(t)'
    BY <1>3 DEF StillThere
  <1> QED BY <1>2, <1>4, <1>5 DEF NullInv

(* The getter finds null: the key is shared.                               *)
LEMMA hitNull ==
  ASSUME TypeOK, NullInv, NEW t \in Threads, hit(t)
  PROVE  NullInv'
  <1>1. /\ pc[t] = "hit" /\ pc'[t] = "idle" /\ key' = key /\ users' = users /\ cache' = cache
        /\ \A u \in Threads : u # t => pc'[u] = pc[u]
    BY DEF hit, Goes, TypeOK, historyVars
  <1>2. OnlySharedKeysAreNulled'
    <2>1. \/ nulled' = nulled
          \/ cache[key[t]] = Absent /\ nulled' = nulled \union {key[t]}
      BY DEF hit
    <2>2. cache[key[t]] = Absent => ~Private(key[t])
      BY <1>1 DEF NullInv, StillThere
    <2>3. \A k \in nulled : ~Private(k)
      BY DEF NullInv, OnlySharedKeysAreNulled
    <2> QED BY <1>1, <2>1, <2>2, <2>3 DEF OnlySharedKeysAreNulled, Private
  <1>3. ASSUME NEW u \in Threads PROVE StillThere(u)'
    <2>1. StillThere(u) /\ (pc'[u] = "hit" => pc[u] = "hit")
      BY <1>1 DEF NullInv
    <2> QED BY <1>1, <2>1 DEF StillThere, Private
  <1> QED BY <1>2, <1>3 DEF NullInv

(* A call that leaves "hit" alone and takes nothing out of the cache.      *)
LEMMA callNull ==
  ASSUME TypeOK, NullInv, nulled' = nulled, key' = key, users' = users,
         \A u \in Threads : pc'[u] = "hit" => pc[u] = "hit",
         \A k \in Keys : cache[k] # Absent => cache'[k] # Absent
  PROVE  NullInv'
  <1>1. \A u \in Threads : key[u] \in Keys
    BY DEF TypeOK
  <1> QED BY <1>1, keepsNull

LEMMA putNull ==
  ASSUME TypeOK, NullInv, NEW t \in Threads, NEW k0 \in Keys, put(t, k0)
  PROVE  NullInv'
  <1>1. \A k \in Keys : cache[k] # Absent => cache'[k] # Absent
    BY DEF put, TypeOK, Store
  <1> QED BY <1>1, callNull DEF put, historyVars

(* One thread's call, which does not touch the cache.                      *)
LEMMA goesNull ==
  ASSUME TypeOK, NullInv, nulled' = nulled, key' = key, users' = users, cache' = cache,
         NEW t \in Threads, NEW to \in Pcs \ {"hit"}, pc' = [pc EXCEPT ![t] = to]
  PROVE  NullInv'
  <1>1. \A u \in Threads : pc'[u] = "hit" => pc[u] = "hit"
    BY DEF TypeOK
  <1> QED BY <1>1, callNull

(* An editor's put or remove: the thread itself is not in a getter, and    *)
(* who is in one shares the key with it.                                   *)
LEMMA usesNull ==
  ASSUME TypeOK, NullInv, NEW t \in Threads, NEW ks \in SUBSET Keys, Uses(t, ks),
         pc[t] = "idle", pc' = pc, key' = key, nulled' = nulled,
         \A k \in Keys \ ks : cache'[k] = cache[k]
  PROVE  NullInv'
  <1>1. /\ \A k \in Keys : users[k] \subseteq users'[k]
        /\ \A k \in ks : t \in users'[k]
    BY DEF Uses, TypeOK
  <1>2. ASSUME NEW u \in Threads, pc'[u] = "hit", Private(key[u])', cache[key[u]] # Absent
        PROVE  cache'[key[u]] # Absent
    <2>1. key[u] \in Keys /\ u # t /\ u \in users[key[u]]
      BY <1>2 DEF TypeOK, NullInv, StillThere
    <2>2. u \in users'[key[u]]
      BY <1>1, <2>1
    <2>3. \A a, b \in users'[key'[u]] : a = b
      BY <1>2 DEF Private
    <2>4. key[u] \notin ks
      BY <1>1, <2>1, <2>2, <2>3
    <2> QED BY <1>2, <2>1, <2>4
  <1> QED BY <1>1, <1>2, keepsNull

LEMMA NullStep == TypeOK /\ NullInv /\ [Next]_vars => NullInv'
  <1> SUFFICES ASSUME TypeOK, NullInv, [Next]_vars PROVE NullInv'
    OBVIOUS
  <1>1. ASSUME NEW t \in Threads, Reads(t) PROVE NullInv'
    BY <1>1, containsKeyNull DEF Reads
  <1>2. ASSUME NEW t \in Threads, CallGoesOn(t) PROVE NullInv'
    <2>1. ASSUME NEW v \in Values \union {Absent}, miss(t, v) PROVE NullInv'
      BY <2>1, goesNull DEF miss, Goes, Pcs, historyVars
    <2>2. CASE filled(t)
      BY <2>2, goesNull DEF filled, Goes, Pcs, historyVars
    <2>3. CASE commits(t)
      BY <2>3, goesNull DEF commits, Goes, Pcs, historyVars
    <2>4. CASE execute(t)
      BY <2>4, goesNull DEF execute, Pcs, historyVars
    <2>5. CASE callerRuns(t)
      BY <2>5, goesNull DEF callerRuns, Goes, Pcs, historyVars
    <2> QED BY <1>2, <2>1, <2>2, <2>3, <2>4, <2>5, hitNull, putNull DEF CallGoesOn
  <1>3. ASSUME NEW t \in Writers, Edits(t) PROVE NullInv'
    <2>0. t \in Threads
      OBVIOUS
    <2>1. ASSUME NEW to \in {"applying", "committing"}, handOver(t, to) PROVE NullInv'
      BY <2>0, <2>1, goesNull DEF handOver, Tells, Goes, Pcs
    <2>2. CASE edit(t)
      BY <2>2, callNull DEF edit, callVars, historyVars
    <2>3. ASSUME NEW k \in Keys, NEW v \in Values, putValue(t, k, v) PROVE NullInv'
      BY <2>0, <2>3, usesNull DEF putValue, Tells, callVars
    <2>4. ASSUME NEW k \in Keys, remove(t, k) PROVE NullInv'
      <3>1. \A j \in Keys \ {k} : cache'[j] = cache[j]
        BY <2>4 DEF remove, TypeOK, Store
      <3> QED BY <2>0, <2>4, <3>1, usesNull DEF remove, Tells, callVars
    <2>5. CASE clear(t)
      BY <2>0, <2>5, usesNull DEF clear, Tells, callVars
    <2> QED BY <1>3, <2>1, <2>2, <2>3, <2>4, <2>5 DEF Edits, apply, commit
  <1>4. CASE PoolRuns
    <2>1. pc' = pc /\ key' = key /\ users' = users /\ cache' = cache /\ nulled' = nulled
      BY <1>4 DEF PoolRuns, take, retire, commitInBackground, callVars, historyVars
    <2> QED BY <2>1, callNull
  <1>5. CASE onSharedPreferenceChanged
    <2>1. main \in Threads
      OBVIOUS
    <2> QED BY <1>5, <2>1, goesNull DEF onSharedPreferenceChanged, Pcs, historyVars
  <1>6. CASE UNCHANGED vars
    BY <1>6, callNull DEF vars, callVars, historyVars
  <1> QED BY <1>1, <1>2, <1>3, <1>4, <1>5, <1>6 DEF Next

(* A getter asks the cache twice, and a remove() or clear() in between     *)
(* makes it find null: that takes a second thread that uses the key, never *)
(* the listener, the pool or an edit of other keys.                        *)
THEOREM PrivateKeysAreNotNulled == Spec => []OnlySharedKeysAreNulled
  <1>1. NullInv => OnlySharedKeysAreNulled
    BY DEF NullInv
  <1> QED BY TypeInit, TypeStep, NullInit, NullStep, <1>1, PTL DEF Spec

--------------------------------------------------------------------------------
(* A new editor for each edit *)

(* The editors the pool has still to commit.                               *)
Waiting == {queue[i].of : i \in 1..Len(queue)} \union {task.of : task \in running}

(* They, and those that are about to be handed to it or committed.         *)
Busy == Waiting \union {My(t) : t \in {u \in Threads : pc[u] \in {"applying", "committing"}}}

(* An editor that is still to be handed over is nobody else's business,    *)
(* and what it has put into its own cache it also says below, unless it    *)
(* was removed.                                                            *)
Apart(t) ==
  /\ pc[t] \in {"applying", "committing"} => handed[t]
  /\ ~handed[t] \/ pc[t] \in {"applying", "committing"} => My(t) \notin Waiting
  /\ ~handed[t] => \A k \in Keys : editorCache[t][k] # Absent
                                   => Told(t).mods[k] \in {editorCache[t][k], Absent}

(* As long as no editor is used again, each is in the pool once.           *)
ApartInv ==
  /\ \A t \in Threads : Apart(t)
  /\ \A e \in Waiting : e[2] <= open[e[1]]
  /\ \A i, j \in 1..Len(queue) : queue[i].of = queue[j].of => i = j
  /\ \A i \in 1..Len(queue) : \A task \in running : queue[i].of # task.of

LEMMA ApartInit == Init => ApartInv
  BY DEF Init, ApartInv, Apart, Waiting, Nothing

LEMMA WaitingTyped == TypeOK => Waiting \subseteq Editors
  <1> SUFFICES ASSUME TypeOK PROVE Waiting \subseteq Editors
    OBVIOUS
  <1>1. \A task \in Tasks : task.of \in Editors
    BY DEF Tasks
  <1>2. queue \in Seq(Tasks) /\ running \subseteq Tasks
    BY DEF TypeOK
  <1>3. \A i \in 1..Len(queue) : queue[i] \in Tasks
    BY <1>2
  <1> QED BY <1>1, <1>2, <1>3 DEF Waiting

(* Calls that hand over no editor and leave the pool alone.                *)
LEMMA callApart ==
  ASSUME TypeOK, ApartInv, UNCHANGED <<open, handed, queue, running, editorCache>>,
         \A t \in Threads : pc'[t] \in {"applying", "committing"}
                             => pc[t] \in {"applying", "committing"},
         \A t \in Threads : ~handed[t] => Told(t)' = Told(t)
  PROVE  ApartInv'
  <1>1. Waiting' = Waiting /\ \A t \in Threads : My(t)' = My(t)
    BY DEF Waiting, My
  <1>2. ASSUME NEW t \in Threads PROVE Apart(t)'
    <2>1. Apart(t)
      BY DEF ApartInv
    <2> QED BY <1>1, <2>1 DEF Apart
  <1>3. \A e \in Waiting' : e[2] <= open'[e[1]]
    BY <1>1 DEF ApartInv
  <1> QED BY <1>2, <1>3 DEF ApartInv

LEMMA getterApart ==
  ASSUME TypeOK, ApartInv, NEW t \in Threads,
         \/ \E k \in Keys : containsKey(t, k) \/ put(t, k)
         \/ \E v \in Values \union {Absent} : miss(t, v)
         \/ hit(t) \/ filled(t) \/ callerRuns(t)
         \/ t = main /\ onSharedPreferenceChanged
  PROVE  ApartInv'
  <1>1. UNCHANGED <<queue, running, editorVars>>
    BY DEF containsKey, put, miss, hit, filled, callerRuns, onSharedPreferenceChanged, poolVars
  <1>2. \/ pc' = pc
        \/ \E to \in {"hit", "miss", "filling", "idle"} : pc' = [pc EXCEPT ![t] = to]
        \/ pc[t] = "applying" /\ pc' = [pc EXCEPT ![t] = "committing"]
    BY DEF containsKey, put, miss, hit, filled, callerRuns, onSharedPreferenceChanged, Goes
  <1>3. \A u \in Threads : pc'[u] \in {"applying", "committing"}
                             => pc[u] \in {"applying", "committing"}
    BY <1>2 DEF TypeOK
  <1> QED BY <1>1, <1>3, ToldStays, callApart

(* An edit: the editor is new, and so is what is not put.                  *)
LEMMA editsApart ==
  ASSUME TypeOK, ApartInv, NEW t \in Threads, ~reused',
         \/ clear(t)
         \/ \E k \in Keys : remove(t, k) \/ \E v \in Values : putValue(t, k, v)
  PROVE  ApartInv'
  <1>1. /\ UNCHANGED <<open, handed, queue, running, pc>> /\ ~handed[t]
        /\ editorCache[t] \in Store /\ Told(t) \in Changes
    BY MineTyped DEF clear, remove, putValue, Tells, Told, poolVars, callVars
  <1>2. Waiting' = Waiting /\ \A u \in Threads : My(u)' = My(u)
    BY <1>1 DEF Waiting, My
  <1>3. \A k \in Keys : editorCache'[t][k] # Absent
                       => Told(t)'.mods[k] \in {editorCache'[t][k], Absent}
    <2>0. \A k \in Keys : editorCache[t][k] # Absent
                       => Told(t).mods[k] \in {editorCache[t][k], Absent}
      BY <1>1 DEF ApartInv, Apart
    <2>1. CASE clear(t)
      <3>1. Told(t)' = [Told(t) EXCEPT !.cleared = TRUE] /\ editorCache' = editorCache
        BY <2>1, ToldSaid DEF clear, Tells, Told
      <3>2. Told(t)'.mods = Told(t).mods
        BY <1>1, <3>1 DEF Changes
      <3> QED BY <2>0, <3>1, <3>2
    <2>2. ASSUME NEW k0 \in Keys, remove(t, k0)
          PROVE  \A k \in Keys : editorCache'[t][k] # Absent
                               => Told(t)'.mods[k] \in {editorCache'[t][k], Absent}
      <3>1. Told(t)' = Says(Told(t), k0, Absent) /\ editorCache' = editorCache
        BY <2>2, ToldSaid DEF remove, Tells, Told
      <3>2. Told(t)'.mods[k0] = Absent /\ \A k \in Keys : k # k0 => Told(t)'.mods[k] = Told(t).mods[k]
        BY <1>1, <3>1 DEF Says, Changes
      <3> QED BY <2>0, <3>1, <3>2
    <2>3. ASSUME NEW k0 \in Keys, NEW v \in Values, putValue(t, k0, v)
          PROVE  \A k \in Keys : editorCache'[t][k] # Absent
                               => Told(t)'.mods[k] \in {editorCache'[t][k], Absent}
      <3>1. /\ Told(t)' = Says(Told(t), k0, v)
            /\ editorCache'[t] = [editorCache[t] EXCEPT ![k0] = v]
        BY <2>3, ToldSaid DEF putValue, Tells, Told, TypeOK
      <3>2. /\ Told(t)'.mods[k0] = v /\ editorCache'[t][k0] = v
            /\ \A k \in Keys : k # k0 => /\ Told(t)'.mods[k] = Told(t).mods[k]
                                         /\ editorCache'[t][k] = editorCache[t][k]
        BY <1>1, <3>1 DEF Says, Changes, Store
      <3> QED BY <2>0, <3>2
    <2> QED BY <2>1, <2>2, <2>3
  <1>4. \A u \in Threads : u # t => editorCache'[u] = editorCache[u] /\ Told(u)' = Told(u)
    BY ToldSaid DEF clear, remove, putValue, Tells, TypeOK
  <1>5. ASSUME NEW u \in Threads PROVE Apart(u)'
    <2>1. Apart(u)
      BY DEF ApartInv
    <2>2. CASE u = t
      BY <1>1, <1>2, <1>3, <2>1, <2>2 DEF Apart
    <2>3. CASE u # t
      BY <1>1, <1>2, <1>4, <2>1, <2>3 DEF Apart
    <2> QED BY <2>2, <2>3
  <1>6. \A e \in Waiting' : e[2] <= open'[e[1]]
    BY <1>1, <1>2 DEF ApartInv
  <1> QED BY <1>1, <1>5, <1>6 DEF ApartInv

(* The number of a new editor is higher than that of all before it.        *)
LEMMA editApart ==
  ASSUME TypeOK, ApartInv, NEW t \in Threads, edit(t)
  PROVE  ApartInv'
  <1>1. /\ UNCHANGED <<queue, running, pc>> /\ pc[t] = "idle"
        /\ open'[t] = open[t] + 1 /\ open[t] \in Nat /\ handed'[t] = FALSE
        /\ editorCache'[t] = Nothing
        /\ \A u \in Threads : u # t => /\ open'[u] = open[u] /\ handed'[u] = handed[u]
                                       /\ editorCache'[u] = editorCache[u]
    BY DEF edit, poolVars, callVars, TypeOK
  <1>2. Waiting' = Waiting /\ Waiting \subseteq Editors
    BY <1>1, WaitingTyped DEF Waiting
  <1>3. \A e \in Waiting : e[2] <= open[e[1]] /\ e[1] \in Threads /\ e[2] \in Nat
    BY <1>2 DEF ApartInv, Editors
  <1>4. My(t)' = <<t, open[t] + 1>> /\ My(t)' \notin Waiting
    <2>1. My(t)' = <<t, open[t] + 1>>
      BY <1>1 DEF My
    <2>2. <<t, open[t] + 1>>[1] = t /\ <<t, open[t] + 1>>[2] = open[t] + 1
      OBVIOUS
    <2>3. <<t, open[t] + 1>> \notin Waiting
      BY <1>1, <1>3, <2>2
    <2> QED BY <2>1, <2>3
  <1>5. Apart(t)'
    BY <1>1, <1>2, <1>4 DEF Apart, Nothing
  <1>6. ASSUME NEW u \in Threads, u # t PROVE Apart(u)'
    <2>1. Apart(u) /\ My(u)' = My(u) /\ Told(u)' = Told(u)
      BY <1>1, <1>6, ToldNew DEF ApartInv, My
    <2> QED BY <1>1, <1>2, <1>6, <2>1 DEF Apart
  <1>7. \A e \in Waiting' : e[2] <= open'[e[1]]
    <2>1. \A u \in Threads : open[u] <= open'[u] /\ open[u] \in Nat /\ open'[u] \in Nat
      BY <1>1 DEF TypeOK
    <2> QED BY <1>2, <1>3, <2>1
  <1> QED BY <1>1, <1>5, <1>6, <1>7 DEF ApartInv

(* Only an editor that is new is handed over.                              *)
LEMMA handOverApart ==
  ASSUME TypeOK, ApartInv, NEW t \in Threads, NEW to \in {"applying", "committing"},
         handOver(t, to), ~reused'
  PROVE  ApartInv'
  <1>1. /\ UNCHANGED <<open, queue, running, editorCache, held>> /\ ~handed[t]
        /\ handed'[t] /\ \A u \in Threads : u # t => handed'[u] = handed[u] /\ pc'[u] = pc[u]
    BY DEF handOver, Tells, Goes, poolVars, TypeOK
  <1>2. Waiting' = Waiting /\ \A u \in Threads : My(u)' = My(u) /\ Told(u)' = Told(u)
    BY <1>1 DEF Waiting, My, Told
  <1>3. ASSUME NEW u \in Threads PROVE Apart(u)'
    <2>1. Apart(u)
      BY DEF ApartInv
    <2>2. CASE u = t
      BY <1>1, <1>2, <2>1, <2>2 DEF Apart
    <2>3. CASE u # t
      BY <1>1, <1>2, <2>1, <2>3 DEF Apart
    <2> QED BY <2>2, <2>3
  <1>4. \A e \in Waiting' : e[2] <= open'[e[1]]
    BY <1>1, <1>2 DEF ApartInv
  <1> QED BY <1>1, <1>3, <1>4 DEF ApartInv

(* A commit empties an editor that was handed over.                        *)
LEMMA commitsApart ==
  ASSUME TypeOK, ApartInv, NEW t \in Threads, commits(t)
  PROVE  ApartInv'
  <1>1. pc[t] = "committing" /\ handed[t]
    BY DEF commits, Goes, ApartInv, Apart
  <1>2. \A u \in Threads : ~handed[u] => My(u) # My(t)
    BY <1>1 DEF My
  <1>3. \A u \in Threads : ~handed[u] => Told(u)' = Told(u)
    BY <1>2, MineTyped, ToldCommitted DEF commits, ownVars
  <1>4. \A u \in Threads : pc'[u] \in {"applying", "committing"}
                             => pc[u] \in {"applying", "committing"}
    BY DEF commits, Goes, TypeOK
  <1> QED BY <1>3, <1>4, callApart DEF commits, ownVars, poolVars

(* The pool gets an editor it does not have.                               *)
LEMMA executeApart ==
  ASSUME TypeOK, ApartInv, NEW t \in Threads, execute(t)
  PROVE  ApartInv'
  <1>1. /\ UNCHANGED editorVars /\ Task(t).of = My(t) /\ queue \in Seq(Tasks)
        /\ pc[t] = "applying" /\ pc'[t] = "idle" /\ \A u \in Threads : u # t => pc'[u] = pc[u]
    BY DEF execute, Task, TypeOK
  <1>2. /\ UNCHANGED <<open, handed, editorCache>>
        /\ \A u \in Threads : Told(u)' = Told(u) /\ My(u)' = My(u)
    BY <1>1, ToldStays DEF My
  <1>3. My(t) \notin Waiting /\ handed[t]
    BY <1>1 DEF ApartInv, Apart
  <1>4. \/ UNCHANGED queue /\ running' = running \union {Task(t)}
        \/ UNCHANGED running /\ queue' = Append(queue, Task(t))
    BY DEF execute
  <1>5. UNCHANGED running /\ queue' = Append(queue, Task(t)) =>
          /\ Len(queue') = Len(queue) + 1 /\ Len(queue) \in Nat
          /\ \A i \in 1..Len(queue) : queue'[i] = queue[i]
          /\ queue'[Len(queue) + 1] = Task(t)
    BY <1>1
  <1>6. Waiting' = Waiting \union {My(t)}
    <2>1. CASE UNCHANGED queue /\ running' = running \union {Task(t)}
      BY <1>1, <2>1 DEF Waiting
    <2>2. CASE UNCHANGED running /\ queue' = Append(queue, Task(t))
      <3>1. 1..Len(queue') = 1..Len(queue) \union {Len(queue) + 1}
        BY <1>5, <2>2
      <3>2. {queue'[i].of : i \in 1..Len(queue')} = {queue[i].of : i \in 1..Len(queue)} \union {My(t)}
        BY <1>1, <1>5, <2>2, <3>1
      <3> QED BY <2>2, <3>2 DEF Waiting
    <2> QED BY <1>4, <2>1, <2>2
  <1>7. ASSUME NEW u \in Threads PROVE Apart(u)'
    <2>1. Apart(u)
      BY DEF ApartInv
    <2>2. CASE u = t
      BY <1>1, <1>2, <1>3, <2>2 DEF Apart
    <2>3. CASE u # t
      <3>1. My(u) # My(t)
        BY <2>3 DEF My
      <3> QED BY <1>1, <1>2, <1>6, <2>1, <2>3, <3>1 DEF Apart
    <2> QED BY <2>2, <2>3
  <1>8. \A e \in Waiting' : e[2] <= open'[e[1]]
    <2>1. My(t)[1] = t /\ My(t)[2] = open[t] /\ open[t] \in Nat
      BY DEF My, TypeOK
    <2> QED BY <1>2, <1>6, <2>1 DEF ApartInv
  <1>9. /\ \A i \in 1..Len(queue) : queue[i].of # My(t)
        /\ \A task \in running : task.of # My(t)
    BY <1>3 DEF Waiting
  <1>10. \A i, j \in 1..Len(queue') : queue'[i].of = queue'[j].of => i = j
    <2>1. CASE queue' = queue
      BY <2>1 DEF ApartInv
    <2>2. CASE UNCHANGED running /\ queue' = Append(queue, Task(t))
      <3>1. \A i \in 1..Len(queue') : i \in 1..Len(queue) \/ i = Len(queue) + 1
        BY <1>5, <2>2
      <3> QED BY <1>1, <1>5, <1>9, <2>2, <3>1 DEF ApartInv
    <2> QED BY <1>4, <2>1, <2>2
  <1>11. \A i \in 1..Len(queue') : \A task \in running' : queue'[i].of # task.of
    <2>1. CASE UNCHANGED queue /\ running' = running \union {Task(t)}
      BY <1>1, <1>9, <2>1 DEF ApartInv
    <2>2. CASE UNCHANGED running /\ queue' = Append(queue, Task(t))
      <3>1. \A i \in 1..Len(queue') : i \in 1..Len(queue) \/ i = Len(queue) + 1
        BY <1>5, <2>2
      <3> QED BY <1>1, <1>5, <1>9, <2>2, <3>1 DEF ApartInv
    <2> QED BY <1>4, <2>1, <2>2
  <1> QED BY <1>7, <1>8, <1>10, <1>11 DEF ApartInv

(* What a task is taken from the queue, or is done with.                   *)
LEMMA TakenFrom ==
  ASSUME TypeOK, take
  PROVE  /\ Len(queue') = Len(queue) - 1 /\ Len(queue) \in Nat \ {0}
         /\ \A i \in 1..Len(queue') : i + 1 \in 2..Len(queue) /\ queue'[i] = queue[i + 1]
         /\ \A i \in 2..Len(queue) : i - 1 \in 1..Len(queue') /\ queue'[i - 1] = queue[i]
         /\ running' = running \union {queue[1]} /\ queue[1] \in Tasks
         /\ Waiting' = Waiting
  <1>1. queue \in Seq(Tasks) /\ queue # <<>> /\ queue' = Tail(queue)
    BY DEF take, TypeOK
  <1>2. /\ Len(queue') = Len(queue) - 1 /\ Len(queue) \in Nat \ {0}
        /\ \A i \in 1..Len(queue') : queue'[i] = queue[i + 1]
        /\ queue[1] \in Tasks /\ Head(queue) = queue[1]
    BY <1>1
  <1>3. /\ \A i \in 1..Len(queue') : i + 1 \in 2..Len(queue)
        /\ \A i \in 2..Len(queue) : i - 1 \in 1..Len(queue') /\ (i - 1) + 1 = i
    BY <1>2
  <1>4. \A i \in 2..Len(queue) : queue'[i - 1] = queue[i]
    BY <1>2, <1>3
  <1>5. running' = running \union {queue[1]}
    BY <1>2 DEF take
  <1>6. Waiting' = Waiting
    <2>1. 1..Len(queue) = {1} \union 2..Len(queue)
      BY <1>2
    <2>2. {queue[i].of : i \in 1..Len(queue)} = {queue[1].of} \union {queue'[i].of : i \in 1..Len(queue')}
      <3>1. ASSUME NEW i \in 2..Len(queue)
            PROVE  queue[i].of \in {queue'[j].of : j \in 1..Len(queue')}
        <4>1. i - 1 \in 1..Len(queue') /\ queue'[i - 1].of = queue[i].of
          BY <1>3, <1>4
        <4> QED BY <4>1
      <3>2. ASSUME NEW j \in 1..Len(queue')
            PROVE  queue'[j].of \in {queue[i].of : i \in 1..Len(queue)}
        <4>1. j + 1 \in 1..Len(queue) /\ queue'[j].of = queue[j + 1].of
          BY <1>2, <1>3, <2>1
        <4> QED BY <4>1
      <3>3. queue[1].of \in {queue[i].of : i \in 1..Len(queue)}
        BY <2>1
      <3> QED BY <2>1, <3>1, <3>2, <3>3
    <2>3. {task.of : task \in running'} = {task.of : task \in running} \union {queue[1].of}
      BY <1>5
    <2> QED BY <2>2, <2>3 DEF Waiting
  <1> QED BY <1>2, <1>3, <1>4, <1>5, <1>6

LEMMA poolApart ==
  ASSUME TypeOK, ApartInv, PoolRuns
  PROVE  ApartInv'
  <1>1. UNCHANGED <<open, handed, editorCache, pc>>
    BY DEF PoolRuns, take, retire, commitInBackground, editorVars, ownVars, callVars
  <1>2. CASE take
    <2>1. \A u \in Threads : My(u)' = My(u) /\ Told(u)' = Told(u)
      BY <1>2, ToldStays DEF take, My
    <2>2. ASSUME NEW u \in Threads PROVE Apart(u)'
      BY <1>1, <1>2, <2>1, TakenFrom DEF Apart, ApartInv
    <2>3. \A e \in Waiting' : e[2] <= open'[e[1]]
      BY <1>1, <1>2, TakenFrom DEF ApartInv
    <2>4. \A i, j \in 1..Len(queue') : queue'[i].of = queue'[j].of => i = j
      <3> SUFFICES ASSUME NEW i \in 1..Len(queue'), NEW j \in 1..Len(queue'),
                          queue'[i].of = queue'[j].of
                   PROVE  i = j
        OBVIOUS
      <3>1. /\ i + 1 \in 1..Len(queue) /\ queue'[i] = queue[i + 1]
            /\ j + 1 \in 1..Len(queue) /\ queue'[j] = queue[j + 1]
        BY <1>2, TakenFrom
      <3>2. i + 1 = j + 1
        BY <3>1 DEF ApartInv
      <3> QED BY <3>2
    <2>5. \A i \in 1..Len(queue') : \A task \in running' : queue'[i].of # task.of
      <3> SUFFICES ASSUME NEW i \in 1..Len(queue'), NEW task \in running'
                   PROVE  queue'[i].of # task.of
        OBVIOUS
      <3>1. i + 1 \in 1..Len(queue) /\ i + 1 # 1 /\ 1 \in 1..Len(queue) /\ queue'[i] = queue[i + 1]
        BY <1>2, TakenFrom
      <3>2. task \in running \/ task = queue[1]
        BY <1>2, TakenFrom
      <3> QED BY <3>1, <3>2 DEF ApartInv
    <2> QED BY <2>2, <2>3, <2>4, <2>5 DEF ApartInv
  <1>3. CASE retire
    <2>1. \A u \in Threads : Told(u)' = Told(u)
      BY <1>3, ToldStays DEF retire
    <2> QED BY <1>1, <1>3, <2>1, callApart DEF retire
  <1>4. ASSUME NEW task \in running, commitInBackground(task) PROVE ApartInv'
    <2>1. queue' = queue /\ running' \subseteq running /\ task.of \in Waiting /\ task.of \in Editors
      BY <1>4 DEF commitInBackground, Waiting, TypeOK, Tasks
    <2>2. Waiting' \subseteq Waiting
      BY <2>1 DEF Waiting
    <2>3. \A u \in Threads : My(u)' = My(u) /\ (~handed[u] => Told(u)' = Told(u))
      <3>1. \A u \in Threads : ~handed[u] => My(u) # task.of
        BY <2>1 DEF ApartInv, Apart
      <3> QED BY <1>1, <1>4, <2>1, <3>1, ToldCommitted DEF commitInBackground, My
    <2>4. ASSUME NEW u \in Threads PROVE Apart(u)'
      BY <1>1, <2>2, <2>3 DEF Apart, ApartInv
    <2>5. \A e \in Waiting' : e[2] <= open'[e[1]]
      BY <1>1, <2>2 DEF ApartInv
    <2> QED BY <2>1, <2>4, <2>5 DEF ApartInv
  <1> QED BY <1>2, <1>3, <1>4 DEF PoolRuns

LEMMA ApartStep == TypeOK /\ ApartInv /\ [Next]_vars /\ ~reused' => ApartInv'
  <1> SUFFICES ASSUME TypeOK, ApartInv, [Next]_vars, ~reused' PROVE ApartInv'
    OBVIOUS
  <1>1. ASSUME NEW t \in Threads, Reads(t) \/ CallGoesOn(t) PROVE ApartInv'
    BY <1>1, getterApart, commitsApart, executeApart DEF Reads, CallGoesOn
  <1>2. ASSUME NEW t \in Writers, Edits(t) PROVE ApartInv'
    <2>1. t \in Threads
      OBVIOUS
    <2>2. CASE apply(t) \/ commit(t)
      BY <2>1, <2>2, handOverApart DEF apply, commit
    <2> QED BY <1>2, <2>1, <2>2, editApart, editsApart DEF Edits
  <1>3. CASE onSharedPreferenceChanged
    <2>1. main \in Threads
      OBVIOUS
    <2> QED BY <1>3, <2>1, getterApart
  <1>4. CASE UNCHANGED vars
    BY <1>4, ToldStays, callApart DEF vars, poolVars, callVars
  <1> QED BY <1>1, <1>2, <1>3, <1>4, poolApart DEF Next

(* Once an editor has been used again, one has.                            *)
LEMMA ReusedStays == TypeOK /\ [Next]_vars /\ reused => reused'
  <1> SUFFICES ASSUME TypeOK, [Next]_vars, reused PROVE reused'
    OBVIOUS
  <1>1. ASSUME NEW t \in Threads, Reads(t) \/ CallGoesOn(t) PROVE reused'
    BY <1>1 DEF Reads, CallGoesOn, containsKey, hit, miss, put, filled, commits, execute,
                callerRuns, editorVars, ownVars
  <1>2. ASSUME NEW t \in Writers, Edits(t) PROVE reused'
    BY <1>2 DEF Edits, edit, remove, putValue, clear, apply, commit, handOver, Tells
  <1>3. CASE PoolRuns \/ onSharedPreferenceChanged \/ UNCHANGED vars
    BY <1>3 DEF PoolRuns, take, retire, commitInBackground, onSharedPreferenceChanged, vars,
                editorVars, ownVars
  <1> QED BY <1>1, <1>2, <1>3 DEF Next

--------------------------------------------------------------------------------
(* The cache and the preferences below it *)

(* A change of this key, and so a notification, is still to come.          *)
ToCome(k) == \E e \in Busy : Edited(disk, held[e])[k] # disk[k]

(* The cache has no other value than the one below, or is about to get it. *)
Repaired(k) ==
  IF fill[main][k] # Absent THEN fill[main][k] = disk[k] ELSE cache[k] \in {disk[k], Absent}

InTouch(k) == disk[k] = Absent \/ notices > 0 \/ ToCome(k) \/ Repaired(k)

(* Only the main thread brings values of keys it does not use.             *)
FillOwned(t) ==
  /\ pc[t] = "told" => fill[t] = Nothing
  /\ \A k \in Keys : fill[t][k] # Absent => t = main \/ t \in users[k]

FollowInv ==
  /\ \A t \in Threads : FillOwned(t)
  /\ listening => \A k \in Keys : users[k] \subseteq {main} => InTouch(k)

LEMMA FollowInit == Init => FollowInv
  BY DEF Init, FollowInv, FillOwned, InTouch, Repaired, Nothing

LEMMA BusyTyped == TypeOK => Busy \subseteq Editors
  BY WaitingTyped, MineTyped DEF Busy

(* Calls that hand over, give to the pool or end no edit.                  *)
LEMMA StaysBusy ==
  ASSUME UNCHANGED <<queue, running, open>>,
         \A t \in Threads : pc[t] \in {"applying", "committing"}
                             => pc'[t] \in {"applying", "committing"}
  PROVE  Busy \subseteq Busy'
  <1>1. Waiting' = Waiting /\ \A t \in Threads : My(t)' = My(t)
    BY DEF Waiting, My
  <1> QED BY <1>1 DEF Busy

(* The editor of a thread that is editing is its own.                      *)
LEMMA OwnEditor ==
  ASSUME TypeOK, ApartInv, NEW t \in Threads, pc[t] = "idle", ~handed[t]
  PROVE  My(t) \notin Busy
  <1>1. My(t) \notin Waiting
    BY DEF ApartInv, Apart
  <1>2. \A u \in Threads : My(u) = My(t) => u = t
    BY DEF My
  <1> QED BY <1>1, <1>2 DEF Busy

(* A step above the preferences that loses no pending edit keeps the cache *)
(* in touch, if it repairs what was repaired.                              *)
LEMMA keepsFollow ==
  ASSUME TypeOK, FollowInv, \A t \in Threads : FillOwned(t)',
         disk' = disk, notices' = notices, listening' = listening,
         \A k \in Keys : users[k] \subseteq users'[k],
         Busy \subseteq Busy', \A e \in Busy : held'[e] = held[e],
         \A k \in Keys : users'[k] \subseteq {main} /\ Repaired(k) => InTouch(k)'
  PROVE  FollowInv'
  <1>1. ASSUME NEW k \in Keys, listening, users'[k] \subseteq {main}
        PROVE  InTouch(k)'
    <2>1. InTouch(k)
      BY <1>1 DEF FollowInv
    <2>2. ToCome(k) => ToCome(k)'
      BY DEF ToCome, Edited
    <2> QED BY <1>1, <2>1, <2>2 DEF InTouch
  <1> QED BY <1>1 DEF FollowInv

(* A commit that changes something notifies; one that changes nothing was  *)
(* not what was to come.                                                   *)
LEMMA commitFollow ==
  ASSUME TypeOK, FollowInv, \A t \in Threads : FillOwned(t)',
         NEW e \in Editors, Commit(e), Busy \ {e} \subseteq Busy',
         fill' = fill, cache' = cache, users' = users, listening' = listening
  PROVE  FollowInv'
  <1>1. ASSUME NEW k \in Keys, listening, users'[k] \subseteq {main}
        PROVE  InTouch(k)'
    <2>1. InTouch(k) /\ notices \in Nat
      BY <1>1 DEF FollowInv, TypeOK
    <2>2. CASE disk' # disk
      BY <1>1, <2>1, <2>2 DEF Commit, InTouch
    <2>3. CASE disk' = disk
      <3>1. Edited(disk, held[e])[k] = disk[k] /\ notices' = notices
        BY <2>3 DEF Commit
      <3>3. \A d \in Busy \ {e} : held'[d] = held[d]
        BY BusyTyped DEF Commit, TypeOK
      <3>2. ToCome(k) => ToCome(k)'
        BY <2>3, <3>1, <3>3 DEF ToCome, Edited
      <3> QED BY <2>1, <2>3, <3>1, <3>2 DEF InTouch, Repaired
    <2> QED BY <2>2, <2>3
  <1> QED BY <1>1 DEF FollowInv

(* Calls that leave the cache and what goes into it alone.                 *)
LEMMA callFollow ==
  ASSUME TypeOK, FollowInv, \A t \in Threads : FillOwned(t)',
         UNCHANGED <<listening, disk, notices, queue, running, fill, cache, open, held>>,
         \A k \in Keys : users[k] \subseteq users'[k],
         \A t \in Threads : pc[t] \in {"applying", "committing"} =>
            pc'[t] \in {"applying", "committing"}
  PROVE  FollowInv'
  <1>1. Busy \subseteq Busy'
    BY StaysBusy
  <1>2. \A k \in Keys : Repaired(k) => InTouch(k)'
    BY DEF Repaired, InTouch
  <1> QED BY <1>1, <1>2, keepsFollow

LEMMA getterFollow ==
  ASSUME TypeOK, OwnInv, FollowInv, NEW t \in Threads,
         (\E k \in Keys : containsKey(t, k)) \/ hit(t) \/ filled(t) \/ callerRuns(t)
  PROVE  FollowInv'
  <1>a. /\ UNCHANGED <<listening, disk, notices, queue, running, fill, cache, open, held>>
        /\ \A k \in Keys : users[k] \subseteq users'[k]
    <2>1. ASSUME NEW k \in Keys, containsKey(t, k)
          PROVE  \A j \in Keys : users[j] \subseteq users'[j]
      BY <2>1 DEF containsKey, Uses, TypeOK
    <2> QED BY <2>1 DEF containsKey, hit, filled, callerRuns, editorVars, ownVars, poolVars,
                          historyVars
  <1>b. \E to \in Pcs \ {"told"} :
          /\ pc' = [pc EXCEPT ![t] = to]
          /\ pc[t] \in {"applying", "committing"} => to = "committing"
    BY DEF containsKey, hit, filled, callerRuns, Goes, Pcs
  <1>1. /\ \A u \in Threads : pc[u] \in {"applying", "committing"}
                                => pc'[u] \in {"applying", "committing"}
        /\ \A u \in Threads : pc'[u] = "told" => pc[u] = "told"
    BY <1>b DEF TypeOK
  <1>2. ASSUME NEW u \in Threads PROVE FillOwned(u)'
    BY <1>a, <1>1 DEF FollowInv, FillOwned
  <1> QED BY <1>a, <1>1, <1>2, callFollow

LEMMA missFollow ==
  ASSUME TypeOK, OwnInv, FollowInv, NEW t \in Threads, NEW v \in Values \union {Absent},
         miss(t, v)
  PROVE  FollowInv'
  <1>0. /\ pc[t] = "miss" /\ pc'[t] = "filling" /\ fill[t] = Nothing
        /\ t \in users[key[t]] /\ key[t] \in Keys
        /\ fill'[t][key[t]] = IF disk[key[t]] # Absent THEN disk[key[t]] ELSE v
        /\ \A k \in Keys : k # key[t] => fill'[t][k] = Absent
        /\ \A u \in Threads : u # t => pc'[u] = pc[u] /\ fill'[u] = fill[u]
        /\ UNCHANGED <<users, listening, disk, notices, queue, running, cache, editorCache, open, held>>
    <2>1. pc[t] = "miss" /\ pc'[t] = "filling" /\ fill[t] = Nothing /\ key[t] \in Keys
      BY DEF miss, Goes, TypeOK, OwnInv, InHand
    <2>2. t \in users[key[t]]
      BY <2>1 DEF OwnInv, InHand
    <2>3. /\ fill'[t][key[t]] = IF disk[key[t]] # Absent THEN disk[key[t]] ELSE v
          /\ \A k \in Keys : k # key[t] => fill'[t][k] = Absent
      BY <2>1 DEF miss, Nothing, TypeOK
    <2>4. \A u \in Threads : u # t => pc'[u] = pc[u] /\ fill'[u] = fill[u]
      BY DEF miss, Goes, TypeOK
    <2> QED BY <2>1, <2>2, <2>3, <2>4 DEF miss, historyVars, editorVars, ownVars, poolVars
  <1>1. ASSUME NEW u \in Threads PROVE FillOwned(u)'
    <2>1. FillOwned(u)
      BY DEF FollowInv
    <2>2. CASE u = t
      BY <1>0, <2>1, <2>2 DEF FillOwned
    <2>3. CASE u # t
      BY <1>0, <2>1, <2>3 DEF FillOwned
    <2> QED BY <2>2, <2>3
  <1>2. Busy \subseteq Busy'
    <2>1. \A u \in Threads : pc[u] \in {"applying", "committing"} => u # t
      BY <1>0
    <2> QED BY <1>0, <2>1, StaysBusy
  <1>3. ASSUME NEW k \in Keys, Repaired(k) PROVE InTouch(k)'
    <2>1. CASE t = main
      BY <1>0, <1>3, <2>1 DEF Repaired, InTouch, Nothing
    <2>2. CASE t # main
      BY <1>0, <1>3, <2>2 DEF Repaired, InTouch
    <2> QED BY <2>1, <2>2
  <1> QED BY <1>0, <1>1, <1>2, <1>3, keepsFollow

LEMMA putFollow ==
  ASSUME TypeOK, OwnInv, FollowInv, NEW t \in Threads, NEW k0 \in Keys, put(t, k0)
  PROVE  FollowInv'
  <1>0. /\ fill[t][k0] # Absent /\ cache'[k0] = fill[t][k0] /\ fill'[t][k0] = Absent
        /\ \A k \in Keys : k # k0 => cache'[k] = cache[k] /\ fill'[t][k] = fill[t][k]
        /\ \A u \in Threads : u # t => fill'[u] = fill[u]
        /\ UNCHANGED <<pc, users, listening, disk, notices, queue, running, open, held>>
    <2>1. fill[t] \in Store /\ fill'[t] = [fill[t] EXCEPT ![k0] = Absent]
      BY DEF put, TypeOK
    <2>2. fill'[t][k0] = Absent /\ \A k \in Keys : k # k0 => fill'[t][k] = fill[t][k]
      BY <2>1 DEF Store
    <2>3. cache'[k0] = fill[t][k0] /\ \A k \in Keys : k # k0 => cache'[k] = cache[k]
      BY DEF put, TypeOK, Store
    <2>4. \A u \in Threads : u # t => fill'[u] = fill[u]
      BY DEF put, TypeOK
    <2> QED BY <2>2, <2>3, <2>4 DEF put, historyVars, editorVars, ownVars, poolVars
  <1>1. ASSUME NEW u \in Threads PROVE FillOwned(u)'
    <2>1. FillOwned(u)
      BY DEF FollowInv
    <2>2. CASE u = t
      <3>1. fill[t] # Nothing
        BY <1>0 DEF Nothing
      <3> QED BY <1>0, <2>1, <2>2, <3>1 DEF FillOwned
    <2>3. CASE u # t
      BY <1>0, <2>1, <2>3 DEF FillOwned
    <2> QED BY <2>2, <2>3
  <1>2. Busy \subseteq Busy'
    BY <1>0, StaysBusy
  <1>3. ASSUME NEW k \in Keys, users'[k] \subseteq {main}, Repaired(k) PROVE InTouch(k)'
    <2>1. k = k0 => t = main
      BY <1>0, <1>3 DEF FollowInv, FillOwned
    <2>2. CASE k = k0
      BY <1>0, <1>3, <2>1, <2>2 DEF Repaired, InTouch
    <2>3. CASE k # k0
      <3>1. fill'[main][k] = fill[main][k] /\ cache'[k] = cache[k]
        BY <1>0, <2>3
      <3> QED BY <1>0, <1>3, <3>1 DEF Repaired, InTouch
    <2> QED BY <2>2, <2>3
  <1> QED BY <1>0, <1>1, <1>2, <1>3, keepsFollow

(* Editing a new editor, or getting one: the edits handed over stay.       *)
LEMMA editFollow ==
  ASSUME TypeOK, FollowInv, NEW t \in Threads, pc[t] = "idle",
         UNCHANGED <<listening, disk, notices, queue, running, fill, pc>>,
         \A k \in Keys : users[k] \subseteq users'[k],
         \A k \in Keys : cache'[k] \in {cache[k], Absent},
         \A u \in Threads : u # t => open'[u] = open[u],
         \A e \in Busy : held'[e] = held[e]
  PROVE  FollowInv'
  <1>1. ASSUME NEW u \in Threads PROVE FillOwned(u)'
    BY DEF FollowInv, FillOwned
  <1>2. Busy \subseteq Busy'
    <2>1. \A u \in Threads : pc[u] \in {"applying", "committing"} => u # t
      OBVIOUS
    <2>2. Waiting' = Waiting
      BY DEF Waiting
    <2> QED BY <2>1, <2>2 DEF Busy, My
  <1>3. \A k \in Keys : Repaired(k) => InTouch(k)'
    BY DEF Repaired, InTouch
  <1> QED BY <1>1, <1>2, <1>3, keepsFollow

(* An editor that was handed over is told nothing any more.                *)
LEMMA editsKeep ==
  ASSUME TypeOK, ApartInv, NEW t \in Threads, ~reused',
         \/ edit(t) \/ clear(t)
         \/ \E k \in Keys : remove(t, k) \/ \E v \in Values : putValue(t, k, v)
  PROVE  \A e \in Busy : held'[e] = held[e]
  <1>i. pc[t] = "idle"
    BY DEF edit, clear, remove, putValue, Tells
  <1>0. Busy \subseteq Editors /\ held \in [Editors -> Changes]
    BY BusyTyped DEF TypeOK
  <1>1. CASE edit(t)
    <2>1. \A e \in Waiting : e[2] <= open[e[1]] /\ e \in Editors
      BY WaitingTyped DEF ApartInv
    <2>2. <<t, open[t] + 1>> \notin Waiting
      <3>1. <<t, open[t] + 1>>[1] = t /\ <<t, open[t] + 1>>[2] = open[t] + 1 /\ open[t] \in Nat
        BY DEF TypeOK
      <3> QED BY <2>1, <3>1
    <2>3. \A u \in Threads : pc[u] \in {"applying", "committing"} => My(u) # <<t, open[t] + 1>>
      BY <1>i DEF My
    <2>4. <<t, open[t] + 1>> \notin Busy
      BY <2>2, <2>3 DEF Busy
    <2> QED BY <1>0, <1>1, <2>4 DEF edit
  <1>2. CASE ~edit(t)
    <2>1. ~handed[t] /\ \A e \in Editors : e # My(t) => held'[e] = held[e]
      BY <1>0, <1>2 DEF clear, remove, putValue, Tells
    <2> QED BY <1>i, <1>0, <2>1, OwnEditor
  <1> QED BY <1>1, <1>2

LEMMA editsFollow ==
  ASSUME TypeOK, ApartInv, FollowInv, NEW t \in Threads, ~reused',
         \/ edit(t) \/ clear(t)
         \/ \E k \in Keys : remove(t, k) \/ \E v \in Values : putValue(t, k, v)
  PROVE  FollowInv'
  <1>1. /\ UNCHANGED <<listening, disk, notices, queue, running, fill, pc>> /\ pc[t] = "idle"
        /\ \A u \in Threads : u # t => open'[u] = open[u]
    BY DEF edit, clear, remove, putValue, Tells, callVars, poolVars, TypeOK
  <1>2. \A k \in Keys : users[k] \subseteq users'[k]
    BY DEF edit, clear, remove, putValue, Uses, historyVars, TypeOK
  <1>3. \A k \in Keys : cache'[k] \in {cache[k], Absent}
    BY DEF edit, clear, remove, putValue, Nothing, TypeOK, Store
  <1>4. \A e \in Busy : held'[e] = held[e]
    BY editsKeep
  <1> QED BY <1>1, <1>2, <1>3, <1>4, editFollow

(* apply() and commit(): the cache is about to get a value, and the        *)
(* preferences the same one, if they have another.                         *)
LEMMA handOverFollow ==
  ASSUME TypeOK, OwnInv, ApartInv, FollowInv, NEW t \in Threads,
         NEW to \in {"applying", "committing"}, handOver(t, to), ~reused'
  PROVE  FollowInv'
  <1>0. /\ pc[t] = "idle" /\ pc'[t] = to /\ fill[t] = Nothing /\ fill'[t] = editorCache[t]
        /\ \A u \in Threads : u # t => pc'[u] = pc[u] /\ fill'[u] = fill[u]
        /\ UNCHANGED <<users, listening, disk, notices, queue, running, cache, editorCache, open, held>>
    <2>1. pc[t] = "idle" /\ pc'[t] = to /\ fill'[t] = editorCache[t]
      BY DEF handOver, Goes, TypeOK
    <2>2. fill[t] = Nothing
      BY <2>1 DEF OwnInv, InHand
    <2>3. \A u \in Threads : u # t => pc'[u] = pc[u] /\ fill'[u] = fill[u]
      BY DEF handOver, Goes, TypeOK
    <2> QED BY <2>1, <2>2, <2>3 DEF handOver, Tells, poolVars
  <1>1. ASSUME NEW u \in Threads PROVE FillOwned(u)'
    <2>1. FillOwned(u) /\ InHand(u)
      BY DEF FollowInv, OwnInv
    <2>2. CASE u = t
      BY <1>0, <2>1, <2>2 DEF FillOwned, InHand
    <2>3. CASE u # t
      BY <1>0, <2>1, <2>3 DEF FillOwned
    <2> QED BY <2>2, <2>3
  <1>2. Busy \subseteq Busy'
    <2>1. \A u \in Threads : pc[u] \in {"applying", "committing"} => u # t
      BY <1>0
    <2> QED BY <1>0, <2>1, StaysBusy
  <1>3. ASSUME NEW k \in Keys, Repaired(k) PROVE InTouch(k)'
    <2>1. CASE t # main \/ editorCache[t][k] = Absent
      <3>1. fill'[main][k] = fill[main][k] \/ (fill[main][k] = Absent /\ fill'[main][k] = Absent)
        BY <1>0, <2>1 DEF Nothing
      <3> QED BY <1>0, <1>3, <3>1 DEF Repaired, InTouch
    <2>2. CASE t = main /\ editorCache[t][k] # Absent
      <3> DEFINE e == Told(t)
                 v == editorCache[t][k]
      <3>0. ~handed[t]
        BY DEF handOver, Tells
      <3>1. e \in Changes /\ e.mods[k] \in {v, Absent} /\ v \in Values
        BY <2>2, <3>0, MineTyped DEF ApartInv, Apart, Told, Store
      <3>2. Edited(disk, e)[k] = e.mods[k]
        BY <3>1 DEF Edited
      <3>3. My(t) \in Busy' /\ held'[My(t)] = e
        BY <1>0 DEF Busy, My, Told
      <3>4. CASE e.mods[k] # disk[k]
        <4>1. Edited(disk', held'[My(t)])[k] # disk'[k]
          BY <1>0, <3>2, <3>3, <3>4 DEF Edited
        <4>2. ToCome(k)'
          BY <3>3, <4>1 DEF ToCome, Edited
        <4> QED BY <4>2 DEF InTouch
      <3>5. CASE e.mods[k] = disk[k]
        BY <1>0, <2>2, <3>1, <3>5 DEF InTouch, Repaired
      <3> QED BY <3>4, <3>5
    <2> QED BY <2>1, <2>2
  <1> QED BY <1>0, <1>1, <1>2, <1>3, keepsFollow

LEMMA commitsFollow ==
  ASSUME TypeOK, FollowInv, NEW t \in Threads, commits(t)
  PROVE  FollowInv'
  <1>1. /\ \A u \in Threads : u # t => pc'[u] = pc[u]
        /\ fill[t] = Nothing /\ UNCHANGED <<fill, users, open, queue, running>>
    BY DEF commits, Goes, TypeOK, ownVars, poolVars, historyVars
  <1>2. ASSUME NEW u \in Threads PROVE FillOwned(u)'
    <2>1. FillOwned(u)
      BY DEF FollowInv
    <2> QED BY <1>1, <2>1 DEF FillOwned
  <1>3. Busy \ {My(t)} \subseteq Busy'
    <2>1. Waiting' = Waiting /\ \A u \in Threads : My(u)' = My(u)
      BY <1>1 DEF Waiting, My
    <2> QED BY <1>1, <2>1 DEF Busy
  <1> QED BY <1>2, <1>3, MineTyped, commitFollow DEF commits, historyVars

LEMMA executeFollow ==
  ASSUME TypeOK, FollowInv, NEW t \in Threads, execute(t)
  PROVE  FollowInv'
  <1>1. /\ pc'[t] = "idle" /\ \A u \in Threads : u # t => pc'[u] = pc[u]
        /\ UNCHANGED <<fill, users, open, held, disk, cache>>
    BY DEF execute, TypeOK, editorVars, ownVars, historyVars
  <1>2. ASSUME NEW u \in Threads PROVE FillOwned(u)'
    <2>1. FillOwned(u)
      BY DEF FollowInv
    <2> QED BY <1>1, <2>1 DEF FillOwned
  <1>3. Busy \subseteq Busy'
    <2>0. queue \in Seq(Tasks) /\ Task(t).of = My(t) /\ \A u \in Threads : My(u)' = My(u)
      BY <1>1 DEF TypeOK, Task, My
    <2>1. Waiting \union {My(t)} \subseteq Waiting'
      <3>1. CASE queue' = queue /\ running' = running \union {Task(t)}
        BY <2>0, <3>1 DEF Waiting
      <3>2. CASE queue' = Append(queue, Task(t)) /\ running' = running
        <4>1. /\ \A i \in 1..Len(queue) : i \in 1..Len(queue') /\ queue'[i] = queue[i]
              /\ Len(queue) + 1 \in 1..Len(queue') /\ queue'[Len(queue) + 1] = Task(t)
          BY <2>0, <3>2
        <4>2. My(t) \in {queue'[i].of : i \in 1..Len(queue')}
          BY <2>0, <4>1
        <4>3. \A i \in 1..Len(queue) : queue[i].of \in {queue'[j].of : j \in 1..Len(queue')}
          BY <4>1
        <4> QED BY <3>2, <4>2, <4>3 DEF Waiting
      <3> QED BY <3>1, <3>2 DEF execute
    <2> QED BY <1>1, <2>0, <2>1 DEF Busy
  <1>4. \A k \in Keys : Repaired(k) => InTouch(k)'
    BY DEF Repaired, InTouch, execute
  <1> QED BY <1>1, <1>2, <1>3, <1>4, keepsFollow DEF execute, historyVars

LEMMA poolFollow ==
  ASSUME TypeOK, FollowInv, PoolRuns
  PROVE  FollowInv'
  <1>1. ASSUME NEW u \in Threads PROVE FillOwned(u)'
    BY DEF FollowInv, FillOwned, PoolRuns, take, retire, commitInBackground, callVars, historyVars
  <1>2. CASE take
    <2>1. Busy \subseteq Busy'
      BY <1>2, TakenFrom DEF Busy, My, take, callVars, editorVars, ownVars
    <2>2. \A k \in Keys : Repaired(k) => InTouch(k)'
      BY <1>2 DEF Repaired, InTouch, take, callVars
    <2> QED BY <1>1, <1>2, <2>1, <2>2, keepsFollow DEF take, editorVars, historyVars
  <1>3. CASE retire
    BY <1>1, <1>3, callFollow DEF retire, callVars, editorVars, ownVars, historyVars
  <1>4. ASSUME NEW task \in running, commitInBackground(task) PROVE FollowInv'
    <2>1. task.of \in Editors
      BY DEF TypeOK, Tasks
    <2>2. Busy \ {task.of} \subseteq Busy'
      <3>1. UNCHANGED <<queue, pc, open>> /\ running' = running \ {task}
        BY <1>4 DEF commitInBackground, callVars, ownVars
      <3>2. Waiting \ {task.of} \subseteq Waiting'
        BY <3>1 DEF Waiting
      <3> QED BY <3>1, <3>2 DEF Busy, My
    <2> QED BY <1>1, <1>4, <2>1, <2>2, commitFollow DEF commitInBackground, callVars, historyVars
  <1> QED BY <1>2, <1>3, <1>4 DEF PoolRuns

(* The listener brings all that is below.                                  *)
LEMMA listenerFollow ==
  ASSUME TypeOK, FollowInv, onSharedPreferenceChanged
  PROVE  FollowInv'
  <1>1. /\ pc'[main] = "filling" /\ fill'[main] = disk /\ disk' = disk /\ users' = users
        /\ \A u \in Threads : u # main => pc'[u] = pc[u] /\ fill'[u] = fill[u]
    BY DEF onSharedPreferenceChanged, AllBelow, TypeOK, historyVars
  <1>2. ASSUME NEW u \in Threads PROVE FillOwned(u)'
    <2>1. FillOwned(u)
      BY DEF FollowInv
    <2>2. CASE u = main
      BY <1>1, <2>1, <2>2 DEF FillOwned
    <2>3. CASE u # main
      BY <1>1, <2>1, <2>3 DEF FillOwned
    <2> QED BY <2>2, <2>3
  <1>3. \A k \in Keys : InTouch(k)'
    BY <1>1 DEF InTouch, Repaired
  <1> QED BY <1>2, <1>3 DEF FollowInv

LEMMA FollowStep == TypeOK /\ OwnInv /\ ApartInv /\ FollowInv /\ [Next]_vars /\ ~reused' => FollowInv'
  <1> SUFFICES ASSUME TypeOK, OwnInv, ApartInv, FollowInv, [Next]_vars, ~reused' PROVE FollowInv'
    OBVIOUS
  <1>1. ASSUME NEW t \in Threads, Reads(t) \/ CallGoesOn(t) PROVE FollowInv'
    BY <1>1, getterFollow, missFollow, putFollow, commitsFollow, executeFollow
       DEF Reads, CallGoesOn
  <1>2. ASSUME NEW t \in Writers, Edits(t) PROVE FollowInv'
    <2>1. t \in Threads
      OBVIOUS
    <2>2. CASE apply(t) \/ commit(t)
      BY <2>1, <2>2, handOverFollow DEF apply, commit
    <2> QED BY <1>2, <2>1, <2>2, editsFollow DEF Edits
  <1>3. CASE UNCHANGED vars
    <2>1. ASSUME NEW u \in Threads PROVE FillOwned(u)'
      BY <1>3 DEF vars, FollowInv, FillOwned, callVars, historyVars
    <2> QED BY <1>3, <2>1, callFollow DEF vars, editorVars, ownVars, callVars, poolVars, historyVars
  <1> QED BY <1>1, <1>2, <1>3, poolFollow, listenerFollow DEF Next

(* With the listener registered and a new editor for each edit, whatever   *)
(* the size of the pool and the order in which it commits: once no call,   *)
(* task or notification is under way, the cache has no stale value of a    *)
(* key the main thread alone uses.                                         *)
THEOREM CacheFollows == Spec => []CacheFollowsDisk
  <1> DEFINE Inv == TypeOK /\ OwnInv /\ (reused \/ (ApartInv /\ FollowInv))
  <1>1. Init => Inv
    BY TypeInit, OwnInit, ApartInit, FollowInit
  <1>2. Inv /\ [Next]_vars => Inv'
    BY TypeStep, OwnStep, ApartStep, FollowStep, ReusedStays
  <1>3. Inv => CacheFollowsDisk
    <2> SUFFICES ASSUME OwnInv, FollowInv, Quiet, listening,
                        NEW k \in Keys, users[k] \subseteq {main}, disk[k] # Absent
                 PROVE  cache[k] \in {disk[k], Absent}
      BY DEF CacheFollowsDisk
    <2>1. ~ToCome(k) /\ notices = 0
      BY DEF Quiet, Idle, ToCome, Busy, Waiting
    <2>2. fill[main][k] = Absent
      BY DEF Quiet, OwnInv, InHand, Nothing
    <2> QED BY <2>1, <2>2 DEF FollowInv, InTouch, Repaired
  <1> QED BY <1>1, <1>2, <1>3, PTL DEF Spec

--------------------------------------------------------------------------------
(* A pool of one thread commits in the order of the calls *)

(* What an edit says of a key, if it says anything.                        *)
Touches(e, k) == e.cleared \/ e.mods[k] # Kept
Said(e, k) == IF e.mods[k] # Kept THEN e.mods[k] ELSE Absent

(* Who speaks of a key is a user of it.                                    *)
Spoken == \A t \in Threads, k \in Keys : Touches(Told(t), k) => t \in users[k]

Orderly == core = 1 /\ ~overflown /\ ~synced

(* One task at a time, and the queue is only used once there is a thread.  *)
Single ==
  /\ workers <= 1
  /\ running = {} \/ \E task \in Tasks : running = {task}
  /\ workers = 0 => running = {} /\ queue = <<>>
  /\ \A t \in Threads : pc[t] # "committing"

Applying(t, k) == pc[t] = "applying" /\ Touches(Told(t), k)

(* The latest value of a key is what was said of it last: by a call that   *)
(* is about to hand it to the pool, else in the queue, else by the task    *)
(* under way, else below.                                                  *)
RunLatest(k) ==
  \/ \E task \in running : Touches(held[task.of], k) /\ latest[k] = Said(held[task.of], k)
  \/ (\A task \in running : ~Touches(held[task.of], k)) /\ latest[k] = disk[k]

QueuedLatest(k) ==
  \/ \E i \in 1..Len(queue) :
       /\ Touches(held[queue[i].of], k) /\ latest[k] = Said(held[queue[i].of], k)
       /\ \A j \in (i + 1)..Len(queue) : ~Touches(held[queue[j].of], k)
  \/ (\A i \in 1..Len(queue) : ~Touches(held[queue[i].of], k)) /\ RunLatest(k)

LatestIsLast(k) ==
  \/ \E t \in Threads : Applying(t, k) /\ latest[k] = Said(Told(t), k)
  \/ (\A t \in Threads : ~Applying(t, k)) /\ QueuedLatest(k)

OrderInv ==
  /\ Spoken
  /\ Orderly => Single /\ \A k \in Keys : Private(k) => LatestIsLast(k)

LEMMA EditedSays ==
  ASSUME NEW s \in Store, NEW e \in Changes, NEW k \in Keys
  PROVE  Edited(s, e)[k] = IF Touches(e, k) THEN Said(e, k) ELSE s[k]
  BY DEF Edited, Touches, Said

LEMMA OrderInit == Init => OrderInv
  <1> SUFFICES ASSUME Init PROVE OrderInv
    OBVIOUS
  <1>1. \A t \in Threads : Told(t) = NoChanges
    BY DEF Init, Told, My, Editors
  <1> QED BY <1>1 DEF Init, OrderInv, Spoken, Orderly, Single, LatestIsLast, QueuedLatest,
                      RunLatest, Applying, Touches, NoChanges

(* Two threads that speak of a private key are one.                        *)
LEMMA OneSpeaker ==
  ASSUME Spoken, NEW k \in Keys, Private(k), NEW t \in Threads, NEW u \in Threads,
         Touches(Told(t), k), Touches(Told(u), k)
  PROVE  t = u
  BY DEF Spoken, Private

(* Calls that leave the pool, the preferences and the editors of those who *)
(* apply alone.                                                            *)
LEMMA callOrder ==
  ASSUME TypeOK, OrderInv, Spoken',
         UNCHANGED <<core, disk, workers, queue, running, latest>>,
         overflown => overflown', synced => synced',
         \A k \in Keys : users[k] \subseteq users'[k],
         \A t \in Threads : pc'[t] = "committing" => pc[t] = "committing" \/ ~Orderly',
         \A t \in Threads : (pc'[t] = "applying" <=> pc[t] = "applying") \/ ~Orderly',
         \A t \in Threads : pc[t] = "applying" => Told(t)' = Told(t) \/ ~Orderly',
         \A e \in Waiting : held'[e] = held[e]
  PROVE  OrderInv'
  <1> SUFFICES ASSUME Orderly' PROVE Single' /\ \A k \in Keys : Private(k)' => LatestIsLast(k)'
    BY DEF OrderInv
  <1>1. Orderly /\ Single
    BY DEF Orderly, OrderInv
  <1>2. Single'
    BY <1>1 DEF Single
  <1>3. ASSUME NEW k \in Keys, Private(k)' PROVE LatestIsLast(k)'
    <2>1. LatestIsLast(k)
      BY <1>1, <1>3, StaysShared DEF OrderInv
    <2>2. \A t \in Threads : Applying(t, k)' <=> Applying(t, k)
      BY DEF Applying
    <2>3. QueuedLatest(k) => QueuedLatest(k)'
      <3>1. /\ \A i \in 1..Len(queue) : held'[queue[i].of] = held[queue[i].of]
            /\ \A task \in running : held'[task.of] = held[task.of]
        BY DEF Waiting
      <3> QED BY <3>1 DEF QueuedLatest, RunLatest
    <2> QED BY <2>1, <2>2, <2>3 DEF LatestIsLast, Applying
  <1> QED BY <1>2, <1>3

(* Users only come: what has been said stays the word of a user.           *)
LEMMA usersSpoken ==
  ASSUME TypeOK, OrderInv,
         \A k \in Keys : users[k] \subseteq users'[k],
         NEW t \in Threads,
         \A u \in Threads : u # t => Told(u)' = Told(u),
         \A k \in Keys : Touches(Told(t)', k) => t \in users'[k]
  PROVE  Spoken'
  <1>1. ASSUME NEW u \in Threads, NEW k \in Keys, Touches(Told(u)', k) PROVE u \in users'[k]
    BY <1>1 DEF OrderInv, Spoken
  <1>2. \A u \in Threads, k \in Keys : Touches(Told(u), k)' <=> Touches(Told(u)', k)
    BY DEF Touches
  <1> QED BY <1>1, <1>2 DEF Spoken

LEMMA sameSpoken ==
  ASSUME TypeOK, OrderInv,
         \A k \in Keys : users[k] \subseteq users'[k],
         \A u \in Threads : Told(u)' \in {Told(u), NoChanges}
  PROVE  Spoken'
  <1> SUFFICES ASSUME NEW u \in Threads, NEW k \in Keys, Touches(Told(u)', k) PROVE u \in users'[k]
    BY DEF Spoken, Touches
  <1>1. Told(u)' = Told(u)
    BY DEF Touches, NoChanges
  <1> QED BY <1>1 DEF OrderInv, Spoken

(* A getter's steps, the listener and callerRuns leave the editors alone.  *)
LEMMA getterOrder ==
  ASSUME TypeOK, OrderInv, NEW t \in Threads,
         \/ \E k \in Keys : containsKey(t, k) \/ put(t, k)
         \/ \E v \in Values \union {Absent} : miss(t, v)
         \/ hit(t) \/ filled(t) \/ callerRuns(t)
         \/ t = main /\ onSharedPreferenceChanged
  PROVE  OrderInv'
  <1>1. /\ UNCHANGED <<core, disk, workers, queue, running, latest, synced, held>>
        /\ overflown => overflown'
    <2> USE DEF editorVars, ownVars, callVars, poolVars, historyVars
    <2>1. CASE \E k \in Keys : containsKey(t, k)
      BY <2>1 DEF containsKey
    <2>6. CASE \E v \in Values \union {Absent} : miss(t, v)
      BY <2>6 DEF miss
    <2>2. CASE \E k \in Keys : put(t, k)
      BY <2>2 DEF put
    <2>3. CASE hit(t) \/ filled(t)
      BY <2>3 DEF hit, filled
    <2>4. CASE callerRuns(t)
      BY <2>4 DEF callerRuns
    <2>5. CASE onSharedPreferenceChanged
      BY <2>5 DEF onSharedPreferenceChanged
    <2> QED BY <2>1, <2>2, <2>3, <2>4, <2>5, <2>6
  <1>2. \A k \in Keys : users[k] \subseteq users'[k]
    <2>1. CASE \E k \in Keys : containsKey(t, k)
      BY <2>1 DEF containsKey, Uses, TypeOK
    <2>2. CASE ~\E k \in Keys : containsKey(t, k)
      BY <2>2 DEF put, miss, hit, filled, callerRuns, onSharedPreferenceChanged, historyVars
    <2> QED BY <2>1, <2>2
  <1>t. \A u \in Threads : Told(u)' = Told(u)
    BY ToldStays DEF containsKey, put, miss, hit, filled, callerRuns, onSharedPreferenceChanged
  <1>3. Spoken'
    BY <1>2, <1>t, sameSpoken
  <1>4. \/ pc' = pc
        \/ pc[t] # "applying" /\ \E to \in {"hit", "miss", "filling", "idle"} :
                                    pc' = [pc EXCEPT ![t] = to]
        \/ ~Orderly' /\ pc' = [pc EXCEPT ![t] = "committing"]
    BY DEF containsKey, put, miss, hit, filled, callerRuns, onSharedPreferenceChanged, Goes, Orderly
  <1>5. /\ \A u \in Threads : pc'[u] = "committing" => pc[u] = "committing" \/ ~Orderly'
        /\ \A u \in Threads : (pc'[u] = "applying" <=> pc[u] = "applying") \/ ~Orderly'
    BY <1>4 DEF TypeOK
  <1> QED BY <1>1, <1>2, <1>3, <1>5, <1>t, callOrder

LEMMA editsOrder ==
  ASSUME TypeOK, ApartInv, OrderInv, NEW t \in Threads, ~reused',
         \/ edit(t) \/ clear(t)
         \/ \E k \in Keys : remove(t, k) \/ \E v \in Values : putValue(t, k, v)
  PROVE  OrderInv'
  <1>1. /\ UNCHANGED <<core, disk, workers, queue, running, latest, overflown, synced, pc>>
        /\ pc[t] = "idle"
    BY DEF edit, clear, remove, putValue, Tells, callVars, poolVars, historyVars
  <1>2. \A k \in Keys : users[k] \subseteq users'[k]
    BY DEF edit, clear, remove, putValue, Uses, historyVars, TypeOK
  <1>3. \A u \in Threads : u # t => Told(u)' = Told(u)
    BY ToldNew, ToldSaid DEF clear, remove, putValue, Tells
  <1>4. ASSUME NEW k \in Keys, Touches(Told(t)', k) PROVE t \in users'[k]
    <2>0. Told(t) \in Changes /\ (Touches(Told(t), k) => t \in users[k])
      BY MineTyped DEF OrderInv, Spoken, Told
    <2>1. CASE edit(t)
      <3>1. Told(t)' = NoChanges
        BY <2>1, ToldNew
      <3> QED BY <1>4, <3>1 DEF NoChanges, Touches
    <2>2. CASE clear(t)
      BY <2>2 DEF clear, Uses, TypeOK
    <2>3. ASSUME NEW k0 \in Keys, NEW v \in Values \union {Absent},
                 Told(t)' = Says(Told(t), k0, v), Uses(t, {k0})
          PROVE  t \in users'[k]
      <3>2. k # k0 => Touches(Told(t), k)
        BY <1>4, <2>0, <2>3 DEF Says, Touches, Changes
      <3> QED BY <1>2, <2>0, <2>3, <3>2 DEF Uses
    <2>4. ASSUME NEW k0 \in Keys, remove(t, k0) PROVE Told(t)' = Says(Told(t), k0, Absent) /\ Uses(t, {k0})
      BY <2>4, ToldSaid DEF remove, Tells, Told
    <2>5. ASSUME NEW k0 \in Keys, NEW v \in Values, putValue(t, k0, v)
          PROVE  Told(t)' = Says(Told(t), k0, v) /\ Uses(t, {k0})
      BY <2>5, ToldSaid DEF putValue, Tells, Told
    <2> QED BY <2>1, <2>2, <2>3, <2>4, <2>5
  <1>5. Spoken'
    BY <1>2, <1>3, <1>4, usersSpoken
  <1>6. \A u \in Threads : pc[u] = "applying" => u # t
    BY <1>1
  <1>7. \A e \in Waiting : held'[e] = held[e]
    BY editsKeep DEF Busy
  <1> QED BY <1>1, <1>2, <1>3, <1>5, <1>6, <1>7, callOrder

(* apply() adds to the latest values what its editor says.                 *)
LEMMA handOverOrder ==
  ASSUME TypeOK, ApartInv, OrderInv, NEW t \in Threads, apply(t) \/ commit(t), ~reused'
  PROVE  OrderInv'
  <1>1. /\ UNCHANGED <<core, disk, workers, queue, running, users, open, held, overflown>>
        /\ pc[t] = "idle" /\ (synced => synced') /\ ~handed[t]
        /\ latest' = Edited(Over(latest, editorCache[t]), Told(t))
        /\ Over(latest, editorCache[t]) \in Store /\ Told(t) \in Changes
    <2>1. Over(latest, editorCache[t]) \in Store
      BY MineTyped DEF TypeOK, Over, Store
    <2>2. PICK to \in {"applying", "committing"} : handOver(t, to)
      BY DEF apply, commit
    <2>3. ~handed[t] /\ pc[t] = "idle" /\ UNCHANGED <<core, open, disk, poolVars>>
      BY <2>2 DEF handOver, Tells
    <2>4. /\ latest' = Edited(Over(latest, editorCache[t]), Told(t))
          /\ UNCHANGED <<users, held>> /\ (synced => synced')
      BY <2>2 DEF apply, commit, handOver, Told
    <2> QED BY <2>1, <2>3, <2>4, MineTyped DEF Told, poolVars
  <1>t. \A u \in Threads : Told(u)' = Told(u)
    BY <1>1 DEF Told, My
  <1>2. Spoken'
    BY <1>1, <1>t, sameSpoken
  <1> SUFFICES ASSUME Orderly' PROVE Single' /\ \A k \in Keys : Private(k)' => LatestIsLast(k)'
    BY <1>2 DEF OrderInv
  <1>3. Orderly /\ Single
    BY <1>1 DEF Orderly, OrderInv
  <1>4. pc' = [pc EXCEPT ![t] = "applying"]
    BY DEF apply, commit, handOver, Goes, Orderly
  <1>5. Single'
    BY <1>1, <1>3, <1>4 DEF Single, TypeOK
  <1>6. ASSUME NEW k \in Keys, Private(k)' PROVE LatestIsLast(k)'
    <2>1. LatestIsLast(k)
      BY <1>1, <1>3, <1>6 DEF OrderInv, Private
    <2>2. latest'[k] = IF Touches(Told(t), k) THEN Said(Told(t), k) ELSE latest[k]
      <3>1. editorCache[t][k] # Absent => Told(t).mods[k] \in {editorCache[t][k], Absent}
        BY <1>1 DEF ApartInv, Apart
      <3>2. ~Touches(Told(t), k) => Over(latest, editorCache[t])[k] = latest[k]
        BY <3>1, PreferenceAssumption, MineTyped DEF Touches, Over, Store
      <3> QED BY <1>1, <3>2, EditedSays
    <2>3. /\ Applying(t, k)' <=> Touches(Told(t), k)
          /\ \A u \in Threads : u # t => (Applying(u, k)' <=> Applying(u, k))
          /\ ~Applying(t, k)
      BY <1>1, <1>4, <1>t DEF Applying, Touches, TypeOK
    <2>4. CASE Touches(Told(t), k)
      BY <1>1, <1>t, <2>2, <2>3, <2>4 DEF LatestIsLast, Said
    <2>5. CASE ~Touches(Told(t), k)
      <3>1. QueuedLatest(k) => QueuedLatest(k)'
        BY <1>1, <2>2, <2>5 DEF QueuedLatest, RunLatest
      <3> QED BY <1>1, <1>t, <2>1, <2>2, <2>3, <2>5, <3>1 DEF LatestIsLast, Said
    <2> QED BY <2>4, <2>5
  <1> QED BY <1>5, <1>6

(* The pool takes the task behind all others.                              *)
LEMMA executeOrder ==
  ASSUME TypeOK, OrderInv, NEW t \in Threads, execute(t)
  PROVE  OrderInv'
  <1>1. /\ UNCHANGED <<core, disk, users, latest, synced>>
        /\ pc[t] = "applying" /\ pc' = [pc EXCEPT ![t] = "idle"]
        /\ queue \in Seq(Tasks) /\ Task(t) \in Tasks
        /\ held'[Task(t).of] = Told(t) /\ held' = held
    BY TaskTyped DEF execute, historyVars, editorVars, TypeOK, Task, Told
  <1>2. \A u \in Threads : Told(u)' = Told(u)
    BY ToldStays DEF execute
  <1>3. \/ UNCHANGED queue /\ running' = running \union {Task(t)}
        \/ UNCHANGED running /\ queue' = Append(queue, Task(t))
    BY DEF execute
  <1>4. UNCHANGED running /\ queue' = Append(queue, Task(t)) =>
          /\ Len(queue') = Len(queue) + 1 /\ Len(queue) \in Nat
          /\ \A i \in 1..Len(queue) : queue'[i] = queue[i]
          /\ queue'[Len(queue) + 1] = Task(t)
    BY <1>1
  <1>5. \A k \in Keys : Touches(Told(t), k) => t \in users[k]
    BY DEF OrderInv, Spoken
  <1>6. Spoken'
    BY <1>1, <1>2, sameSpoken
  <1> SUFFICES ASSUME Orderly' PROVE Single' /\ \A k \in Keys : Private(k)' => LatestIsLast(k)'
    BY <1>6 DEF OrderInv
  <1>7. Orderly /\ Single /\ Spoken
    BY <1>1 DEF Orderly, OrderInv, execute
  <1>8. \/ /\ running = {} /\ queue = <<>> /\ queue' = queue
           /\ running' = {Task(t)} /\ workers' = 1
        \/ /\ UNCHANGED <<running, workers>> /\ workers = 1
           /\ queue' = Append(queue, Task(t))
    <2>1. workers \in Nat /\ workers <= 1 /\ CoreSize = 1
      BY <1>7 DEF TypeOK, Single, Orderly, CoreSize
    <2> QED BY <1>7, <2>1 DEF Single, execute, Orderly
  <1>9. Single'
    <2>1. \A u \in Threads : pc'[u] # "committing"
      BY <1>1, <1>7 DEF Single, TypeOK
    <2> QED BY <1>1, <1>7, <1>8, <2>1 DEF Single
  <1>10. ASSUME NEW k \in Keys, Private(k)' PROVE LatestIsLast(k)'
    <2>1. LatestIsLast(k) /\ Private(k)
      BY <1>1, <1>7, <1>10 DEF OrderInv, Private
    <2>2. /\ ~Applying(t, k)'
          /\ \A u \in Threads : u # t => (Applying(u, k)' <=> Applying(u, k))
      BY <1>1, <1>2 DEF Applying, TypeOK
    <2>3. CASE Touches(Told(t), k)
      <3>1. \A u \in Threads : ~Applying(u, k)'
        BY <1>7, <2>1, <2>2, <2>3, OneSpeaker DEF Applying
      <3>2. latest[k] = Said(Told(t), k)
        BY <1>1, <1>7, <2>1, <2>3, OneSpeaker DEF LatestIsLast, Applying
      <3>3. QueuedLatest(k)'
        BY <1>1, <1>4, <1>8, <2>3, <3>2 DEF QueuedLatest, RunLatest
      <3> QED BY <3>1, <3>3 DEF LatestIsLast
    <2>4. CASE ~Touches(Told(t), k)
      <3>1. ~Applying(t, k)
        BY <2>4 DEF Applying
      <3>2. QueuedLatest(k) => QueuedLatest(k)'
        <4>1. CASE running' = {Task(t)} /\ running = {} /\ queue = <<>> /\ queue' = queue
          BY <1>1, <2>4, <4>1 DEF QueuedLatest, RunLatest
        <4>2. CASE UNCHANGED running /\ queue' = Append(queue, Task(t))
          <5>1. RunLatest(k) => RunLatest(k)'
            BY <1>1, <4>2 DEF RunLatest
          <5>2. \A i \in 1..Len(queue') : i \in 1..Len(queue) \/ queue'[i] = Task(t)
            BY <1>4, <4>2
          <5> QED BY <1>1, <1>4, <2>4, <4>2, <5>1, <5>2 DEF QueuedLatest
        <4> QED BY <1>8, <4>1, <4>2
      <3> QED BY <1>1, <1>2, <2>1, <2>2, <3>1, <3>2 DEF LatestIsLast, Applying
    <2> QED BY <2>3, <2>4
  <1> QED BY <1>9, <1>10

(* commit() and a task beyond the queue are what the property leaves out.  *)
LEMMA commitsOrder ==
  ASSUME TypeOK, OrderInv, NEW t \in Threads, commits(t)
  PROVE  OrderInv'
  <1>1. ~Orderly'
    <2>1. pc[t] = "committing" /\ (Orderly' => Orderly)
      BY DEF commits, Goes, Orderly, poolVars, historyVars
    <2> QED BY <2>1 DEF OrderInv, Single
  <1>2. \A u \in Threads : Told(u)' \in {Told(u), NoChanges}
    BY MineTyped, ToldCommitted DEF commits, ownVars
  <1>4. Spoken'
    BY <1>2, sameSpoken DEF commits, historyVars
  <1> QED BY <1>1, <1>4 DEF OrderInv

(* The one thread of the pool takes the tasks in order.                    *)
LEMMA poolOrder ==
  ASSUME TypeOK, ApartInv, OrderInv, PoolRuns
  PROVE  OrderInv'
  <1>1. /\ UNCHANGED <<core, pc, open, users, latest, overflown, synced>>
        /\ queue \in Seq(Tasks)
    BY DEF PoolRuns, take, retire, commitInBackground, editorVars, ownVars, callVars, historyVars,
           TypeOK
  <1>2. take => /\ Len(queue') = Len(queue) - 1 /\ Len(queue) \in Nat \ {0}
                /\ \A i \in 1..Len(queue') : queue'[i] = queue[i + 1]
                /\ running' = running \union {queue[1]} /\ queue[1] \in Tasks
                /\ UNCHANGED <<workers, disk, held>>
    BY <1>1 DEF take, editorVars
  <1>w. ASSUME NEW task \in running, commitInBackground(task)
        PROVE  /\ \A u \in Threads : Told(u)' = IF My(u) = task.of THEN NoChanges ELSE Told(u)
               /\ \A e \in Editors : e # task.of => held'[e] = held[e]
               /\ task.of \in Waiting /\ task.of \in Editors
    <2>1. task.of \in Waiting /\ task.of \in Editors
      BY DEF Waiting, TypeOK, Tasks
    <2> QED BY <1>w, <2>1, ToldCommitted DEF commitInBackground, Commit, ownVars, TypeOK
  <1>3. Spoken'
    <2>1. \A u \in Threads : Told(u)' \in {Told(u), NoChanges}
      BY <1>w, ToldStays DEF PoolRuns, take, retire
    <2> QED BY <1>1, <2>1, sameSpoken
  <1> SUFFICES ASSUME Orderly' PROVE Single' /\ \A k \in Keys : Private(k)' => LatestIsLast(k)'
    BY <1>3 DEF OrderInv
  <1>4. Orderly /\ Single /\ \A k \in Keys : Private(k)' => LatestIsLast(k)
    BY <1>1 DEF Orderly, OrderInv, Private
  <1>5. HasSpare => running = {}
    <2>1. ASSUME NEW task \in Tasks, running = {task} PROVE Cardinality(running) = 1
      BY <2>1, FS_Singleton
    <2>2. workers \in Nat /\ workers <= 1
      BY <1>4 DEF TypeOK, Single
    <2> QED BY <1>4, <2>1, <2>2 DEF HasSpare, Single
  <1>6. \A k \in Keys : (QueuedLatest(k) => QueuedLatest(k)') /\ LatestIsLast(k) => LatestIsLast(k)'
    <2>1. ASSUME NEW u \in Threads, pc[u] = "applying" PROVE Told(u)' = Told(u)
      <3>1. My(u) \notin Waiting
        BY <2>1 DEF ApartInv, Apart
      <3> QED BY <1>w, <3>1, ToldStays DEF PoolRuns, take, retire
    <2>2. \A u \in Threads, k \in Keys : Applying(u, k)' <=> Applying(u, k)
      BY <1>1, <2>1 DEF Applying, Touches
    <2> QED BY <1>1, <2>1, <2>2 DEF LatestIsLast, Applying, Said
  <1>7. CASE take
    <2>1. running = {} /\ running' = {queue[1]} /\ workers' = workers /\ workers # 0
      BY <1>2, <1>4, <1>5, <1>7 DEF take, Single
    <2>2. Single'
      BY <1>1, <1>2, <1>4, <1>7, <2>1 DEF Single
    <2>3. ASSUME NEW k \in Keys, QueuedLatest(k) PROVE QueuedLatest(k)'
      <3>1. \A i \in 2..Len(queue) : i - 1 \in 1..Len(queue') /\ queue'[i - 1] = queue[i]
        BY <1>2, <1>7
      <3>2. \A i \in 1..Len(queue') : i + 1 \in 2..Len(queue) /\ queue'[i] = queue[i + 1]
        BY <1>2, <1>7
      <3>3. CASE \A i \in 1..Len(queue) : ~Touches(held[queue[i].of], k)
        <4>1. RunLatest(k)
          BY <2>3, <3>3 DEF QueuedLatest
        <4>2. RunLatest(k)'
          BY <1>1, <1>2, <1>7, <2>1, <3>3, <4>1 DEF RunLatest
        <4> QED BY <1>2, <1>7, <3>2, <3>3, <4>2 DEF QueuedLatest
      <3>4. ASSUME NEW i \in 1..Len(queue), Touches(held[queue[i].of], k),
                   latest[k] = Said(held[queue[i].of], k),
                   \A j \in (i + 1)..Len(queue) : ~Touches(held[queue[j].of], k)
            PROVE  QueuedLatest(k)'
        <4>1. CASE i = 1
          <5>1. RunLatest(k)'
            BY <1>1, <1>2, <1>7, <2>1, <3>4, <4>1 DEF RunLatest
          <5>2. \A j \in 1..Len(queue') : ~Touches(held'[queue'[j].of], k)
            BY <1>2, <1>7, <3>2, <3>4, <4>1
          <5> QED BY <5>1, <5>2 DEF QueuedLatest
        <4>2. CASE i # 1
          <5>1. i - 1 \in 1..Len(queue') /\ queue'[i - 1] = queue[i]
            BY <3>1, <4>2
          <5>2. \A j \in i..Len(queue') : ~Touches(held'[queue'[j].of], k)
            BY <1>2, <1>7, <3>4
          <5>3. (i - 1) + 1 = i
            OBVIOUS
          <5> QED BY <1>1, <1>2, <1>7, <3>4, <5>1, <5>2, <5>3 DEF QueuedLatest
        <4> QED BY <4>1, <4>2
      <3> QED BY <2>3, <3>3, <3>4 DEF QueuedLatest
    <2> QED BY <1>4, <1>6, <2>2, <2>3
  <1>8. CASE retire
    BY <1>4, <1>8 DEF retire, CoreSize, Orderly, Single, TypeOK
  <1>9. ASSUME NEW task \in running, commitInBackground(task)
        PROVE  Single' /\ \A k \in Keys : Private(k)' => LatestIsLast(k)'
    <2>1. /\ running = {task} /\ running' = {} /\ UNCHANGED <<queue, workers>>
          /\ disk' = Edited(disk, held[task.of]) /\ task \in Tasks
      BY <1>4, <1>9 DEF commitInBackground, Commit, Single, TypeOK
    <2>2. Single'
      BY <1>1, <1>4, <2>1 DEF Single
    <2>3. ASSUME NEW k \in Keys PROVE RunLatest(k) => RunLatest(k)'
      <3>1. disk'[k] = IF Touches(held[task.of], k) THEN Said(held[task.of], k) ELSE disk[k]
        BY <2>1, EditedSays DEF TypeOK, Tasks
      <3> QED BY <1>1, <2>1, <3>1 DEF RunLatest
    <2>4. \A k \in Keys : QueuedLatest(k) => QueuedLatest(k)'
      <3>1. \A i \in 1..Len(queue) : queue[i].of # task.of /\ queue[i].of \in Editors
        <4>1. \A i \in 1..Len(queue) : queue[i] \in Tasks
          BY <1>1
        <4> QED BY <1>9, <4>1 DEF ApartInv, Tasks
      <3>2. \A i \in 1..Len(queue) : held'[queue[i].of] = held[queue[i].of]
        BY <1>9, <1>w, <3>1
      <3> SUFFICES ASSUME NEW k \in Keys, QueuedLatest(k) PROVE QueuedLatest(k)'
        OBVIOUS
      <3>3. UNCHANGED <<queue, latest>>
        BY <1>1, <2>1
      <3>4. \A i \in 1..Len(queue) :
              /\ Touches(held[queue[i].of], k)' <=> Touches(held[queue[i].of], k)
              /\ Said(held[queue[i].of], k)' = Said(held[queue[i].of], k)
        BY <3>2, <3>3 DEF Touches, Said
      <3>5. CASE \E i \in 1..Len(queue) :
                   /\ Touches(held[queue[i].of], k) /\ latest[k] = Said(held[queue[i].of], k)
                   /\ \A j \in (i + 1)..Len(queue) : ~Touches(held[queue[j].of], k)
        <4>1. PICK i \in 1..Len(queue) :
                /\ Touches(held[queue[i].of], k) /\ latest[k] = Said(held[queue[i].of], k)
                /\ \A j \in (i + 1)..Len(queue) : ~Touches(held[queue[j].of], k)
          BY <3>5
        <4>2. Len(queue) \in Nat /\ (i + 1)..Len(queue) \subseteq 1..Len(queue)
          BY <1>1 DEF TypeOK
        <4> QED BY <3>3, <3>4, <4>1, <4>2 DEF QueuedLatest
      <3>6. CASE (\A i \in 1..Len(queue) : ~Touches(held[queue[i].of], k)) /\ RunLatest(k)
        BY <2>3, <3>3, <3>4, <3>6 DEF QueuedLatest
      <3> QED BY <3>5, <3>6 DEF QueuedLatest
    <2> QED BY <1>4, <1>6, <2>2, <2>4
  <1> QED BY <1>7, <1>8, <1>9 DEF PoolRuns

LEMMA OrderStep == TypeOK /\ ApartInv /\ OrderInv /\ [Next]_vars /\ ~reused' => OrderInv'
  <1> SUFFICES ASSUME TypeOK, ApartInv, OrderInv, [Next]_vars, ~reused' PROVE OrderInv'
    OBVIOUS
  <1>1. ASSUME NEW t \in Threads, Reads(t) \/ CallGoesOn(t) PROVE OrderInv'
    BY <1>1, getterOrder, commitsOrder, executeOrder DEF Reads, CallGoesOn
  <1>2. ASSUME NEW t \in Writers, Edits(t) PROVE OrderInv'
    <2>1. t \in Threads
      OBVIOUS
    <2> QED BY <1>2, <2>1, handOverOrder, editsOrder DEF Edits
  <1>3. CASE onSharedPreferenceChanged
    <2>1. main \in Threads
      OBVIOUS
    <2> QED BY <1>3, <2>1, getterOrder
  <1>4. CASE UNCHANGED vars
    <2>1. Spoken'
      BY <1>4, ToldStays, sameSpoken DEF vars, historyVars
    <2>2. UNCHANGED held /\ \A u \in Threads : Told(u)' = Told(u)
      BY <1>4, ToldStays DEF vars
    <2> QED BY <1>4, <2>1, <2>2, callOrder DEF vars, callVars, poolVars, historyVars
  <1> QED BY <1>1, <1>2, <1>3, <1>4, poolOrder DEF Next

(* On a machine with one core, as long as the queue of the pool has never  *)
(* been full, nobody calls commit() and each edit has a new editor: once   *)
(* all is quiet, the preferences hold what the last apply() said of each   *)
(* key that one thread uses.                                               *)
THEOREM DiskFollows == Spec => []DiskFollowsApplies
  <1> DEFINE Inv == TypeOK /\ (reused \/ (ApartInv /\ OrderInv))
  <1>1. Init => Inv
    BY TypeInit, ApartInit, OrderInit
  <1>2. Inv /\ [Next]_vars => Inv'
    BY TypeStep, ApartStep, OrderStep, ReusedStays
  <1>3. OrderInv => DiskFollowsApplies
    BY DEF OrderInv, DiskFollowsApplies, Quiet, Idle, Orderly, LatestIsLast, QueuedLatest,
           RunLatest, Applying
  <1>4. Inv => DiskFollowsApplies
    BY <1>3 DEF DiskFollowsApplies
  <1> QED BY <1>1, <1>2, <1>4, PTL DEF Spec
================================================================================
