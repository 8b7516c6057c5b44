----------------------- MODULE DispatchApplyProofs ---------------------------
(***************************************************************************)
(* Proofs about DispatchApply, for any number of clients, workers,         *)
(* processors and iterations and any size of the pool: each index once,    *)
(* and nothing left behind on the list of the root queue.                  *)
(***************************************************************************)
EXTENDS DispatchApply, FiniteSetTheorems, TLAPS

\* Where a thread that submits can be, and one of the queue.
ClientPlaces == {"idle", "sethead", "link", "probe", "wake", "create",
                 "invoke", "leave", "signal", "join"}
WorkerPlaces == {"gone", "start", "drain", "undo", "successor", "trytail",
                 "advance", "probe", "wake", "create", "run", "invoke",
                 "leave", "signal", "exit", "resting", "retire"}
Waking       == {"probe", "wake", "create"}

Places ==
    /\ pc \in [Agents -> ClientPlaces \cup WorkerPlaces]
    /\ ret \in [Agents -> {"idle", "invoke", "run", "exit", "gone"}]
    /\ \A c \in Clients :
         pc[c] \in ClientPlaces /\ ret[c] \in {"idle", "invoke"}
    /\ \A w \in Workers :
         /\ pc[w] \in WorkerPlaces
         /\ pc[w] \in Waking => ret[w] \in {"run", "exit", "gone"}

Fields ==
    /\ item \in [Agents -> Items \cup {NULL}]
    /\ link \in [Agents -> Items \cup {NULL}]
    /\ next \in [Items -> Items \cup {NULL}]
    /\ tail \in Items \cup {NULL}
    /\ head \in Items \cup {NULL, Mediator}
    /\ frame \in [Clients -> {"none", "live", "gone"}]
    /\ index \in [Clients -> Nat]
    /\ count \in [Clients -> Int]
    /\ sema \in [Clients -> Nat]
    /\ asyncs \in [Works -> {"free", "pushed", "done"}]

\* What a thread has in its hands: what it pushes, what it takes off the list,
\* what it is to run.
Pushing(t) == pc[t] \in {"sethead", "link"}
Taking(t)  == pc[t] \in {"successor", "trytail", "advance"}
Serving(t) == \/ pc[t] \in {"run", "invoke", "leave"} /\ t \in Workers
              \/ pc[t] \in Waking /\ ret[t] = "run"
Holding(t) == Pushing(t) \/ Taking(t) \/ Serving(t)

\* The items of the list Q, some of them behind a gap that is not yet linked.
Listed(Q) ==
    /\ tail # NULL => tail \in Q /\ next[tail] = NULL
    /\ head \in Items => head \in Q
    /\ \A i \in Q : next[i] # NULL => next[i] \in Q
    /\ \A t \in Agents :
         /\ Pushing(t) \/ Taking(t) => item[t] \in Q
         /\ Serving(t) => item[t] \in Items \ Q
         /\ pc[t] = "link" => /\ link[t] \in Q /\ next[link[t]] = NULL
                              /\ tail # link[t]
    /\ \A t, u \in Agents :
         pc[t] = "link" /\ pc[u] = "link" /\ link[t] = link[u] => t = u

\* An item is reached in one way only.
OneWay(Q) ==
    /\ \A t, u \in Agents :
         Holding(t) /\ Holding(u) /\ item[t] = item[u] => t = u
    /\ \A t \in Agents : Holding(t) =>
         item[t] # head /\ \A i \in Q : next[i] # item[t]
    /\ \A i \in Q : next[i] # NULL =>
         next[i] # head /\ \A j \in Q : next[j] = next[i] => j = i

InUse(Q, i) == i \in Q \/ \E w \in Workers : Serving(w) /\ item[w] = i

Fresh(Q) ==
    /\ \A w \in Works : InUse(Q, w) => asyncs[w] # "free"
    /\ \A c \in Clients, n \in 1 .. Cpus - 1 : InUse(Q, <<c, n>>) =>
         frame[c] # "none" /\ n < Threads(c)

\* Whether the caller has still to leave its own call.
Inside(c) == \/ pc[c] \in {"invoke", "leave"}
             \/ pc[c] \in {"sethead", "link"} \cup Waking /\ ret[c] = "invoke"

Remaining(Q, c) == {n \in 1 .. Cpus - 1 : InUse(Q, <<c, n>>)}

\* Of the threads a call counts on those are left that have not left it.
Counted(Q) ==
    \A c \in Clients :
        count[c] = Cardinality(Remaining(Q, c)) + (IF Inside(c) THEN 1 ELSE 0)

Calls ==
    /\ \A w \in Workers : pc[w] \in {"invoke", "leave", "signal"} =>
         item[w] \in Clients \X (1 .. Cpus - 1)
    /\ \A t \in Agents : pc[t] = "signal" =>
         count[Caller(t)] = 0 /\ frame[Caller(t)] # "none"
    /\ \A c \in Clients :
         /\ sema[c] > 0 \/ frame[c] = "gone" =>
              count[c] = 0 /\ frame[c] # "none"
         /\ Inside(c) \/ pc[c] \in {"signal", "join"} => frame[c] = "live"
         /\ frame[c] # "none" /\ (~Inside(c) \/ pc[c] = "leave") =>
              index[c] >= Iterations[c]

Drawn ==
    ran = [c \in Clients |-> [n \in 0 .. Iterations[c] - 1 |->
                                IF n < index[c] THEN 1 ELSE 0]]

Orderly(Q) == Listed(Q) /\ OneWay(Q) /\ Fresh(Q) /\ Counted(Q)

IInv == /\ Places /\ Fields /\ Calls /\ Drawn
        /\ \E Q \in SUBSET Items : Orderly(Q)

-----------------------------------------------------------------------------
(* What a push does to the list                                            *)

\* What dispatch_async() pushes.
LEMMA PushOne ==
  ASSUME Fields, NEW c \in Clients, NEW w \in Works, NEW back,
         PushList(c, <<w>>, back)
  PROVE  /\ next' = [i \in Items |-> IF i = w THEN NULL ELSE next[i]]
         /\ tail' = w /\ item' = [item EXCEPT ![c] = w]
<1>1. Len(<<w>>) = 1 /\ <<w>>[1] = w /\ 1 .. Len(<<w>>) - 1 = {}
    OBVIOUS
<1>2. QED
    BY <1>1 DEF PushList

\* What dispatch_apply() pushes when it has a use for further threads.
LEMMA PushMany ==
  ASSUME Fields, NEW c \in Clients, NEW back, Threads(c) > 1,
         PushList(c, [n \in 1 .. Threads(c) - 1 |-> <<c, n>>], back)
  PROVE  LET last == Threads(c) - 1 IN
         /\ next' \in [Items -> Items \cup {NULL}]
         /\ \A n \in 1 .. last - 1 : next'[<<c, n>>] = <<c, n + 1>>
         /\ next'[<<c, last>>] = NULL
         /\ \A i \in Items : (\A n \in 1 .. last : i # <<c, n>>) =>
              next'[i] = next[i]
         /\ tail' = <<c, last>> /\ item' = [item EXCEPT ![c] = <<c, 1>>]
<1> DEFINE last == Threads(c) - 1
           list == [n \in 1 .. last |-> <<c, n>>]
<1>1. last \in Nat \ {0} /\ last < Cpus
    BY ApplyAssumption DEF Threads
<1>2. \A n \in 1 .. last : <<c, n>> \in Items
    BY <1>1, ApplyAssumption
<1>3. Len(list) = last
    BY <1>1
<1>4. \A n \in 1 .. last : list[n] = <<c, n>>
    OBVIOUS
<1> HIDE DEF list
<1>5. /\ next' = [i \in Items |->
                  IF \E n \in 1 .. Len(list) - 1 : list[n] = i
                  THEN list[1 + CHOOSE n \in 1 .. Len(list) - 1 : list[n] = i]
                  ELSE IF i = list[Len(list)] THEN NULL ELSE next[i]]
      /\ tail' = list[Len(list)] /\ item' = [item EXCEPT ![c] = list[1]]
  <2>1. PushList(c, list, back)
      BY DEF list
  <2>2. QED
      BY <2>1, Zenon DEF PushList
<1> HIDE DEF last
<1>6. ASSUME NEW n \in 1 .. last - 1
      PROVE  next'[<<c, n>>] = <<c, n + 1>>
  <2>1. (CHOOSE m \in 1 .. Len(list) - 1 : list[m] = <<c, n>>) = n
      BY <1>1, <1>3, <1>4
  <2>2. list[n] = <<c, n>> /\ list[1 + n] = <<c, n + 1>> /\ <<c, n>> \in Items
      BY <1>1, <1>2, <1>4
  <2>3. n \in 1 .. Len(list) - 1
      BY <1>3
  <2>4. QED
      BY <1>5, <2>1, <2>2, <2>3
<1>7. next'[<<c, last>>] = NULL
    BY <1>1, <1>2, <1>3, <1>4, <1>5
<1>8. ASSUME NEW i \in Items, \A n \in 1 .. last : i # <<c, n>>
      PROVE  next'[i] = next[i]
  <2>1. \A n \in 1 .. last : list[n] # i
      BY <1>4, <1>8
  <2>2. last \in 1 .. last /\ \A n \in 1 .. last - 1 : n \in 1 .. last
      BY <1>1
  <2>3. QED
      BY <1>3, <1>5, <2>1, <2>2
<1>9. ASSUME NEW i \in Items  PROVE next'[i] \in Items \cup {NULL}
  <2>1. CASE \A n \in 1 .. last : i # <<c, n>>
      BY <2>1, <1>8 DEF Fields
  <2>2. CASE \E n \in 1 .. last : i = <<c, n>>
    <3>1. PICK n \in 1 .. last : i = <<c, n>>
        BY <2>2
    <3>2. CASE n = last
        BY <3>1, <3>2, <1>7
    <3>3. CASE n # last
        BY <3>1, <3>3, <1>1, <1>2, <1>6
    <3>4. QED
        BY <3>2, <3>3
  <2>3. QED
      BY <2>1, <2>2
<1>10. next' \in [Items -> Items \cup {NULL}]
    BY <1>5, <1>9
<1>11. tail' = <<c, last>> /\ item' = [item EXCEPT ![c] = <<c, 1>>]
  <2>1. 1 \in 1 .. last /\ last \in 1 .. last
      BY <1>1
  <2>2. QED
      BY <2>1, <1>3, <1>4, <1>5
<1>12. QED
    BY <1>6, <1>7, <1>8, <1>10, <1>11 DEF last

\* The same, by the number of the last record.
LEMMA ApplyPushes ==
  ASSUME Fields, NEW c \in Clients, Apply(c)
  PROVE  \E last \in 1 .. Cpus - 1 :
         /\ last = Threads(c) - 1
         /\ next' \in [Items -> Items \cup {NULL}]
         /\ \A n \in 1 .. last - 1 : next'[<<c, n>>] = <<c, n + 1>>
         /\ next'[<<c, last>>] = NULL
         /\ \A i \in Items : (\A n \in 1 .. last : i # <<c, n>>) =>
              next'[i] = next[i]
         /\ tail' = <<c, last>> /\ item' = [item EXCEPT ![c] = <<c, 1>>]
         /\ \A n \in 1 .. last : <<c, n>> \in Items
<1> DEFINE last == Threads(c) - 1
<1>1. /\ Threads(c) > 1
      /\ PushList(c, [n \in 1 .. Threads(c) - 1 |-> <<c, n>>], "invoke")
    BY DEF Apply
<1>2. last \in 1 .. Cpus - 1
    BY <1>1, ApplyAssumption DEF Threads
<1>3. /\ next' \in [Items -> Items \cup {NULL}]
      /\ \A n \in 1 .. last - 1 : next'[<<c, n>>] = <<c, n + 1>>
      /\ next'[<<c, last>>] = NULL
      /\ \A i \in Items : (\A n \in 1 .. last : i # <<c, n>>) =>
           next'[i] = next[i]
      /\ tail' = <<c, last>> /\ item' = [item EXCEPT ![c] = <<c, 1>>]
    BY <1>1, PushMany, Zenon
<1>4. \A n \in 1 .. last : <<c, n>> \in Items
    BY <1>2, ApplyAssumption
<1>5. last = Threads(c) - 1
    OBVIOUS
<1> HIDE DEF last
<1>6. QED
    BY <1>2, <1>3, <1>4, <1>5

-----------------------------------------------------------------------------
(* The list                                                                *)

\* Nobody has more in hands than before.
HandsStay ==
    \A t \in Agents :
        /\ Pushing(t)' => Pushing(t)
        /\ Taking(t)' => Taking(t)
        /\ Serving(t)' => Serving(t)
        /\ Holding(t)' => item'[t] = item[t]
        /\ pc'[t] = "link" => pc[t] = "link" /\ link'[t] = link[t]

\* Then the list stays in order if its head becomes no item.
LEMMA ListStays ==
  ASSUME NEW Q \in SUBSET Items, Listed(Q), OneWay(Q), UNCHANGED next,
         tail' = tail \/ tail' = NULL,
         head' = head \/ head' \notin Items, HandsStay
  PROVE  Listed(Q)' /\ OneWay(Q)'
<1> USE DEF HandsStay
<1>1. Listed(Q)'
  <2>1. /\ tail' # NULL => tail' \in Q /\ next'[tail'] = NULL
        /\ head' \in Items => head' \in Q
        /\ \A i \in Q : next'[i] # NULL => next'[i] \in Q
      BY DEF Listed
  <2>2. ASSUME NEW t \in Agents
        PROVE  /\ Pushing(t)' \/ Taking(t)' => item'[t] \in Q
               /\ Serving(t)' => item'[t] \in Items \ Q
      BY DEF Listed, Holding
  <2>3. ASSUME NEW t \in Agents, pc'[t] = "link"
        PROVE  link'[t] \in Q /\ next'[link'[t]] = NULL /\ tail' # link'[t]
      BY <2>3, RootAssumption DEF Listed
  <2>4. ASSUME NEW t \in Agents, NEW u \in Agents,
               pc'[t] = "link", pc'[u] = "link", link'[t] = link'[u]
        PROVE  t = u
      BY <2>4 DEF Listed
  <2>5. QED
      BY <2>1, <2>2, <2>3, <2>4 DEF Listed
<1>2. OneWay(Q)'
  <2>1. ASSUME NEW t \in Agents, Holding(t)'
        PROVE  Holding(t) /\ item'[t] = item[t] /\ item[t] \in Items
      BY <2>1 DEF Holding, Listed
  <2>2. \A i \in Q : next'[i] # NULL => next'[i] \in Items
      BY DEF Listed
  <2> HIDE DEF Holding
  <2>3. QED
      BY <2>1, <2>2 DEF OneWay
<1>3. QED
    BY <1>1, <1>2

\* Items that nobody uses are appended.
LEMMA ListGrows ==
  ASSUME NEW Q \in SUBSET Items, Places, Fields, Listed(Q), OneWay(Q),
         NEW c \in Clients, NEW L \in SUBSET Items, NEW first \in L,
         NEW last \in L, NEW back \in {"idle", "invoke"}, pc[c] = "idle",
         \A i \in L : ~InUse(Q, i),
         \A i \in Items \ L : next'[i] = next[i],
         \A i \in L : next'[i] \in L \cup {NULL} /\ next'[i] # first,
         \A i, j \in L : next'[i] = next'[j] /\ next'[i] # NULL => i = j,
         next'[last] = NULL, tail' = last, head' = head,
         item' = [item EXCEPT ![c] = first],
         link' = [link EXCEPT ![c] = tail],
         ret' = [ret EXCEPT ![c] = back],
         pc' = [pc EXCEPT ![c] = IF tail = NULL THEN "sethead" ELSE "link"]
  PROVE  Listed(Q \cup L)' /\ OneWay(Q \cup L)'
<1> DEFINE R == Q \cup L
<1>1. /\ c \in Agents /\ c \notin Workers
      /\ \A t \in Agents \ {c} :
           /\ pc'[t] = pc[t] /\ ret'[t] = ret[t]
           /\ item'[t] = item[t] /\ link'[t] = link[t]
    BY RootAssumption DEF Places, Fields, Agents
<1>2. /\ Pushing(c)' /\ ~Taking(c)' /\ ~Serving(c)' /\ ~Holding(c)
      /\ item'[c] = first /\ link'[c] = tail
      /\ pc'[c] = "link" <=> tail # NULL
    BY <1>1, RootAssumption
       DEF Places, Fields, Pushing, Taking, Serving, Holding, Waking
<1>3. ASSUME NEW t \in Agents \ {c}
      PROVE  /\ Pushing(t)' = Pushing(t) /\ Taking(t)' = Taking(t)
             /\ Serving(t)' = Serving(t)
    BY <1>1 DEF Pushing, Taking, Serving
<1>4. ASSUME NEW t \in Agents, Serving(t)  PROVE t \in Workers
    BY <1>4 DEF Serving, Places, Waking, Agents
<1>5. /\ \A i \in L : i \notin Q /\ i \in Items
      /\ \A t \in Agents : Holding(t) => item[t] \notin L
    BY <1>4 DEF InUse, Listed, Holding
<1>6. \A i \in Q : next'[i] = next[i] /\ (next[i] # NULL => next[i] \in Q)
    BY <1>5 DEF Listed
<1>7. NULL \notin Items /\ first \in Items /\ last \in Items
    BY RootAssumption
<1>8. Listed(R)'
  <2>1. /\ tail' # NULL => tail' \in R /\ next'[tail'] = NULL
        /\ head' \in Items => head' \in R
      BY <1>5 DEF Listed
  <2>2. \A i \in R : next'[i] # NULL => next'[i] \in R
      BY <1>6
  <2>3. ASSUME NEW t \in Agents
        PROVE  /\ Pushing(t)' \/ Taking(t)' => item'[t] \in R
               /\ Serving(t)' => item'[t] \in Items \ R
    <3>1. CASE t = c
        BY <3>1, <1>2
    <3>2. CASE t # c
        BY <3>2, <1>1, <1>3, <1>5 DEF Listed, Holding
    <3>3. QED
        BY <3>1, <3>2
  <2>4. ASSUME NEW t \in Agents, pc'[t] = "link"
        PROVE  link'[t] \in Q /\ next'[link'[t]] = NULL /\ tail' # link'[t]
    <3>1. CASE t = c
        BY <3>1, <2>4, <1>2, <1>5, <1>6 DEF Listed
    <3>2. CASE t # c
        BY <3>2, <2>4, <1>1, <1>5, <1>6 DEF Listed
    <3>3. QED
        BY <3>1, <3>2
  <2>5. ASSUME NEW t \in Agents, NEW u \in Agents,
               pc'[t] = "link", pc'[u] = "link", link'[t] = link'[u]
        PROVE  t = u
    <3>1. ASSUME NEW s \in Agents, s # c, pc'[s] = "link"
          PROVE  pc[s] = "link" /\ link'[s] = link[s] /\ link[s] # tail
        BY <3>1, <1>1 DEF Listed
    <3>2. QED
        BY <3>1, <2>5, <1>2 DEF Listed
  <2>6. QED
      BY <2>1, <2>2, <2>3, <2>4, <2>5 DEF Listed
<1>9. OneWay(R)'
  <2>1. ASSUME NEW t \in Agents, t # c, Holding(t)'
        PROVE  /\ Holding(t) /\ item'[t] = item[t]
               /\ item[t] \notin L /\ item[t] \in Items
      BY <2>1, <1>1, <1>3, <1>5 DEF Holding, Listed
  <2>2. /\ head \in Items => head \in Q
        /\ \A i \in L : next'[i] # NULL => next'[i] \in L /\ next'[i] # first
        /\ \A i \in Q : next'[i] = next[i] /\ next[i] \in Q \cup {NULL}
      BY <1>6 DEF Listed
  <2>3. ASSUME NEW t \in Agents, NEW u \in Agents,
               Holding(t)', Holding(u)', item'[t] = item'[u]
        PROVE  t = u
      BY <2>1, <2>3, <1>2 DEF OneWay
  <2>4. ASSUME NEW t \in Agents, Holding(t)'
        PROVE  item'[t] # head' /\ \A i \in R : next'[i] # item'[t]
    <3>1. CASE t = c
        BY <3>1, <2>2, <1>2, <1>5, <1>7
    <3>2. CASE t # c
        BY <3>2, <2>1, <2>2, <2>4, <1>7 DEF OneWay
    <3>3. QED
        BY <3>1, <3>2
  <2>5. ASSUME NEW i \in R, next'[i] # NULL
        PROVE  next'[i] # head' /\ \A j \in R : next'[j] = next'[i] => j = i
    <3>1. CASE i \in L
        BY <3>1, <2>2, <2>5, <1>5, <1>7
    <3>2. CASE i \in Q
        BY <3>2, <2>2, <2>5, <1>5, <1>7 DEF OneWay
    <3>3. QED
        BY <3>1, <3>2
  <2>6. QED
      BY <2>3, <2>4, <2>5 DEF OneWay
<1>10. QED
    BY <1>8, <1>9

\* A thread takes its item off the list for good; what follows it is reached
\* from the head.
LEMMA ListShrinks ==
  ASSUME NEW Q \in SUBSET Items, Places, Fields, Listed(Q), OneWay(Q),
         NEW w \in Workers, NEW i \in Items, item[w] = i,
         Taking(w), Serving(w)', ~Pushing(w)', ~Taking(w)',
         UNCHANGED <<next, item, link>>,
         \A t \in Agents \ {w} : pc'[t] = pc[t] /\ ret'[t] = ret[t],
         \/ tail = item[w] /\ tail' = NULL /\ head' = head
         \/ /\ next[item[w]] # NULL /\ tail' = tail
            /\ head' = next[item[w]]
  PROVE  Listed(Q \ {i})' /\ OneWay(Q \ {i})'
<1>1. i \in Q
    BY DEF Listed, Agents
<1> DEFINE R == Q \ {i}
<1>2. w \in Agents /\ Holding(w) /\ NULL \notin Items
    BY RootAssumption DEF Agents, Holding
<1>3. ASSUME NEW t \in Agents \ {w}
      PROVE  /\ Pushing(t)' = Pushing(t) /\ Taking(t)' = Taking(t)
             /\ Serving(t)' = Serving(t) /\ pc'[t] = pc[t]
    BY DEF Pushing, Taking, Serving
<1>4. /\ \A j \in Q : next[j] # i
      /\ \A t \in Agents \ {w} : Holding(t) => item[t] # i
      /\ head # i
    BY <1>1, <1>2 DEF OneWay
<1>5. \A t \in Agents : pc[t] = "link" => link[t] # i
    BY <1>1 DEF Listed
<1>6. pc'[w] # "link"
    BY DEF Pushing
<1>7. Listed(R)'
  <2>1. /\ tail' # NULL => tail' \in R /\ next'[tail'] = NULL
        /\ head' \in Items => head' \in R
        /\ \A j \in R : next'[j] # NULL => next'[j] \in R
      BY <1>1, <1>2, <1>4 DEF Listed
  <2>2. ASSUME NEW t \in Agents
        PROVE  /\ Pushing(t)' \/ Taking(t)' => item'[t] \in R
               /\ Serving(t)' => item'[t] \in Items \ R
    <3>1. CASE t = w
        BY <3>1, <1>1
    <3>2. CASE t # w
        BY <3>2, <1>3, <1>4 DEF Listed, Holding
    <3>3. QED
        BY <3>1, <3>2
  <2>3. ASSUME NEW t \in Agents, pc'[t] = "link"
        PROVE  link'[t] \in R /\ next'[link'[t]] = NULL /\ tail' # link'[t]
      BY <2>3, <1>2, <1>3, <1>5, <1>6 DEF Listed
  <2>4. ASSUME NEW t \in Agents, NEW u \in Agents,
               pc'[t] = "link", pc'[u] = "link", link'[t] = link'[u]
        PROVE  t = u
      BY <2>4, <1>3, <1>6 DEF Listed
  <2>5. QED
      BY <2>1, <2>2, <2>3, <2>4 DEF Listed
<1>8. OneWay(R)'
  <2>1. ASSUME NEW t \in Agents, Holding(t)'
        PROVE  Holding(t) /\ item'[t] = item[t] /\ item[t] \in Items
    <3>1. CASE t = w
        BY <3>1, <1>1, <1>2
    <3>2. CASE t # w
        BY <2>1, <3>2, <1>3 DEF Holding, Listed
    <3>3. QED
        BY <3>1, <3>2
  <2>2. \A t \in Agents : Holding(t)' => item[t] # head'
      BY <2>1, <1>1 DEF OneWay
  <2>3. \A j \in R : next[j] # NULL => next[j] # head'
      BY <1>1 DEF OneWay
  <2>4. QED
      BY <2>1, <2>2, <2>3 DEF OneWay
<1>9. QED
    BY <1>1, <1>7, <1>8

-----------------------------------------------------------------------------
(* The types                                                               *)

\* Every thread stays where its kind of thread can be.
LEMMA StepPlaces ==
  ASSUME Places, Fields, [Next]_applyVars  PROVE Places'
<1> USE RootAssumption
        DEF Places, ClientPlaces, WorkerPlaces, Waking, Agents, Goto, Call,
            PushList, AfterInvoke
<1>1. ASSUME NEW c \in Clients, Apply(c)
      PROVE  Places'
    BY <1>1 DEF Apply
<1>2. ASSUME NEW c \in Clients, NEW w \in Works, Async(c, w)
      PROVE  Places'
    BY <1>2 DEF Async
<1>3. ASSUME NEW t \in Agents, Link(t) /\ UNCHANGED <<callVars, asyncs>>
      PROVE  Places'
    BY <1>3 DEF Link
<1>4. ASSUME NEW t \in Agents, SetHead(t) /\ UNCHANGED <<callVars, asyncs>>
      PROVE  Places'
    BY <1>4 DEF SetHead
<1>5. ASSUME NEW t \in Agents, Probe(t) /\ UNCHANGED <<callVars, asyncs>>
      PROVE  Places'
    BY <1>5 DEF Probe
<1>6. ASSUME NEW t \in Agents, RequestThread(t) /\ UNCHANGED <<callVars,
        asyncs>>
      PROVE  Places'
    BY <1>6 DEF RequestThread
<1>7. ASSUME NEW t \in Agents, SignalMediator(t) /\ UNCHANGED <<callVars,
        asyncs>>
      PROVE  Places'
    BY <1>7 DEF SignalMediator
<1>8. ASSUME NEW t \in Agents, CreateThread(t) /\ UNCHANGED <<callVars,
        asyncs>>
      PROVE  Places'
    BY <1>8 DEF CreateThread
<1>9. ASSUME NEW t \in Workers, Start(t) /\ UNCHANGED <<callVars, asyncs>>
      PROVE  Places'
    BY <1>9 DEF Start
<1>10. ASSUME NEW t \in Workers, TakeHead(t) /\ UNCHANGED <<callVars, asyncs>>
      PROVE  Places'
    BY <1>10 DEF TakeHead
<1>11. ASSUME NEW t \in Workers, UndoMediator(t) /\ UNCHANGED <<callVars,
         asyncs>>
      PROVE  Places'
    BY <1>11 DEF UndoMediator
<1>12. ASSUME NEW t \in Workers, Successor(t) /\ UNCHANGED <<callVars,
         asyncs>>
      PROVE  Places'
    BY <1>12 DEF Successor
<1>13. ASSUME NEW t \in Workers, TryTail(t) /\ UNCHANGED <<callVars, asyncs>>
      PROVE  Places'
    BY <1>13 DEF TryTail
<1>14. ASSUME NEW t \in Workers, Advance(t) /\ UNCHANGED <<callVars, asyncs>>
      PROVE  Places'
    BY <1>14 DEF Advance
<1>15. ASSUME NEW t \in Workers, Exit(t) /\ UNCHANGED <<callVars, asyncs>>
      PROVE  Places'
    BY <1>15 DEF Exit
<1>16. ASSUME NEW t \in Workers, Retire(t) /\ UNCHANGED <<callVars, asyncs>>
      PROVE  Places'
    BY <1>16 DEF Retire
<1>17. ASSUME NEW t \in Workers, RunAsync(t)
      PROVE  Places'
    BY <1>17 DEF RunAsync
<1>18. ASSUME NEW t \in Workers, RunRecord(t)
      PROVE  Places'
    BY <1>18 DEF RunRecord
<1>19. ASSUME NEW t \in Agents, Draw(t)
      PROVE  Places'
    BY <1>19 DEF Draw
<1>20. ASSUME NEW t \in Agents, Leave(t)
      PROVE  Places'
    BY <1>20 DEF Leave
<1>21. ASSUME NEW t \in Agents, SignalCaller(t)
      PROVE  Places'
    BY <1>21 DEF SignalCaller
<1>22. ASSUME NEW c \in Clients, Join(c)
      PROVE  Places'
    BY <1>22 DEF Join
<1>23. ASSUME NEW t \in Workers, Grant(t) /\ UNCHANGED <<callVars, asyncs>>
      PROVE  Places'
    BY <1>23 DEF Grant
<1>24. ASSUME NEW t \in Workers, TimeOut(t) /\ UNCHANGED <<callVars, asyncs>>
      PROVE  Places'
    BY <1>24 DEF TimeOut
<1>25. CASE UNCHANGED applyVars
    BY <1>25 DEF applyVars, rootVars
<1>26. QED
    BY <1>1, <1>2, <1>3, <1>4, <1>5, <1>6, <1>7, <1>8, <1>9, <1>10, <1>11,
       <1>12, <1>13, <1>14, <1>15, <1>16, <1>17, <1>18, <1>19, <1>20,
       <1>21, <1>22, <1>23, <1>24, <1>25
       DEF Next, Begin, Continue, Kernel, RootStep, InvokeStep

\* Every variable keeps its type.
LEMMA StepFields ==
  ASSUME Places, Fields, Calls,
         \A t \in Agents : Taking(t) => item[t] \in Items, [Next]_applyVars
  PROVE  Fields'
<1>0. /\ Clients \subseteq Agents /\ Workers \subseteq Agents
      /\ \A t \in Clients : Caller(t) = t
      /\ \A t \in Agents : pc[t] \in {"invoke", "leave", "signal"} =>
           Caller(t) \in Clients
    BY RootAssumption DEF Agents, Caller, Calls
<1>1. ASSUME NEW c \in Clients, Apply(c)
      PROVE  Fields'
  <2>1. PICK last \in 1 .. Cpus - 1 :
           /\ last = Threads(c) - 1
           /\ next' \in [Items -> Items \cup {NULL}]
           /\ tail' = <<c, last>> /\ item' = [item EXCEPT ![c] = <<c, 1>>]
           /\ \A n \in 1 .. last : <<c, n>> \in Items
      BY <1>1, ApplyPushes
  <2>2. /\ <<c, 1>> \in Items /\ <<c, last>> \in Items
        /\ Threads(c) \in Int
    <3>1. Threads(c) \in Int
        BY ApplyAssumption DEF Threads
    <3>2. 1 \in 1 .. last /\ last \in 1 .. last
        BY <2>1, ApplyAssumption
    <3>3. QED
        BY <2>1, <3>1, <3>2
  <2>3. /\ link' = [link EXCEPT ![c] = tail] /\ head' = head
        /\ frame' = [frame EXCEPT ![c] = "live"]
        /\ count' = [count EXCEPT ![c] = Threads(c)]
        /\ UNCHANGED <<index, sema, asyncs>>
    <3> HIDE DEF Threads
    <3>1. QED
        BY <1>1 DEF Apply, PushList
  <2>4. QED
      BY <1>0, <2>1, <2>2, <2>3 DEF Fields
<1>2. ASSUME NEW c \in Clients, NEW w \in Works, Async(c, w)
      PROVE  Fields'
  <2>1. /\ next' = [i \in Items |-> IF i = w THEN NULL ELSE next[i]]
        /\ tail' = w /\ item' = [item EXCEPT ![c] = w]
      BY <1>2, PushOne DEF Async
  <2>2. w \in Items
      BY ApplyAssumption
  <2>3. QED
      BY <1>2, <1>0, <2>1, <2>2 DEF Fields, Async, PushList, callVars
<1>3. ASSUME NEW t \in Agents, Link(t) /\ UNCHANGED <<callVars, asyncs>>
      PROVE  Fields'
  <2>1. link[t] \in Items \cup {NULL} /\ item[t] \in Items \cup {NULL}
      BY <1>3 DEF Fields
  <2>2. QED
      BY <1>3, <2>1 DEF Fields, Goto, Call, listVars, poolVars, callVars, Link
<1>4. ASSUME NEW t \in Agents, SetHead(t) /\ UNCHANGED <<callVars, asyncs>>
      PROVE  Fields'
  <2>1. item[t] \in Items \cup {NULL}
      BY <1>4 DEF Fields
  <2>2. QED
      BY <1>4, <2>1
         DEF Fields, Goto, Call, listVars, poolVars, callVars, SetHead
<1>5. ASSUME NEW t \in Agents, Probe(t) /\ UNCHANGED <<callVars, asyncs>>
      PROVE  Fields'
    BY <1>5, <1>0 DEF Fields, Goto, Call, listVars, poolVars, callVars, Probe
<1>6. ASSUME NEW t \in Agents, RequestThread(t) /\ UNCHANGED <<callVars,
        asyncs>>
      PROVE  Fields'
    BY <1>6, <1>0
       DEF Fields, Goto, Call, listVars, poolVars, callVars, RequestThread
<1>7. ASSUME NEW t \in Agents, SignalMediator(t) /\ UNCHANGED <<callVars,
        asyncs>>
      PROVE  Fields'
    BY <1>7, <1>0
       DEF Fields, Goto, Call, listVars, poolVars, callVars, SignalMediator
<1>8. ASSUME NEW t \in Agents, CreateThread(t) /\ UNCHANGED <<callVars,
        asyncs>>
      PROVE  Fields'
    BY <1>8, <1>0
       DEF Fields, Goto, Call, listVars, poolVars, callVars, CreateThread
<1>9. ASSUME NEW t \in Workers, Start(t) /\ UNCHANGED <<callVars, asyncs>>
      PROVE  Fields'
    BY <1>9, <1>0 DEF Fields, Goto, Call, listVars, poolVars, callVars, Start
<1>10. ASSUME NEW t \in Workers, TakeHead(t) /\ UNCHANGED <<callVars, asyncs>>
      PROVE  Fields'
    BY <1>10, <1>0
       DEF Fields, Goto, Call, listVars, poolVars, callVars, TakeHead
<1>11. ASSUME NEW t \in Workers, UndoMediator(t) /\ UNCHANGED <<callVars,
         asyncs>>
      PROVE  Fields'
    BY <1>11, <1>0
       DEF Fields, Goto, Call, listVars, poolVars, callVars, UndoMediator
<1>12. ASSUME NEW t \in Workers, Successor(t) /\ UNCHANGED <<callVars,
         asyncs>>
      PROVE  Fields'
    BY <1>12, <1>0
       DEF Fields, Goto, Call, listVars, poolVars, callVars, Successor
<1>13. ASSUME NEW t \in Workers, TryTail(t) /\ UNCHANGED <<callVars, asyncs>>
      PROVE  Fields'
    BY <1>13, <1>0
       DEF Fields, Goto, Call, listVars, poolVars, callVars, TryTail
<1>14. ASSUME NEW t \in Workers, Advance(t) /\ UNCHANGED <<callVars, asyncs>>
      PROVE  Fields'
  <2>1. head' \in Items \cup {NULL, Mediator}
      BY <1>14, <1>0 DEF Fields, Advance, Taking
  <2>2. QED
      BY <1>14, <2>1
         DEF Fields, Goto, Call, listVars, poolVars, callVars, Advance
<1>15. ASSUME NEW t \in Workers, Exit(t) /\ UNCHANGED <<callVars, asyncs>>
      PROVE  Fields'
    BY <1>15, <1>0 DEF Fields, Goto, Call, listVars, poolVars, callVars, Exit
<1>16. ASSUME NEW t \in Workers, Retire(t) /\ UNCHANGED <<callVars, asyncs>>
      PROVE  Fields'
    BY <1>16, <1>0
       DEF Fields, Goto, Call, listVars, poolVars, callVars, Retire
<1>17. ASSUME NEW t \in Workers, RunAsync(t)
      PROVE  Fields'
    BY <1>17, <1>0
       DEF Fields, Goto, Call, listVars, poolVars, callVars, RunAsync
<1>18. ASSUME NEW t \in Workers, RunRecord(t)
      PROVE  Fields'
    BY <1>18, <1>0
       DEF Fields, Goto, Call, listVars, poolVars, callVars, RunRecord
<1>19. ASSUME NEW t \in Agents, Draw(t)
      PROVE  Fields'
    BY <1>19, <1>0 DEF Fields, Goto, Call, listVars, poolVars, callVars, Draw
<1>20. ASSUME NEW t \in Agents, Leave(t)
      PROVE  Fields'
    BY <1>20, <1>0 DEF Fields, Goto, Call, listVars, poolVars, callVars, Leave
<1>21. ASSUME NEW t \in Agents, SignalCaller(t)
      PROVE  Fields'
    BY <1>21, <1>0
       DEF Fields, Goto, Call, listVars, poolVars, callVars, SignalCaller
<1>22. ASSUME NEW c \in Clients, Join(c)
      PROVE  Fields'
    BY <1>22, <1>0 DEF Fields, Goto, Call, listVars, poolVars, callVars, Join
<1>23. ASSUME NEW t \in Workers, Grant(t) /\ UNCHANGED <<callVars, asyncs>>
      PROVE  Fields'
    BY <1>23, <1>0 DEF Fields, Goto, Call, listVars, poolVars, callVars, Grant
<1>24. ASSUME NEW t \in Workers, TimeOut(t) /\ UNCHANGED <<callVars, asyncs>>
      PROVE  Fields'
    BY <1>24, <1>0
       DEF Fields, Goto, Call, listVars, poolVars, callVars, TimeOut
<1>25. CASE UNCHANGED applyVars
    BY <1>25 DEF Fields, applyVars, rootVars, listVars, callVars
<1>26. QED
    BY <1>1, <1>2, <1>3, <1>4, <1>5, <1>6, <1>7, <1>8, <1>9, <1>10, <1>11,
       <1>12, <1>13, <1>14, <1>15, <1>16, <1>17, <1>18, <1>19, <1>20,
       <1>21, <1>22, <1>23, <1>24, <1>25
       DEF Next, Begin, Continue, Kernel, RootStep, InvokeStep, Agents

-----------------------------------------------------------------------------
(* The calls                                                               *)

\* Nobody begins or ends to work for a call of dispatch_apply().
CallersStay ==
    /\ \A w \in Workers : pc'[w] \in {"invoke", "leave", "signal"} =>
         pc'[w] = pc[w] /\ item'[w] = item[w]
    /\ \A c \in Clients :
         /\ Inside(c)' <=> Inside(c)
         /\ pc'[c] \in {"leave", "signal", "join"} => pc'[c] = pc[c]

\* The steps of the root queue begin and end no call.
LEMMA RootKeepsCalls ==
  ASSUME Places, Fields,
         \/ \E t \in Agents : RootStep(t)
         \/ \E w \in Workers : Grant(w) \/ TimeOut(w)
         \/ \E c \in Clients, w \in Works : Async(c, w)
  PROVE  CallersStay
<1> USE RootAssumption
        DEF Places, ClientPlaces, WorkerPlaces, Waking, CallersStay, Inside,
            Agents, Goto, Call
<1>1. ASSUME NEW c \in Clients, NEW w \in Works, Async(c, w)
        PROVE CallersStay
    BY <1>1 DEF Async, Fields, PushList
<1>2. ASSUME NEW t \in Agents, Link(t)  PROVE CallersStay
    BY <1>2 DEF Link, Fields
<1>3. ASSUME NEW t \in Agents, SetHead(t)  PROVE CallersStay
    BY <1>3 DEF SetHead, Fields
<1>4. ASSUME NEW t \in Agents, Probe(t)  PROVE CallersStay
    BY <1>4 DEF Probe, Fields
<1>5. ASSUME NEW t \in Agents, RequestThread(t)  PROVE CallersStay
    BY <1>5 DEF RequestThread, Fields
<1>6. ASSUME NEW t \in Agents, SignalMediator(t)  PROVE CallersStay
    BY <1>6 DEF SignalMediator, Fields
<1>7. ASSUME NEW t \in Agents, CreateThread(t)  PROVE CallersStay
    BY <1>7 DEF CreateThread, Fields
<1>8. ASSUME NEW t \in Workers, Start(t)  PROVE CallersStay
    BY <1>8 DEF Start, Fields
<1>9. ASSUME NEW t \in Workers, TakeHead(t)  PROVE CallersStay
    BY <1>9 DEF TakeHead, Fields
<1>10. ASSUME NEW t \in Workers, UndoMediator(t)  PROVE CallersStay
    BY <1>10 DEF UndoMediator, Fields
<1>11. ASSUME NEW t \in Workers, Successor(t)  PROVE CallersStay
    BY <1>11 DEF Successor, Fields
<1>12. ASSUME NEW t \in Workers, TryTail(t)  PROVE CallersStay
    BY <1>12 DEF TryTail, Fields
<1>13. ASSUME NEW t \in Workers, Advance(t)  PROVE CallersStay
    BY <1>13 DEF Advance, Fields
<1>14. ASSUME NEW t \in Workers, Exit(t)  PROVE CallersStay
    BY <1>14 DEF Exit, Fields
<1>15. ASSUME NEW t \in Workers, Retire(t)  PROVE CallersStay
    BY <1>15 DEF Retire, Fields
<1>16. ASSUME NEW t \in Workers, Grant(t)  PROVE CallersStay
    BY <1>16 DEF Grant, Fields
<1>17. ASSUME NEW t \in Workers, TimeOut(t)  PROVE CallersStay
    BY <1>17 DEF TimeOut, Fields
<1>18. QED
    BY <1>1, <1>2, <1>3, <1>4, <1>5, <1>6, <1>7, <1>8, <1>9, <1>10, <1>11,
       <1>12, <1>13, <1>14, <1>15, <1>16, <1>17 DEF RootStep

\* Then the calls stay as they are.
LEMMA CallsStay ==
  ASSUME Calls, CallersStay, UNCHANGED callVars  PROVE Calls'
<1>1. ASSUME NEW t \in Agents, pc'[t] = "signal"
      PROVE  pc[t] = "signal" /\ Caller(t)' = Caller(t)
    BY <1>1 DEF CallersStay, Caller, Agents
<1>2. ASSUME NEW t \in Agents, pc'[t] = "signal"
      PROVE  count'[Caller(t)'] = 0 /\ frame'[Caller(t)'] # "none"
    BY <1>1, <1>2 DEF Calls, callVars
<1>3. \A w \in Workers : pc'[w] \in {"invoke", "leave", "signal"} =>
         item'[w] \in Clients \X (1 .. Cpus - 1)
    BY DEF Calls, CallersStay
<1>4. ASSUME NEW c \in Clients
      PROVE  /\ sema'[c] > 0 \/ frame'[c] = "gone" =>
                  count'[c] = 0 /\ frame'[c] # "none"
             /\ Inside(c)' \/ pc'[c] \in {"signal", "join"} =>
                  frame'[c] = "live"
             /\ frame'[c] # "none" /\ (~Inside(c)' \/ pc'[c] = "leave") =>
                  index'[c] >= Iterations[c]
  <2>1. UNCHANGED <<sema, frame, count, index>>
      BY DEF callVars
  <2>2. QED
      BY <2>1 DEF Calls, CallersStay
<1>5. QED
    BY <1>2, <1>3, <1>4 DEF Calls

\* The records that are counted are finitely many.
LEMMA RemainingFinite ==
  ASSUME NEW Q
  PROVE  \A c \in Clients :
           /\ IsFiniteSet(Remaining(Q, c))
           /\ Cardinality(Remaining(Q, c)) \in Nat
           /\ Remaining(Q, c) # {} => Cardinality(Remaining(Q, c)) > 0
<1> TAKE c \in Clients
<1>1. IsFiniteSet(1 .. Cpus - 1)
    BY ApplyAssumption, FS_Interval
<1>2. IsFiniteSet(Remaining(Q, c))
    BY <1>1, FS_Subset DEF Remaining
<1>3. QED
    BY <1>2, FS_CardinalityType, FS_EmptySet

\* Whoever draws indices or is about to leave has still to be counted.
LEMMA Participants ==
  ASSUME NEW Q \in SUBSET Items, Places, Calls, Fresh(Q), Counted(Q),
         NEW t \in Agents, pc[t] \in {"invoke", "leave"}
  PROVE  /\ Caller(t) \in Clients /\ count[Caller(t)] > 0
         /\ frame[Caller(t)] # "none"
<1>1. \A c \in Clients :
         /\ Cardinality(Remaining(Q, c)) \in Nat
         /\ Remaining(Q, c) # {} => Cardinality(Remaining(Q, c)) > 0
    BY RemainingFinite
<1>2. CASE t \in Clients
  <2>1. Caller(t) = t /\ Inside(t)
      BY <1>2 DEF Caller, Inside
  <2>2. QED
      BY <1>1, <1>2, <2>1 DEF Counted, Calls
<1>3. CASE t \in Workers
  <2>1. PICK c \in Clients, n \in 1 .. Cpus - 1 : item[t] = <<c, n>>
      BY <1>3 DEF Calls
  <2>2. Caller(t) = c /\ Serving(t)
      BY <1>3, <2>1, RootAssumption DEF Caller, Serving
  <2>3. InUse(Q, <<c, n>>)
      BY <1>3, <2>1, <2>2 DEF InUse
  <2>4. n \in Remaining(Q, c)
      BY <2>3 DEF Remaining
  <2>5. QED
      BY <1>1, <2>2, <2>3, <2>4 DEF Counted, Fresh
<1>4. QED
    BY <1>2, <1>3 DEF Agents

\* The last to leave finds the call alive, and the caller returns after it.
LEMMA StepCalls ==
  ASSUME NEW Q \in SUBSET Items, Places, Fields, Calls, Listed(Q), Fresh(Q),
         Counted(Q), [Next]_applyVars
  PROVE  Calls'
<1>0. \A t \in Agents : pc[t] \in {"invoke", "leave"} =>
         /\ Caller(t) \in Clients /\ count[Caller(t)] > 0
         /\ frame[Caller(t)] # "none"
    BY Participants
<1>a. \A t \in Agents : pc[t] = "signal" => Caller(t) \in Clients
    BY DEF Caller, Calls, Agents
<1>1. ASSUME NEW c \in Clients, Apply(c)
      PROVE  Calls'
  <2>1. /\ pc[c] = "idle" /\ frame[c] = "none"
        /\ frame' = [frame EXCEPT ![c] = "live"]
        /\ count' = [count EXCEPT ![c] = Threads(c)]
        /\ pc'[c] \in {"sethead", "link"} /\ ret'[c] = "invoke"
        /\ \A t \in Agents \ {c} :
             pc'[t] = pc[t] /\ ret'[t] = ret[t] /\ item'[t] = item[t]
        /\ UNCHANGED <<index, sema>>
    <3> HIDE DEF Threads
    <3>1. QED
        BY <1>1 DEF Apply, PushList, Goto, Places, Fields, Agents
  <2>2. \A w \in Workers : w \in Agents \ {c}
      BY RootAssumption DEF Agents
  <2>3. ASSUME NEW t \in Agents, pc'[t] = "signal"
        PROVE  count'[Caller(t)'] = 0 /\ frame'[Caller(t)'] # "none"
    <3>1. t # c /\ pc[t] = "signal" /\ Caller(t)' = Caller(t)
        BY <2>1, <2>3 DEF Caller
    <3>2. Caller(t) # c
        BY <2>1, <3>1 DEF Calls
    <3>3. QED
        BY <2>1, <3>1, <3>2, <1>a DEF Calls, Fields
  <2>4. \A d \in Clients \ {c} : Inside(d)' <=> Inside(d)
      BY <2>1 DEF Inside, Agents
  <2>5. Inside(c)' /\ pc'[c] # "leave"
      BY <2>1 DEF Inside
  <2>6. \A d \in Clients \ {c} :
                                 /\ frame'[d] = frame[d]
                                      /\ count'[d] = count[d]
                                 /\ pc'[d] = pc[d]
      BY <2>1 DEF Fields, Agents
  <2>7. frame'[c] = "live" /\ sema'[c] = 0
      BY <2>1 DEF Fields, Calls
  <2>8. QED
      BY <2>1, <2>2, <2>3, <2>4, <2>5, <2>6, <2>7 DEF Calls
<1>2. ASSUME NEW c \in Clients, NEW w \in Works, Async(c, w)
      PROVE  Calls'
    BY <1>2, RootKeepsCalls, CallsStay DEF Async
<1>3. ASSUME NEW t \in Agents, RootStep(t), UNCHANGED callVars
      PROVE  Calls'
    BY <1>3, RootKeepsCalls, CallsStay
<1>4. ASSUME NEW w \in Workers, Grant(w) \/ TimeOut(w), UNCHANGED callVars
      PROVE  Calls'
    BY <1>4, RootKeepsCalls, CallsStay
<1>5. ASSUME NEW t \in Workers, RunAsync(t)
      PROVE  Calls'
  <2>1. CallersStay
      BY <1>5, RootAssumption
         DEF RunAsync, CallersStay, Inside, Goto, Places, ClientPlaces,
             WorkerPlaces, Fields, Agents
  <2>2. QED
      BY <1>5, <2>1, CallsStay DEF RunAsync
<1>6. ASSUME NEW t \in Workers, RunRecord(t)
      PROVE  Calls'
  <2>1. /\ pc[t] = "run" /\ pc' = [pc EXCEPT ![t] = "invoke"]
        /\ item[t] \notin Works
        /\ UNCHANGED <<item, ret, frame, index, count, sema>>
      BY <1>6 DEF RunRecord, Goto, callVars
  <2>2. item[t] \in Clients \X (1 .. Cpus - 1)
    <3>1. item[t] \in Items
        BY <2>1 DEF Listed, Serving, Agents
    <3>2. QED
        BY <2>1, <3>1, ApplyAssumption
  <2>3. \A u \in Agents : u # t => pc'[u] = pc[u]
      BY <2>1 DEF Places
  <2>4. \A c \in Clients : (Inside(c)' <=> Inside(c)) /\ pc'[c] = pc[c]
      BY <2>1, <2>3, RootAssumption DEF Inside, Agents
  <2>5. \A u \in Agents : pc'[u] = "signal" =>
           pc[u] = "signal" /\ Caller(u)' = Caller(u)
      BY <2>1, <2>3 DEF Caller, Places, Agents
  <2>6. \A u \in Workers : pc'[u] \in {"invoke", "leave", "signal"} =>
           u = t \/ pc[u] \in {"invoke", "leave", "signal"}
      BY <2>3 DEF Agents
  <2>7. QED
      BY <2>1, <2>2, <2>4, <2>5, <2>6 DEF Calls
<1>7. ASSUME NEW t \in Agents, Draw(t)
      PROVE  Calls'
  <2>0. PICK c \in Clients : c = Caller(t) /\ count[c] \in Int
               /\ index[c] \in Nat
      BY <1>7, <1>0, <1>a DEF Draw, Fields
  <2>1. /\ pc[t] = "invoke" /\ index' = [index EXCEPT ![c] = @ + 1]
        /\ \A u \in Agents : u # t => pc'[u] = pc[u]
        /\ pc'[t] \in {"invoke", "leave"}
        /\ pc'[t] = "leave" => index[c] >= Iterations[c]
        /\ UNCHANGED <<item, ret, frame, count, sema>>
    <3>1. /\ pc[t] = "invoke" /\ index' = [index EXCEPT ![Caller(t)] = @ + 1]
          /\ IF index[Caller(t)] < Iterations[Caller(t)]
             THEN UNCHANGED pc ELSE Goto(t, "leave")
          /\ UNCHANGED <<item, ret, frame, count, sema>>
        BY <1>7, Zenon DEF Draw
    <3>2. Iterations[c] \in Nat
        BY ApplyAssumption
    <3>3. QED
        BY <2>0, <3>1, <3>2 DEF Goto, Places
  <2>2. ASSUME NEW u \in Agents, pc'[u] = "signal"
        PROVE  pc[u] = "signal" /\ Caller(u)' = Caller(u)
      BY <2>1, <2>2 DEF Caller
  <2>3. \A d \in Clients :
                          /\ Inside(d)' <=> Inside(d)
                          /\ index'[d] \in Nat /\ index'[d] >= index[d]
                          /\ pc'[d] = "leave" => pc[d] = "leave" \/ d = t
                          /\ pc'[d] \in {"signal", "join"} => pc'[d] = pc[d]
      BY <2>0, <2>1, <1>0 DEF Inside, Fields, Agents
  <2>4. \A u \in Workers : pc'[u] \in {"invoke", "leave", "signal"} =>
           pc[u] \in {"invoke", "leave", "signal"}
      BY <2>1 DEF Agents
  <2>5. t \in Clients => c = t
      BY <2>0 DEF Caller
  <2>6. ASSUME NEW d \in Clients, frame[d] # "none",
               ~Inside(d)' \/ pc'[d] = "leave"
        PROVE  index'[d] >= Iterations[d]
    <3>1. index[d] >= Iterations[d]
        BY <2>1, <2>3, <2>5, <2>6 DEF Calls
    <3>2. QED
        BY <2>3, <3>1, ApplyAssumption DEF Fields
  <2>7. QED
      BY <2>1, <2>2, <2>3, <2>4, <2>6 DEF Calls
<1>8. ASSUME NEW t \in Agents, Leave(t)
      PROVE  Calls'
  <2>0. PICK c \in Clients : c = Caller(t) /\ count[c] \in Int
               /\ index[c] \in Nat
      BY <1>8, <1>0, <1>a DEF Leave, Fields
  <2>1. /\ pc[t] = "leave" /\ count' = [count EXCEPT ![c] = @ - 1]
        /\ \A u \in Agents : u # t => pc'[u] = pc[u]
        /\ pc'[t] = IF count[c] = 1 THEN "signal" ELSE AfterInvoke(t)
        /\ UNCHANGED <<item, ret, frame, index, sema>>
      BY <1>8, <2>0 DEF Leave, Goto, Places
  <2>2. /\ c \in Clients /\ count[c] > 0 /\ frame[c] # "none"
        /\ t \in Clients => c = t
      BY <2>0, <2>1, <1>0 DEF Caller
  <2>3. \A u \in Agents : Caller(u)' = Caller(u)
      BY <2>1 DEF Caller
  <2>4. AfterInvoke(t) \in {"join", "drain"}
          /\ (t \in Clients => AfterInvoke(t) = "join")
          /\ (t \in Workers => AfterInvoke(t) = "drain")
      BY RootAssumption DEF AfterInvoke
  <2>5. ASSUME NEW u \in Agents, pc'[u] = "signal"
        PROVE  count'[Caller(u)] = 0 /\ frame'[Caller(u)] # "none"
    <3>1. CASE u = t
        BY <3>1, <2>0, <2>1, <2>2, <2>4, <2>5 DEF Fields
    <3>2. CASE u # t
      <4>1. /\ count[Caller(u)] = 0 /\ frame[Caller(u)] # "none"
            /\ Caller(u) \in Clients
          BY <3>2, <2>1, <2>5, <1>a DEF Calls
      <4>2. QED
          BY <4>1, <2>0, <2>1, <2>2 DEF Fields
    <3>3. QED
        BY <3>1, <3>2
  <2>6. \A u \in Workers : pc'[u] \in {"invoke", "leave", "signal"} =>
           pc[u] \in {"invoke", "leave", "signal"}
      BY <2>1, <2>4 DEF Agents
  <2>7. \A d \in Clients :
                          /\ Inside(d)' => Inside(d)
                          /\ pc'[d] \in {"signal", "join"} =>
                               pc'[d] = pc[d] \/ Inside(d)
                          /\ (~Inside(d)' \/ pc'[d] = "leave") =>
                               ~Inside(d) \/ pc[d] = "leave"
      BY <2>1, <2>4 DEF Inside, Agents, Waking
  <2>8. \A d \in Clients : count[d] = 0 => count'[d] = 0
      BY <2>0, <2>1, <2>2 DEF Fields
  <2>9. QED
      BY <2>1, <2>3, <2>5, <2>6, <2>7, <2>8 DEF Calls
<1>9. ASSUME NEW t \in Agents, SignalCaller(t)
      PROVE  Calls'
  <2>0. PICK c \in Clients : c = Caller(t) /\ count[c] \in Int
               /\ index[c] \in Nat
      BY <1>9, <1>0, <1>a DEF SignalCaller, Fields
  <2>1. /\ pc[t] = "signal" /\ sema' = [sema EXCEPT ![c] = @ + 1]
        /\ \A u \in Agents : u # t => pc'[u] = pc[u]
        /\ pc'[t] = AfterInvoke(t)
        /\ UNCHANGED <<item, ret, frame, index, count>>
      BY <1>9, <2>0 DEF SignalCaller, Goto, Places
  <2>2. /\ c \in Clients /\ count[c] = 0 /\ frame[c] # "none"
        /\ t \in Clients => c = t
      BY <2>0, <2>1 DEF Caller, Calls
  <2>3. \A u \in Agents : Caller(u)' = Caller(u)
      BY <2>1 DEF Caller
  <2>4. AfterInvoke(t) \in {"join", "drain"}
          /\ (t \in Clients => AfterInvoke(t) = "join")
          /\ (t \in Workers => AfterInvoke(t) = "drain")
      BY RootAssumption DEF AfterInvoke
  <2>5. \A u \in Agents : pc'[u] \in {"invoke", "leave", "signal"} =>
           pc'[u] = pc[u]
      BY <2>1, <2>4
  <2>6. \A d \in Clients :
                          /\ Inside(d)' <=> Inside(d)
                          /\ pc'[d] = "leave" => pc[d] = "leave"
                          /\ pc'[d] \in {"signal", "join"} =>
                               pc[d] \in {"signal", "join"}
      BY <2>1, <2>4 DEF Inside, Agents, Waking
  <2>7. \A d \in Clients : sema'[d] > 0 =>
           count'[d] = 0 /\ frame'[d] # "none"
      BY <2>0, <2>1, <2>2 DEF Fields, Calls
  <2>8. QED
      BY <2>1, <2>3, <2>5, <2>6, <2>7 DEF Calls, Agents
<1>10. ASSUME NEW c \in Clients, Join(c)
      PROVE  Calls'
  <2>1. /\ pc[c] = "join" /\ sema[c] > 0
        /\ sema' = [sema EXCEPT ![c] = @ - 1]
        /\ frame' = [frame EXCEPT ![c] = "gone"]
        /\ pc'[c] = "idle"
        /\ \A u \in Agents : u # c => pc'[u] = pc[u]
        /\ UNCHANGED <<item, ret, index, count>>
      BY <1>10 DEF Join, Goto, Places, Agents
  <2>2. count[c] = 0 /\ frame[c] = "live"
      BY <2>1 DEF Calls
  <2>3. \A u \in Agents : Caller(u)' = Caller(u) /\ (pc'[u] = "signal"
          => pc[u] = "signal")
      BY <2>1 DEF Caller
  <2>4. \A u \in Agents : pc'[u] = "signal" => Caller(u) \in Clients
      BY <2>3, <1>a
  <2>5. \A d \in Clients :
                          /\ Inside(d)' <=> Inside(d)
                          /\ pc'[d] \in {"leave", "signal", "join"} =>
                               pc'[d] = pc[d] /\ d # c
      BY <2>1 DEF Inside, Agents, Waking
  <2>6. \A d \in Clients :
                          /\ frame'[d] = IF d = c THEN "gone" ELSE frame[d]
                          /\ d # c => sema'[d] = sema[d]
      BY <2>1 DEF Fields
  <2>7. ~Inside(c)
      BY <2>1 DEF Inside, Waking
  <2>8. \A u \in Workers : pc'[u] \in {"invoke", "leave", "signal"} =>
           pc[u] = pc'[u]
      BY <2>1 DEF Agents
  <2>9. QED
      BY <2>1, <2>2, <2>3, <2>4, <2>5, <2>6, <2>7, <2>8 DEF Calls
<1>11. CASE UNCHANGED applyVars
  <2>1. CallersStay
      BY <1>11 DEF CallersStay, Inside, applyVars, rootVars
  <2>2. QED
      BY <1>11, <2>1, CallsStay DEF applyVars
<1>12. QED
    BY <1>1, <1>2, <1>3, <1>4, <1>5, <1>6, <1>7, <1>8, <1>9, <1>10, <1>11
       DEF Next, Begin, Continue, Kernel, InvokeStep, Agents

\* Every index below da_index has been passed to the function once.
LEMMA StepDrawn ==
  ASSUME NEW Q \in SUBSET Items, Places, Fields, Calls, Fresh(Q), Counted(Q),
         Drawn, [Next]_applyVars
  PROVE  Drawn'
<1>1. CASE UNCHANGED <<index, ran>>
    BY <1>1 DEF Drawn
<1>2. ASSUME NEW t \in Agents, Draw(t)
      PROVE  Drawn'
  <2> DEFINE c == Caller(t)
             Row(d, k) == [n \in 0 .. Iterations[d] - 1 |->
                             IF n < k THEN 1 ELSE 0]
  <2>1. c \in Clients /\ pc[t] = "invoke"
      BY <1>2, Participants DEF Draw
  <2>2. /\ index' = [index EXCEPT ![c] = @ + 1]
        /\ IF index[c] < Iterations[c]
           THEN ran' = [ran EXCEPT ![c][index[c]] = @ + 1] ELSE ran' = ran
      BY <1>2, Zenon DEF Draw
  <2>3. ran = [d \in Clients |-> Row(d, index[d])]
      BY DEF Drawn
  <2> HIDE DEF c
  <2>4. /\ \A d \in Clients \ {c} : index'[d] = index[d]
        /\ index'[c] = index[c] + 1 /\ index[c] \in Nat
        /\ Iterations[c] \in Nat
      BY <2>1, <2>2, ApplyAssumption DEF Fields
  <2>5. CASE index[c] < Iterations[c]
    <3>1. ran' = [ran EXCEPT ![c] = [ran[c] EXCEPT ![index[c]] = @ + 1]]
        BY <2>2, <2>5
    <3>2. ran[c] = Row(c, index[c])
        BY <2>1, <2>3
    <3>3. [ran[c] EXCEPT ![index[c]] = @ + 1] = Row(c, index'[c])
      <4> DEFINE D == 0 .. Iterations[c] - 1
                 old == ran[c]
                 row == [old EXCEPT ![index[c]] = @ + 1]
      <4>1. old = [n \in D |-> IF n < index[c] THEN 1 ELSE 0]
          BY <3>2
      <4>2. index[c] \in D
          BY <2>4, <2>5
      <4> HIDE DEF old
      <4>3. row = [n \in D |-> row[n]]
          BY <4>1
      <4>4. \A n \in D : row[n] = IF n < index'[c] THEN 1 ELSE 0
          BY <4>1, <4>2, <2>4
      <4> HIDE DEF row
      <4>5. row = Row(c, index'[c])
          BY <4>3, <4>4
      <4>6. QED
          BY <4>5 DEF row, old
    <3> HIDE DEF Row
    <3>4. \A d \in Clients : ran'[d] = Row(d, index'[d])
        BY <2>1, <2>3, <2>4, <3>1, <3>3
    <3>5. ran' = [d \in Clients |-> ran'[d]]
        BY <2>3, <3>1
    <3>6. ran' = [d \in Clients |-> Row(d, index'[d])]
        BY <3>4, <3>5
    <3>7. QED
        BY <3>6 DEF Drawn, Row
  <2>6. CASE index[c] >= Iterations[c]
    <3>1. ran' = ran
        BY <2>2, <2>4, <2>6
    <3>2. Row(c, index'[c]) = Row(c, index[c])
        BY <2>4, <2>6
    <3> HIDE DEF Row
    <3>3. \A d \in Clients : Row(d, index'[d]) = Row(d, index[d])
        BY <2>4, <3>2
    <3>4. ran' = [d \in Clients |-> Row(d, index'[d])]
        BY <2>3, <3>1, <3>3
    <3>5. QED
        BY <3>4 DEF Drawn, Row
  <2>7. QED
      BY <2>4, <2>5, <2>6
<1>3. UNCHANGED <<index, ran>> \/ \E t \in Agents : Draw(t)
    BY DEF Next, Begin, Continue, Kernel, InvokeStep, Apply, Async, RunAsync,
           RunRecord, Leave, SignalCaller, Join, callVars, applyVars
<1>4. QED
    BY <1>1, <1>2, <1>3

-----------------------------------------------------------------------------
(* The list and the counts, step by step                                   *)

\* Nobody takes an item to run, or is done with one.
ServesStay ==
    \A w \in Workers : /\ Serving(w)' <=> Serving(w)
                       /\ Serving(w) => item'[w] = item[w]

\* No caller begins or ends to work for its own call.
InsideStay == \A c \in Clients : Inside(c)' <=> Inside(c)

\* The steps of the root queue that move no item.
MovesNothing ==
    \/ \E t \in Agents : \/ Probe(t) \/ RequestThread(t)
                         \/ SignalMediator(t) \/ CreateThread(t)
    \/ \E w \in Workers : \/ Start(w) \/ UndoMediator(w) \/ Successor(w)
                          \/ TryTail(w) /\ tail # item[w]
                          \/ TakeHead(w) /\ head \notin Items
                          \/ Exit(w) \/ Retire(w) \/ Grant(w) \/ TimeOut(w)

\* They leave everything that is held where it is.
LEMMA RootKeepsHands ==
  ASSUME Places, Fields, MovesNothing
  PROVE  HandsStay /\ ServesStay
<1> USE RootAssumption
        DEF Places, Fields, ClientPlaces, WorkerPlaces, Waking, Agents, Goto,
            Call, HandsStay, ServesStay, Holding, Pushing, Taking, Serving
<1>1. ASSUME NEW t \in Agents, Probe(t)
      PROVE  HandsStay /\ ServesStay
    BY <1>1 DEF Probe
<1>2. ASSUME NEW t \in Agents, RequestThread(t)
      PROVE  HandsStay /\ ServesStay
    BY <1>2 DEF RequestThread
<1>3. ASSUME NEW t \in Agents, SignalMediator(t)
      PROVE  HandsStay /\ ServesStay
    BY <1>3 DEF SignalMediator
<1>4. ASSUME NEW t \in Agents, CreateThread(t)
      PROVE  HandsStay /\ ServesStay
    BY <1>4 DEF CreateThread
<1>5. ASSUME NEW t \in Workers, Start(t)
      PROVE  HandsStay /\ ServesStay
    BY <1>5 DEF Start
<1>6. ASSUME NEW t \in Workers, UndoMediator(t)
      PROVE  HandsStay /\ ServesStay
    BY <1>6 DEF UndoMediator
<1>7. ASSUME NEW t \in Workers, Successor(t)
      PROVE  HandsStay /\ ServesStay
    BY <1>7 DEF Successor
<1>8. ASSUME NEW t \in Workers, TryTail(t), tail # item[t]
      PROVE  HandsStay /\ ServesStay
    BY <1>8 DEF TryTail
<1>9. ASSUME NEW t \in Workers, TakeHead(t), head \notin Items
      PROVE  HandsStay /\ ServesStay
    BY <1>9 DEF TakeHead
<1>10. ASSUME NEW t \in Workers, Exit(t)
      PROVE  HandsStay /\ ServesStay
    BY <1>10 DEF Exit
<1>11. ASSUME NEW t \in Workers, Retire(t)
      PROVE  HandsStay /\ ServesStay
    BY <1>11 DEF Retire
<1>12. ASSUME NEW t \in Workers, Grant(t)
      PROVE  HandsStay /\ ServesStay
    BY <1>12 DEF Grant
<1>13. ASSUME NEW t \in Workers, TimeOut(t)
      PROVE  HandsStay /\ ServesStay
    BY <1>13 DEF TimeOut
<1>14. QED
    BY <1>1, <1>2, <1>3, <1>4, <1>5, <1>6, <1>7, <1>8, <1>9, <1>10, <1>11,
       <1>12, <1>13 DEF MovesNothing

\* Then the same items are in use.
LEMMA ServedStays ==
  ASSUME ServesStay  PROVE \A Q, i : InUse(Q, i)' <=> InUse(Q, i)
  BY DEF ServesStay, InUse

\* A record that is in use belongs to a call, a continuation was submitted.
LEMMA FreshStays ==
  ASSUME NEW Q \in SUBSET Items, NEW R \in SUBSET Items, Fresh(Q),
         \A i \in Items : InUse(R, i)' => InUse(Q, i),
         \A c \in Clients : frame'[c] = "none" => frame[c] = "none",
         \A w \in Works : asyncs'[w] = "free" => asyncs[w] = "free"
  PROVE  Fresh(R)'
<1>1. /\ \A w \in Works : w \in Items
      /\ \A c \in Clients, n \in 1 .. Cpus - 1 : <<c, n>> \in Items
    BY ApplyAssumption
<1>2. QED
    BY <1>1 DEF Fresh

\* As long as the same records are in use and nobody leaves the counts are
\* right.
LEMMA CountedStays ==
  ASSUME NEW Q \in SUBSET Items, NEW R \in SUBSET Items, Counted(Q),
         \A i \in Items \ Works : InUse(R, i)' <=> InUse(Q, i),
         InsideStay, UNCHANGED count
  PROVE  Counted(R)'
<1>1. \A c \in Clients, n \in 1 .. Cpus - 1 : <<c, n>> \in Items \ Works
    BY ApplyAssumption
<1>2. ASSUME NEW c \in Clients  PROVE Remaining(R, c)' = Remaining(Q, c)
    BY <1>1 DEF Remaining
<1>3. QED
    BY <1>2 DEF Counted, InsideStay

\* Both of them, if nobody leaves.
LEMMA CountStays ==
  ASSUME NEW Q \in SUBSET Items, NEW R \in SUBSET Items, Fresh(Q),
         Counted(Q), \A i \in Items : InUse(R, i)' <=> InUse(Q, i),
         InsideStay, UNCHANGED <<count, asyncs>>,
         \A c \in Clients : frame'[c] = "none" => frame[c] = "none"
  PROVE  Fresh(R)' /\ Counted(R)'
  BY FreshStays, CountedStays

\* The callers that stay are still to be counted.
LEMMA KeepsInside == CallersStay => InsideStay
  BY DEF CallersStay, InsideStay

\* If nobody takes, passes on or finishes an item, all stays in order.
LEMMA StaysOrderly ==
  ASSUME NEW Q \in SUBSET Items, Orderly(Q), HandsStay, ServesStay,
         InsideStay, UNCHANGED <<next, count, asyncs>>,
         \A c \in Clients : frame'[c] = "none" => frame[c] = "none",
         tail' = tail \/ tail' = NULL, head' = head \/ head' \notin Items
  PROVE  Orderly(Q)'
<1>1. Listed(Q)' /\ OneWay(Q)'
    BY ListStays DEF Orderly
<1>2. Fresh(Q)' /\ Counted(Q)'
    BY CountStays, ServedStays DEF Orderly
<1>3. QED
    BY <1>1, <1>2 DEF Orderly

\* So the steps that move no item keep the list and the counts in order.
LEMMA MovesNothingStep ==
  ASSUME NEW Q \in SUBSET Items, Places, Fields, Orderly(Q),
         MovesNothing, UNCHANGED <<callVars, asyncs>>
  PROVE  Orderly(Q)'
<1>1. HandsStay /\ ServesStay
    BY RootKeepsHands
<1>2. InsideStay
    BY RootKeepsCalls, KeepsInside DEF MovesNothing, RootStep, Agents
<1>3. /\ UNCHANGED <<next, tail>>
      /\ head' = head \/ head' \notin Items
    BY RootAssumption
       DEF MovesNothing, Probe, RequestThread, SignalMediator, CreateThread,
           Start, UndoMediator, Successor, TryTail, TakeHead, Exit, Retire,
           Grant, TimeOut, listVars
<1>4. UNCHANGED <<count, frame>>
    BY DEF callVars
<1>5. QED
    BY <1>1, <1>2, <1>3, <1>4, StaysOrderly

\* The gap in the list is closed.
LEMMA LinkStep ==
  ASSUME NEW Q \in SUBSET Items, Places, Fields, Orderly(Q), NEW t \in Agents,
         Link(t), UNCHANGED <<callVars, asyncs>>
  PROVE  Orderly(Q)'
<1>1. /\ pc[t] = "link" /\ link[t] \in Q /\ item[t] \in Q /\ Holding(t)
      /\ next[link[t]] = NULL /\ tail # link[t]
      /\ \A i \in Items : next'[i] = IF i = link[t] THEN item[t] ELSE next[i]
      /\ UNCHANGED <<tail, head, item, link, ret>>
    BY DEF Link, Orderly, Listed, Pushing, Holding, Fields
<1>2. /\ t \in Clients /\ t \notin Workers /\ ret[t] \in {"idle", "invoke"}
      /\ pc' = [pc EXCEPT ![t] = ret[t]]
    BY <1>1, RootAssumption DEF Places, Agents, WorkerPlaces, Link, Goto
<1>3. /\ \A u \in Agents \ {t} : pc'[u] = pc[u]
      /\ pc'[t] \in {"idle", "invoke"}
    BY <1>2 DEF Places
<1>4. HandsStay /\ ServesStay /\ ~Holding(t)'
    BY <1>1, <1>2, <1>3
       DEF HandsStay, ServesStay, Holding, Pushing, Taking, Serving, Agents,
           Waking
<1>5. ASSUME NEW u \in Agents, Holding(u)'
      PROVE  /\ u # t /\ Holding(u) /\ item'[u] = item[u]
             /\ item[u] # item[t] /\ item[u] # head
             /\ \A i \in Q : next[i] # item[u]
  <2>1. u # t /\ Holding(u)
      BY <1>4, <1>5 DEF HandsStay, Holding
  <2>2. QED
      BY <2>1, <1>1 DEF Orderly, OneWay
<1>6. Listed(Q)'
  <2>1. /\ tail' # NULL => tail' \in Q /\ next'[tail'] = NULL
        /\ head' \in Items => head' \in Q
        /\ \A i \in Q : next'[i] # NULL => next'[i] \in Q
      BY <1>1 DEF Orderly, Listed
  <2>2. ASSUME NEW u \in Agents
        PROVE  /\ Pushing(u)' \/ Taking(u)' => item'[u] \in Q
               /\ Serving(u)' => item'[u] \in Items \ Q
               /\ pc'[u] = "link" => /\ link'[u] \in Q
                                     /\ next'[link'[u]] = NULL
                                     /\ tail' # link'[u]
    <3>1. /\ Pushing(u)' \/ Taking(u)' => item'[u] \in Q
          /\ Serving(u)' => item'[u] \in Items \ Q
        BY <1>1, <1>4 DEF HandsStay, Orderly, Listed
    <3>2. ASSUME pc'[u] = "link"
          PROVE  /\ link'[u] \in Q /\ tail' # link'[u]
                 /\ next'[link'[u]] = NULL
      <4>1. u # t /\ pc[u] = "link"
          BY <1>3, <3>2
      <4>2. QED
          BY <4>1, <1>1 DEF Orderly, Listed
    <3>3. QED
        BY <3>1, <3>2
  <2>3. ASSUME NEW u \in Agents, NEW v \in Agents,
               pc'[u] = "link", pc'[v] = "link", link'[u] = link'[v]
        PROVE  u = v
      BY <2>3, <1>1, <1>3 DEF Orderly, Listed
  <2>4. QED
      BY <2>1, <2>2, <2>3 DEF Listed
<1>7. OneWay(Q)'
  <2>1. \A i \in Q : next'[i] = IF i = link[t] THEN item[t] ELSE next[i]
      BY <1>1
  <2>2. item[t] # head /\ \A i \in Q : next[i] # item[t]
      BY <1>1 DEF Orderly, OneWay
  <2>3. ASSUME NEW u \in Agents, Holding(u)'
        PROVE  item'[u] # head' /\ \A i \in Q : next'[i] # item'[u]
      BY <2>1, <2>3, <1>1, <1>5
  <2>4. ASSUME NEW i \in Q, next'[i] # NULL
        PROVE  next'[i] # head' /\ \A j \in Q : next'[j] = next'[i] => j = i
      BY <2>1, <2>2, <2>4, <1>1 DEF Orderly, OneWay
  <2>5. ASSUME NEW u \in Agents, NEW v \in Agents,
               Holding(u)', Holding(v)', item'[u] = item'[v]
        PROVE  u = v
      BY <2>5, <1>5 DEF Orderly, OneWay
  <2>6. QED
      BY <2>3, <2>4, <2>5 DEF OneWay
<1>8. Fresh(Q)' /\ Counted(Q)'
  <2>1. InsideStay
      BY <1>2, <1>3 DEF InsideStay, Inside, Agents, Places, Link, Waking
  <2>2. UNCHANGED <<count, frame>>
      BY DEF callVars
  <2>3. QED
      BY <1>4, <2>1, <2>2, CountStays, ServedStays DEF Orderly
<1>9. QED
    BY <1>6, <1>7, <1>8 DEF Orderly

\* The first item of an empty list is reached from its head.
LEMMA SetHeadStep ==
  ASSUME NEW Q \in SUBSET Items, Places, Fields, Orderly(Q), NEW t \in Agents,
         SetHead(t), UNCHANGED <<callVars, asyncs>>
  PROVE  Orderly(Q)'
<1>1. /\ pc[t] = "sethead" /\ item[t] \in Q /\ Holding(t)
      /\ head' = item[t]
      /\ UNCHANGED <<tail, next, item, link, ret>>
    BY DEF SetHead, Orderly, Listed, Pushing, Holding
<1>2. /\ t \in Clients /\ t \notin Workers /\ ret[t] \in {"idle", "invoke"}
      /\ pc' = [pc EXCEPT ![t] = "probe"]
    BY <1>1, RootAssumption DEF Places, Agents, WorkerPlaces, SetHead, Goto
<1>3. /\ \A u \in Agents \ {t} : pc'[u] = pc[u]
      /\ pc'[t] = "probe"
    BY <1>2 DEF Places
<1>4. HandsStay /\ ServesStay /\ ~Holding(t)'
    BY <1>1, <1>2, <1>3
       DEF HandsStay, ServesStay, Holding, Pushing, Taking, Serving, Agents,
           Waking
<1>5. ASSUME NEW u \in Agents, Holding(u)'
      PROVE  /\ u # t /\ Holding(u) /\ item'[u] = item[u]
             /\ item[u] # item[t]
             /\ \A i \in Q : next[i] # item[u]
  <2>1. u # t /\ Holding(u)
      BY <1>4, <1>5 DEF HandsStay, Holding
  <2>2. QED
      BY <2>1, <1>1 DEF Orderly, OneWay
<1>6. Listed(Q)'
  <2>1. ASSUME NEW u \in Agents
        PROVE  /\ Pushing(u)' \/ Taking(u)' => item'[u] \in Q
               /\ Serving(u)' => item'[u] \in Items \ Q
               /\ pc'[u] = "link" => pc[u] = "link"
      BY <1>1, <1>4 DEF HandsStay, Orderly, Listed
  <2>2. QED
      BY <2>1, <1>1 DEF Orderly, Listed
<1>7. OneWay(Q)'
  <2>1. \A i \in Q : next[i] # item[t]
      BY <1>1 DEF Orderly, OneWay
  <2>2. \A u, v \in Agents : Holding(u)' /\ Holding(v)' /\ item'[u] = item'[v]
          => u = v
      BY <1>5 DEF Orderly, OneWay
  <2>3. \A u \in Agents : Holding(u)' =>
          item'[u] # head' /\ \A i \in Q : next'[i] # item'[u]
      BY <1>1, <1>5
  <2>4. QED
      BY <2>1, <2>2, <2>3, <1>1 DEF Orderly, OneWay
<1>8. Fresh(Q)' /\ Counted(Q)'
  <2>1. InsideStay
      BY <1>1, <1>2, <1>3 DEF InsideStay, Inside, Agents, Waking
  <2>2. UNCHANGED <<count, frame>>
      BY DEF callVars
  <2>3. QED
      BY <1>4, <2>1, <2>2, CountStays, ServedStays DEF Orderly
<1>9. QED
    BY <1>6, <1>7, <1>8 DEF Orderly

\* The head goes into the hands of one worker.
LEMMA TakeHeadStep ==
  ASSUME NEW Q \in SUBSET Items, Places, Fields, Orderly(Q),
         NEW w \in Workers, TakeHead(w), head \in Items,
         UNCHANGED <<callVars, asyncs>>
  PROVE  Orderly(Q)'
<1>1. /\ w \in Agents /\ pc[w] = "drain" /\ head \in Q
      /\ head' = Mediator /\ Mediator \notin Items
      /\ item' = [item EXCEPT ![w] = head]
      /\ pc' = [pc EXCEPT ![w] = "successor"]
      /\ UNCHANGED <<tail, next, link, ret>>
    BY RootAssumption DEF TakeHead, Orderly, Listed, Agents, Goto
<1>2. /\ \A u \in Agents \ {w} : pc'[u] = pc[u] /\ item'[u] = item[u]
      /\ pc'[w] = "successor" /\ item'[w] = head
    BY <1>1 DEF Places, Fields
<1>3. /\ \A u \in Agents \ {w} :
           /\ Pushing(u)' <=> Pushing(u)
           /\ Taking(u)' <=> Taking(u)
           /\ Serving(u)' <=> Serving(u)
      /\ ~Pushing(w)' /\ ~Serving(w)' /\ ~Serving(w) /\ ~Holding(w)
    BY <1>1, <1>2 DEF Holding, Pushing, Taking, Serving, Waking
<1>4. Listed(Q)'
  <2>1. ASSUME NEW u \in Agents
        PROVE  /\ Pushing(u)' \/ Taking(u)' => item'[u] \in Q
               /\ Serving(u)' => item'[u] \in Items \ Q
               /\ pc'[u] = "link" => pc[u] = "link"
      BY <1>1, <1>2, <1>3 DEF Orderly, Listed
  <2>2. QED
      BY <2>1, <1>1 DEF Orderly, Listed
<1>5. OneWay(Q)'
  <2>1. ASSUME NEW u \in Agents, Holding(u)', u # w
        PROVE  /\ Holding(u) /\ item'[u] = item[u] /\ item[u] \in Items
               /\ item[u] # head /\ \A i \in Q : next[i] # item[u]
    <3>1. Holding(u) /\ item'[u] = item[u]
        BY <2>1, <1>2, <1>3 DEF Holding
    <3>2. item[u] \in Items
        BY <3>1 DEF Orderly, Listed, Holding
    <3>3. QED
        BY <3>1, <3>2 DEF Orderly, OneWay
  <2>2. \A i \in Q : next[i] # NULL => next[i] # head /\ next[i] \in Items
      BY DEF Orderly, OneWay, Listed
  <2>3. \A u \in Agents : Holding(u)' =>
          item'[u] # head' /\ \A i \in Q : next'[i] # item'[u]
    <3>1. \A i \in Q : next[i] # head
        BY <2>2, RootAssumption
    <3>2. QED
        BY <2>1, <3>1, <1>1, <1>2
  <2>4. \A u, v \in Agents : Holding(u)' /\ Holding(v)' /\ item'[u] = item'[v]
          => u = v
      BY <2>1, <1>2 DEF Orderly, OneWay
  <2>5. QED
      BY <2>2, <2>3, <2>4, <1>1 DEF Orderly, OneWay
<1>6. Fresh(Q)' /\ Counted(Q)'
  <2>1. InsideStay
    <3>1. \A c \in Clients : c \in Agents \ {w}
        BY RootAssumption DEF Agents
    <3>2. QED
        BY <3>1, <1>1, <1>2 DEF InsideStay, Inside
  <2>2. ServesStay
      BY <1>1, <1>2, <1>3 DEF ServesStay, Agents
  <2>3. UNCHANGED <<count, frame>>
      BY DEF callVars
  <2>4. QED
      BY <2>1, <2>2, <2>3, CountStays, ServedStays DEF Orderly
<1>7. QED
    BY <1>4, <1>5, <1>6 DEF Orderly

\* An item is taken off the list for good, and still in use.
LEMMA TakenStep ==
  ASSUME NEW Q \in SUBSET Items, Places, Fields, Orderly(Q),
         NEW w \in Workers, UNCHANGED <<callVars, asyncs>>,
         \/ TryTail(w) /\ tail = item[w]
         \/ Advance(w)
  PROVE  \E R \in SUBSET Items : Orderly(R)'
<1>1. /\ w \in Agents /\ pc[w] \in {"trytail", "advance"} /\ Taking(w)
      /\ \/ pc'[w] = "run" /\ ret' = ret
         \/ pc'[w] = "probe" /\ ret'[w] = "run"
      /\ \A t \in Agents \ {w} : pc'[t] = pc[t] /\ ret'[t] = ret[t]
      /\ UNCHANGED <<next, item, link>>
      /\ \/ tail = item[w] /\ tail' = NULL /\ head' = head
         \/ /\ next[item[w]] # NULL /\ tail' = tail
            /\ head' = next[item[w]]
    BY DEF TryTail, Advance, Goto, Call, Places, Agents, Taking
<1>2. PICK i \in Items : item[w] = i /\ i \in Q
    BY <1>1 DEF Orderly, Listed
<1>3. Serving(w)' /\ ~Pushing(w)' /\ ~Taking(w)' /\ ~Serving(w)
    BY <1>1 DEF Serving, Pushing, Taking, Waking
<1>4. Listed(Q \ {i})' /\ OneWay(Q \ {i})'
  <2>1. Listed(Q) /\ OneWay(Q)
      BY DEF Orderly
  <2>2. QED
      BY <1>1, <1>2, <1>3, <2>1, ListShrinks
<1>5. ASSUME NEW j \in Items
      PROVE  InUse(Q \ {i}, j)' <=> InUse(Q, j)
  <2>1. ASSUME NEW u \in Workers, u # w
        PROVE  (Serving(u)' <=> Serving(u)) /\ item'[u] = item[u]
      BY <2>1, <1>1 DEF Serving, Agents
  <2>2. item'[w] = i
      BY <1>1, <1>2
  <2>3. CASE j = i
      BY <2>2, <2>3, <1>2, <1>3 DEF InUse
  <2>4. CASE j # i
      BY <2>1, <2>2, <2>4, <1>2 DEF InUse
  <2>5. QED
      BY <2>3, <2>4
<1>6. InsideStay
  <2>1. \A c \in Clients : c # w /\ c \in Agents
      BY RootAssumption DEF Agents
  <2>2. QED
      BY <2>1, <1>1 DEF InsideStay, Inside
<1>7. Fresh(Q \ {i})' /\ Counted(Q \ {i})'
  <2>1. UNCHANGED <<count, frame>>
      BY DEF callVars
  <2>2. QED
      BY <1>5, <1>6, <2>1, CountStays DEF Orderly
<1>8. QED
    BY <1>4, <1>7 DEF Orderly

-----------------------------------------------------------------------------
(* Submitting and leaving                                                  *)

\* Items that are pushed come into use, and those alone.
LEMMA PushedUse ==
  ASSUME NEW Q \in SUBSET Items, NEW L \in SUBSET Items, ServesStay
  PROVE  \A i \in Items : InUse(Q \cup L, i)' <=> InUse(Q, i) \/ i \in L
  BY DEF ServesStay, InUse

\* dispatch_async() pushes one continuation.
LEMMA AsyncStep ==
  ASSUME NEW Q \in SUBSET Items, Places, Fields, Orderly(Q),
         NEW c \in Clients, NEW w \in Works, Async(c, w)
  PROVE  Orderly(Q \cup {w})'
<1>1. /\ pc[c] = "idle" /\ asyncs[w] = "free" /\ w \in Items
      /\ PushList(c, <<w>>, "idle")
      /\ asyncs' = [asyncs EXCEPT ![w] = "pushed"]
      /\ UNCHANGED callVars
    BY ApplyAssumption DEF Async
<1>2. /\ next' = [i \in Items |-> IF i = w THEN NULL ELSE next[i]]
      /\ tail' = w /\ item' = [item EXCEPT ![c] = w]
    BY <1>1, PushOne
<1>3. /\ head' = head /\ link' = [link EXCEPT ![c] = tail]
      /\ ret' = [ret EXCEPT ![c] = "idle"]
      /\ pc' = [pc EXCEPT ![c] = IF tail = NULL THEN "sethead" ELSE "link"]
    BY <1>1 DEF PushList, Goto
<1>4. ~InUse(Q, w)
    BY <1>1 DEF Orderly, Fresh
<1>5. Listed(Q \cup {w})' /\ OneWay(Q \cup {w})'
  <2>1. Listed(Q) /\ OneWay(Q)
      BY DEF Orderly
  <2>2. /\ {w} \in SUBSET Items /\ w \in {w}
        /\ \A i \in {w} : ~InUse(Q, i)
        /\ \A i \in Items \ {w} : next'[i] = next[i]
        /\ \A i \in {w} : next'[i] \in {w} \cup {NULL} /\ next'[i] # w
        /\ \A i, j \in {w} : next'[i] = next'[j] /\ next'[i] # NULL => i = j
        /\ next'[w] = NULL
      BY <1>1, <1>2, <1>4, RootAssumption
  <2>3. QED
      BY <1>1, <1>2, <1>3, <2>1, <2>2, ListGrows
<1>6. CallersStay
    BY RootKeepsCalls
<1>7. ServesStay
  <2>1. \A u \in Workers : /\ u # c /\ pc'[u] = pc[u] /\ ret'[u] = ret[u]
                           /\ item'[u] = item[u]
      BY <1>2, <1>3, RootAssumption DEF Places, Fields, Agents
  <2>2. QED
      BY <2>1 DEF ServesStay, Serving
<1>8. \A i \in Items : InUse(Q \cup {w}, i)' <=> InUse(Q, i) \/ i = w
  <2>1. {w} \in SUBSET Items
      BY <1>1
  <2>2. \A i \in Items : InUse(Q \cup {w}, i)' <=> InUse(Q, i) \/ i \in {w}
      BY <1>7, <2>1, PushedUse
  <2>3. QED
      BY <2>2
<1>9. Fresh(Q \cup {w})'
  <2>1. ASSUME NEW v \in Works, InUse(Q \cup {w}, v)'
        PROVE  asyncs'[v] # "free"
    <3>1. v \in Items
        BY ApplyAssumption
    <3>2. v = w \/ InUse(Q, v)
        BY <2>1, <3>1, <1>8
    <3>3. QED
        BY <3>2, <1>1 DEF Orderly, Fresh, Fields
  <2>2. ASSUME NEW d \in Clients, NEW n \in 1 .. Cpus - 1,
               InUse(Q \cup {w}, <<d, n>>)'
        PROVE  frame'[d] # "none" /\ n < Threads(d)
    <3>1. <<d, n>> \in Items /\ <<d, n>> # w
        BY ApplyAssumption
    <3>2. InUse(Q, <<d, n>>)
        BY <2>2, <3>1, <1>8
    <3>3. QED
        BY <3>2, <1>1 DEF Orderly, Fresh, callVars
  <2>3. QED
      BY <2>1, <2>2 DEF Fresh
<1>10. Counted(Q \cup {w})'
  <2>1. \A i \in Items \ Works : InUse(Q \cup {w}, i)' <=> InUse(Q, i)
      BY <1>8
  <2>2. UNCHANGED count
      BY <1>1 DEF callVars
  <2>3. QED
      BY <1>1, <1>6, <2>1, <2>2, KeepsInside, CountedStays DEF Orderly
<1>11. QED
    BY <1>5, <1>9, <1>10 DEF Orderly

\* dispatch_apply() pushes one record for every thread but the caller.
LEMMA ApplyStep ==
  ASSUME NEW Q \in SUBSET Items, Places, Fields, Calls, Orderly(Q),
         NEW c \in Clients, Apply(c)
  PROVE  \E R \in SUBSET Items : Orderly(R)'
<1>1. /\ pc[c] = "idle" /\ frame[c] = "none"
      /\ frame' = [frame EXCEPT ![c] = "live"]
      /\ count' = [count EXCEPT ![c] = Threads(c)]
      /\ head' = head /\ link' = [link EXCEPT ![c] = tail]
      /\ ret' = [ret EXCEPT ![c] = "invoke"]
      /\ pc' = [pc EXCEPT ![c] = IF tail = NULL THEN "sethead" ELSE "link"]
      /\ asyncs' = asyncs
  <2> HIDE DEF Threads
  <2>1. QED
      BY DEF Apply, PushList, Goto
<1>2. PICK last \in 1 .. Cpus - 1 :
         /\ last = Threads(c) - 1
         /\ next' \in [Items -> Items \cup {NULL}]
         /\ \A n \in 1 .. last - 1 : next'[<<c, n>>] = <<c, n + 1>>
         /\ next'[<<c, last>>] = NULL
         /\ \A i \in Items : (\A n \in 1 .. last : i # <<c, n>>) =>
              next'[i] = next[i]
         /\ tail' = <<c, last>> /\ item' = [item EXCEPT ![c] = <<c, 1>>]
         /\ \A n \in 1 .. last : <<c, n>> \in Items
    BY ApplyPushes
<1> DEFINE L == {<<c, n>> : n \in 1 .. last}
<1>3. /\ last \in Nat \ {0} /\ 1 \in 1 .. last /\ last \in 1 .. last
      /\ Threads(c) = last + 1
  <2>1. Threads(c) \in Int /\ Cpus \in Nat
      BY ApplyAssumption DEF Threads
  <2>2. QED
      BY <1>2, <2>1
<1>4. \A n \in 1 .. Cpus - 1 : ~InUse(Q, <<c, n>>)
    BY <1>1 DEF Orderly, Fresh
<1>5. Listed(Q \cup L)' /\ OneWay(Q \cup L)'
  <2>1. Listed(Q) /\ OneWay(Q)
      BY DEF Orderly
  <2>2. /\ L \in SUBSET Items /\ <<c, 1>> \in L /\ <<c, last>> \in L
        /\ \A i \in L : ~InUse(Q, i)
        /\ \A i \in Items \ L : next'[i] = next[i]
    <3>1. \A i \in L : ~InUse(Q, i)
      <4>1. \A n \in 1 .. last : n \in 1 .. Cpus - 1
          BY ApplyAssumption
      <4>2. QED
          BY <4>1, <1>4
    <3>2. QED
        BY <1>2, <1>3, <3>1
  <2>3. ASSUME NEW n \in 1 .. last
        PROVE  \/ n = last /\ next'[<<c, n>>] = NULL
               \/ /\ n < last /\ n + 1 \in 1 .. last
                  /\ next'[<<c, n>>] = <<c, n + 1>>
    <3>1. CASE n = last
        BY <3>1, <1>2
    <3>2. CASE n # last
      <4>1. n \in 1 .. last - 1 /\ n < last /\ n + 1 \in 1 .. last
          BY <3>2, <1>3
      <4>2. QED
          BY <4>1, <1>2
    <3>3. QED
        BY <3>1, <3>2
  <2>4. NULL \notin L
      BY <2>2, RootAssumption
  <2>5. \A i \in L : next'[i] \in L \cup {NULL} /\ next'[i] # <<c, 1>>
    <3>1. ASSUME NEW n \in 1 .. last
          PROVE  /\ next'[<<c, n>>] \in L \cup {NULL}
                 /\ next'[<<c, n>>] # <<c, 1>>
      <4>1. NULL # <<c, 1>>
          BY <2>2, <2>4
      <4>2. QED
          BY <2>3, <4>1
    <3>2. QED
        BY <3>1
  <2>6. \A i, j \in L : next'[i] = next'[j] /\ next'[i] # NULL => i = j
    <3>1. ASSUME NEW m \in 1 .. last, NEW n \in 1 .. last,
                 next'[<<c, m>>] = next'[<<c, n>>],
                 next'[<<c, m>>] # NULL
          PROVE  m = n
      <4>1. <<c, m + 1>> = <<c, n + 1>>
          BY <2>3, <3>1
      <4>2. m + 1 = n + 1
          BY <4>1
      <4>3. QED
          BY <4>2
    <3>2. QED
        BY <3>1
  <2> HIDE DEF L
  <2>7. QED
      BY <1>1, <1>2, <2>1, <2>2, <2>5, <2>6, ListGrows
<1>6. /\ \A t \in Agents \ {c} :
           pc'[t] = pc[t] /\ ret'[t] = ret[t] /\ item'[t] = item[t]
      /\ pc'[c] \in {"sethead", "link"} /\ ret'[c] = "invoke"
      /\ c \in Agents /\ \A w \in Workers : w \in Agents \ {c}
    BY <1>1, <1>2, RootAssumption DEF Places, Fields, Agents
<1>7. ServesStay
    BY <1>6 DEF ServesStay, Serving
<1>8. L \in SUBSET Items
    BY <1>2
<1>9. \A i \in Items : InUse(Q \cup L, i)' <=> InUse(Q, i) \/ i \in L
  <2> HIDE DEF L
  <2>1. QED
      BY <1>7, <1>8, PushedUse
<1>10. \A d \in Clients, n \in 1 .. Cpus - 1 :
          /\ <<d, n>> \in Items /\ <<d, n>> \notin Works
          /\ <<d, n>> \in L <=> d = c /\ n <= last
  <2>1. ASSUME NEW d \in Clients, NEW n \in 1 .. Cpus - 1
        PROVE  <<d, n>> \in L <=> d = c /\ n <= last
    <3>1. ASSUME <<d, n>> \in L  PROVE d = c /\ n <= last
      <4>1. PICK m \in 1 .. last : <<d, n>> = <<c, m>>
          BY <3>1
      <4>2. d = c /\ n = m
          BY <4>1
      <4>3. QED
          BY <4>2, <1>3
    <3>2. ASSUME d = c, n <= last  PROVE <<d, n>> \in L
      <4>1. n \in 1 .. last
          BY <3>2, <1>3, ApplyAssumption
      <4>2. QED
          BY <3>2, <4>1
    <3>3. QED
        BY <3>1, <3>2
  <2>2. \A d \in Clients, n \in 1 .. Cpus - 1 :
           <<d, n>> \in Items /\ <<d, n>> \notin Works
      BY ApplyAssumption
  <2> HIDE DEF L
  <2>3. QED
      BY <2>1, <2>2
<1>11. \A d \in Clients : d # c => frame'[d] = frame[d]
         /\ count'[d] = count[d]
    BY <1>1 DEF Fields
<1>12. frame'[c] = "live" /\ count'[c] = last + 1
    BY <1>1, <1>3 DEF Fields
<1>13. \A w \in Works : w \in Items /\ w \notin L
  <2>1. \A n \in 1 .. last : <<c, n>> \in Clients \X (1 .. Cpus - 1)
      BY ApplyAssumption
  <2>2. QED
      BY <2>1, ApplyAssumption
<1> HIDE DEF L
<1>14. Fresh(Q \cup L)'
  <2>1. \A w \in Works : InUse(Q \cup L, w)' => asyncs'[w] # "free"
      BY <1>1, <1>9, <1>13 DEF Orderly, Fresh
  <2>2. ASSUME NEW d \in Clients, NEW n \in 1 .. Cpus - 1,
               InUse(Q \cup L, <<d, n>>)'
        PROVE  frame'[d] # "none" /\ n < Threads(d)
    <3>1. InUse(Q, <<d, n>>) \/ (d = c /\ n <= last)
        BY <2>2, <1>9, <1>10
    <3>2. CASE d = c
      <4>1. n <= last
          BY <3>1, <3>2, <1>4
      <4>2. QED
          BY <3>2, <4>1, <1>3, <1>12, ApplyAssumption
    <3>3. CASE d # c
        BY <3>1, <3>3, <1>11 DEF Orderly, Fresh
    <3>4. QED
        BY <3>2, <3>3
  <2>3. QED
      BY <2>1, <2>2 DEF Fresh
<1>15. Counted(Q \cup L)'
  <2>1. ASSUME NEW d \in Clients, d # c
        PROVE  count'[d] = Cardinality(Remaining(Q \cup L, d)')
                             + (IF Inside(d)' THEN 1 ELSE 0)
    <3>1. Remaining(Q \cup L, d)' = Remaining(Q, d)
        BY <2>1, <1>9, <1>10 DEF Remaining
    <3>2. Inside(d)' <=> Inside(d)
        BY <2>1, <1>6 DEF Inside, Agents
    <3>3. QED
        BY <2>1, <3>1, <3>2, <1>11 DEF Orderly, Counted
  <2>2. count'[c] = Cardinality(Remaining(Q \cup L, c)')
                      + (IF Inside(c)' THEN 1 ELSE 0)
    <3>1. Remaining(Q \cup L, c)' = 1 .. last
      <4>1. \A n \in 1 .. Cpus - 1 : InUse(Q \cup L, <<c, n>>)' <=> n <= last
          BY <1>4, <1>9, <1>10
      <4>2. Remaining(Q \cup L, c)' = {n \in 1 .. Cpus - 1 : n <= last}
          BY <4>1 DEF Remaining
      <4>3. {n \in 1 .. Cpus - 1 : n <= last} = 1 .. last
          BY <1>3, ApplyAssumption
      <4>4. QED
          BY <4>2, <4>3
    <3>2. Cardinality(1 .. last) = last
      <4>1. Cardinality(1 .. last) = IF 1 > last THEN 0 ELSE last - 1 + 1
          BY <1>3, FS_Interval
      <4>2. QED
          BY <4>1, <1>3
    <3>3. Inside(c)'
        BY <1>6 DEF Inside
    <3>4. QED
        BY <3>1, <3>2, <3>3, <1>12
  <2>3. QED
      BY <2>1, <2>2 DEF Counted
<1>16. QED
    BY <1>5, <1>8, <1>14, <1>15 DEF Orderly

\* A worker that has run a block has it no longer, and nobody else does.
LEMMA RunAsyncStep ==
  ASSUME NEW Q \in SUBSET Items, Places, Fields, Orderly(Q),
         NEW w \in Workers, RunAsync(w)
  PROVE  Orderly(Q)'
<1>1. /\ w \in Agents /\ pc[w] = "run" /\ item[w] \in Works
      /\ asyncs' = [asyncs EXCEPT ![item[w]] = "done"]
      /\ pc' = [pc EXCEPT ![w] = "drain"]
      /\ UNCHANGED <<tail, head, next, item, link, ret, frame, count>>
    BY DEF RunAsync, Goto, Agents, listVars, callVars
<1>2. pc'[w] = "drain" /\ \A u \in Agents \ {w} : pc'[u] = pc[u]
    BY <1>1 DEF Places
<1>3. /\ HandsStay /\ ~Serving(w)'
      /\ \A u \in Workers \ {w} : Serving(u)' <=> Serving(u)
    BY <1>1, <1>2 DEF HandsStay, Holding, Pushing, Taking, Serving, Agents,
                      Waking
<1>4. Listed(Q)' /\ OneWay(Q)'
    BY <1>1, <1>3, ListStays DEF Orderly
<1>5. InsideStay
  <2>1. \A c \in Clients : c \in Agents \ {w}
      BY RootAssumption DEF Agents
  <2>2. QED
      BY <1>1, <1>2, <2>1 DEF InsideStay, Inside
<1>6. /\ \A i \in Items : InUse(Q, i)' => InUse(Q, i)
      /\ \A i \in Items \ Works : InUse(Q, i)' <=> InUse(Q, i)
    BY <1>1, <1>3 DEF InUse
<1>7. \A v \in Works : asyncs'[v] = "free" => asyncs[v] = "free"
    BY <1>1 DEF Fields
<1>8. Fresh(Q)' /\ Counted(Q)'
    BY <1>1, <1>5, <1>6, <1>7, FreshStays, CountedStays DEF Orderly
<1>9. QED
    BY <1>4, <1>8 DEF Orderly

\* Whoever leaves is counted once, and from then on no more.
LEMMA LeaveStep ==
  ASSUME NEW Q \in SUBSET Items, Places, Fields, Calls, Orderly(Q),
         NEW t \in Agents, Leave(t)
  PROVE  Orderly(Q)'
<1>1. PICK c \in Clients : c = Caller(t) /\ count[c] \in Int
    BY Participants DEF Orderly, Leave, Fields
<1>2. /\ pc[t] = "leave" /\ count' = [count EXCEPT ![c] = @ - 1]
      /\ pc'[t] \in {"signal", "join", "drain"}
      /\ t \in Workers => pc'[t] # "join"
      /\ \A u \in Agents \ {t} : pc'[u] = pc[u]
      /\ UNCHANGED <<tail, head, next, item, link, ret, frame, asyncs>>
    BY <1>1, RootAssumption
       DEF Leave, Goto, AfterInvoke, Places, Agents, listVars
<1>3. /\ HandsStay /\ ~Serving(t)'
      /\ \A u \in Workers \ {t} : Serving(u)' <=> Serving(u)
    BY <1>2 DEF HandsStay, Holding, Pushing, Taking, Serving, Agents, Waking
<1>4. Listed(Q)' /\ OneWay(Q)'
    BY <1>2, <1>3, ListStays DEF Orderly
<1>5. \A i \in Items : InUse(Q, i)' => InUse(Q, i)
    BY <1>2, <1>3 DEF InUse
<1>6. Fresh(Q)'
    BY <1>2, <1>5, FreshStays DEF Orderly
<1>7. \A d \in Clients : count'[d] = IF d = c THEN count[d] - 1 ELSE count[d]
    BY <1>1, <1>2 DEF Fields
<1>8. CASE t \in Clients
  <2>1. t = c /\ t \notin Workers
      BY <1>1, <1>8, RootAssumption DEF Caller
  <2>2. \A d \in Clients : Remaining(Q, d)' = Remaining(Q, d)
      BY <1>2, <1>3, <2>1 DEF Remaining, InUse
  <2>3. /\ Inside(c) /\ ~Inside(c)'
        /\ \A d \in Clients \ {c} : Inside(d)' <=> Inside(d)
      BY <1>2, <2>1 DEF Inside, Agents, Waking
  <2>4. \A d \in Clients : Cardinality(Remaining(Q, d)) \in Nat
      BY RemainingFinite
  <2>5. Counted(Q)'
    <3>1. ASSUME NEW d \in Clients
          PROVE  count'[d] = Cardinality(Remaining(Q, d)')
                               + (IF Inside(d)' THEN 1 ELSE 0)
      <4>1. count[d] = Cardinality(Remaining(Q, d))
                         + (IF Inside(d) THEN 1 ELSE 0)
          BY DEF Orderly, Counted
      <4>2. QED
          BY <4>1, <2>2, <2>3, <2>4, <1>7
    <3>2. QED
        BY <3>1 DEF Counted
  <2>6. QED
      BY <1>4, <1>6, <2>5 DEF Orderly
<1>9. CASE t \in Workers
  <2>1. PICK n \in 1 .. Cpus - 1 : item[t] = <<c, n>>
      BY <1>1, <1>2, <1>9, RootAssumption DEF Caller, Calls
  <2>2. Serving(t) /\ <<c, n>> \notin Q /\ t \in Agents
      BY <1>2, <1>9, <2>1 DEF Serving, Orderly, Listed
  <2>3. \A u \in Agents \ {t} : Holding(u) => item[u] # <<c, n>>
      BY <2>1, <2>2 DEF Orderly, OneWay, Holding
  <2>4. InUse(Q, <<c, n>>) /\ ~InUse(Q, <<c, n>>)'
    <3>1. InUse(Q, <<c, n>>)
        BY <1>9, <2>1, <2>2 DEF InUse
    <3>2. \A u \in Workers : Serving(u)' => item'[u] # <<c, n>>
        BY <1>2, <1>3, <2>3 DEF Holding, Agents
    <3>3. QED
        BY <2>2, <3>1, <3>2 DEF InUse
  <2>5. \A i \in Items : i # <<c, n>> => (InUse(Q, i)' <=> InUse(Q, i))
      BY <1>2, <1>3, <2>1 DEF InUse
  <2>6. \A d \in Clients, m \in 1 .. Cpus - 1 :
           <<d, m>> \in Items /\ (<<d, m>> = <<c, n>> => d = c /\ m = n)
      BY ApplyAssumption
  <2>7. /\ Remaining(Q, c)' = Remaining(Q, c) \ {n} /\ n \in Remaining(Q, c)
        /\ \A d \in Clients : d # c => Remaining(Q, d)' = Remaining(Q, d)
    <3>1. n \in Remaining(Q, c) /\ n \notin Remaining(Q, c)'
        BY <2>4 DEF Remaining
    <3>2. ASSUME NEW d \in Clients, NEW m \in 1 .. Cpus - 1,
                 d # c \/ m # n
          PROVE  m \in Remaining(Q, d)' <=> m \in Remaining(Q, d)
        BY <3>2, <2>5, <2>6 DEF Remaining
    <3>3. \A d \in Clients : /\ Remaining(Q, d)' \subseteq 1 .. Cpus - 1
                             /\ Remaining(Q, d) \subseteq 1 .. Cpus - 1
        BY DEF Remaining
    <3>4. QED
        BY <3>1, <3>2, <3>3
  <2>8. /\ IsFiniteSet(Remaining(Q, c))
        /\ Cardinality(Remaining(Q, c)) \in Nat
      BY RemainingFinite
  <2>9. Cardinality(Remaining(Q, c) \ {n}) = Cardinality(Remaining(Q, c)) - 1
      BY <2>7, <2>8, FS_RemoveElement
  <2>10. InsideStay
    <3>1. \A d \in Clients : d \in Agents \ {t}
        BY <1>9, RootAssumption DEF Agents
    <3>2. QED
        BY <1>2, <3>1 DEF InsideStay, Inside
  <2>11. Counted(Q)'
    <3>1. ASSUME NEW d \in Clients
          PROVE  count'[d] = Cardinality(Remaining(Q, d)')
                               + (IF Inside(d)' THEN 1 ELSE 0)
      <4>1. count[d] = Cardinality(Remaining(Q, d))
                         + (IF Inside(d) THEN 1 ELSE 0)
          BY DEF Orderly, Counted
      <4>2. CASE d = c
          BY <4>1, <4>2, <2>7, <2>8, <2>9, <2>10, <1>7 DEF InsideStay
      <4>3. CASE d # c
          BY <4>1, <4>3, <2>7, <2>10, <1>7 DEF InsideStay
      <4>4. QED
          BY <4>2, <4>3
    <3>2. QED
        BY <3>1 DEF Counted
  <2>12. QED
      BY <1>4, <1>6, <2>11 DEF Orderly
<1>10. QED
    BY <1>8, <1>9 DEF Agents

-----------------------------------------------------------------------------
(* The invariant and what follows from it                                  *)

\* After every step there is a list in order, with the counts to match: the
\* same one, or with what was pushed, or without what was taken.
LEMMA StepOrderly ==
  ASSUME NEW Q \in SUBSET Items, Places, Fields, Calls, Orderly(Q),
         [Next]_applyVars
  PROVE  \E R \in SUBSET Items : Orderly(R)'
<1>1. ASSUME NEW c \in Clients, Apply(c)
      PROVE  \E R \in SUBSET Items : Orderly(R)'
    BY <1>1, ApplyStep
<1>2. ASSUME NEW c \in Clients, NEW w \in Works, Async(c, w)
      PROVE  \E R \in SUBSET Items : Orderly(R)'
  <2>1. Q \cup {w} \in SUBSET Items
      BY ApplyAssumption
  <2>2. QED
      BY <1>2, <2>1, AsyncStep
<1>3. ASSUME NEW t \in Agents, Link(t) /\ UNCHANGED <<callVars, asyncs>>
      PROVE  \E R \in SUBSET Items : Orderly(R)'
    BY <1>3, LinkStep
<1>4. ASSUME NEW t \in Agents, SetHead(t) /\ UNCHANGED <<callVars, asyncs>>
      PROVE  \E R \in SUBSET Items : Orderly(R)'
    BY <1>4, SetHeadStep
<1>5. ASSUME MovesNothing, UNCHANGED <<callVars, asyncs>>
      PROVE  \E R \in SUBSET Items : Orderly(R)'
    BY <1>5, MovesNothingStep
<1>6. ASSUME NEW t \in Workers, TakeHead(t), head \in Items,
             UNCHANGED <<callVars, asyncs>>
      PROVE  \E R \in SUBSET Items : Orderly(R)'
    BY <1>6, TakeHeadStep
<1>7. ASSUME NEW t \in Workers, TryTail(t), tail = item[t],
             UNCHANGED <<callVars, asyncs>>
      PROVE  \E R \in SUBSET Items : Orderly(R)'
    BY <1>7, TakenStep
<1>8. ASSUME NEW t \in Workers, Advance(t), UNCHANGED <<callVars, asyncs>>
      PROVE  \E R \in SUBSET Items : Orderly(R)'
    BY <1>8, TakenStep
<1>9. ASSUME NEW t \in Workers, RunAsync(t)
      PROVE  \E R \in SUBSET Items : Orderly(R)'
    BY <1>9, RunAsyncStep
<1>10. ASSUME NEW t \in Workers, RunRecord(t)
      PROVE  \E R \in SUBSET Items : Orderly(R)'
  <2>1. /\ HandsStay /\ ServesStay /\ InsideStay
      BY <1>10, RootAssumption
         DEF RunRecord, HandsStay, ServesStay, InsideStay, Holding, Pushing,
             Taking, Serving, Inside, Places, Agents, Goto, AfterInvoke,
             Waking, ClientPlaces, WorkerPlaces
  <2>2. /\ UNCHANGED <<next, tail, head, count, asyncs>>
        /\ \A c \in Clients : frame'[c] = "none" => frame[c] = "none"
      BY <1>10 DEF RunRecord, listVars, callVars, Fields
  <2>3. QED
      BY <2>1, <2>2, StaysOrderly
<1>11. ASSUME NEW t \in Agents, Draw(t)
      PROVE  \E R \in SUBSET Items : Orderly(R)'
  <2>1. /\ HandsStay /\ ServesStay /\ InsideStay
      BY <1>11, RootAssumption
         DEF Draw, HandsStay, ServesStay, InsideStay, Holding, Pushing,
             Taking, Serving, Inside, Places, Agents, Goto, AfterInvoke,
             Waking, ClientPlaces, WorkerPlaces
  <2>2. /\ UNCHANGED <<next, tail, head, count, asyncs>>
        /\ \A c \in Clients : frame'[c] = "none" => frame[c] = "none"
      BY <1>11 DEF Draw, listVars, callVars, Fields
  <2>3. QED
      BY <2>1, <2>2, StaysOrderly
<1>12. ASSUME NEW t \in Agents, Leave(t)
      PROVE  \E R \in SUBSET Items : Orderly(R)'
    BY <1>12, LeaveStep
<1>13. ASSUME NEW t \in Agents, SignalCaller(t)
      PROVE  \E R \in SUBSET Items : Orderly(R)'
  <2>1. /\ HandsStay /\ ServesStay /\ InsideStay
      BY <1>13, RootAssumption
         DEF SignalCaller, HandsStay, ServesStay, InsideStay, Holding,
             Pushing, Taking, Serving, Inside, Places, Agents, Goto,
             AfterInvoke, Waking, ClientPlaces, WorkerPlaces
  <2>2. /\ UNCHANGED <<next, tail, head, count, asyncs>>
        /\ \A c \in Clients : frame'[c] = "none" => frame[c] = "none"
      BY <1>13 DEF SignalCaller, listVars, callVars, Fields
  <2>3. QED
      BY <2>1, <2>2, StaysOrderly
<1>14. ASSUME NEW c \in Clients, Join(c)
      PROVE  \E R \in SUBSET Items : Orderly(R)'
  <2>1. /\ HandsStay /\ ServesStay /\ InsideStay
      BY <1>14, RootAssumption
         DEF Join, HandsStay, ServesStay, InsideStay, Holding, Pushing,
             Taking, Serving, Inside, Places, Agents, Goto, Waking,
             ClientPlaces, WorkerPlaces
  <2>2. /\ UNCHANGED <<next, tail, head, count, asyncs>>
        /\ \A d \in Clients : frame'[d] = "none" => frame[d] = "none"
      BY <1>14 DEF Join, listVars, Fields
  <2>3. QED
      BY <2>1, <2>2, StaysOrderly
<1>15. CASE UNCHANGED applyVars
  <2>1. HandsStay /\ ServesStay /\ InsideStay
      BY <1>15
         DEF applyVars, rootVars, HandsStay, ServesStay, InsideStay,
             Holding, Pushing, Taking, Serving, Inside
  <2>2. UNCHANGED <<next, tail, head, count, frame, asyncs>>
      BY <1>15 DEF applyVars, rootVars, listVars, callVars
  <2>3. QED
      BY <2>1, <2>2, StaysOrderly
<1>16. ASSUME NEW t \in Agents, RootStep(t), UNCHANGED <<callVars, asyncs>>
      PROVE  \E R \in SUBSET Items : Orderly(R)'
    BY <1>3, <1>4, <1>5, <1>6, <1>7, <1>8, <1>16 DEF RootStep, MovesNothing
<1>17. ASSUME NEW w \in Workers, Kernel(w)
      PROVE  \E R \in SUBSET Items : Orderly(R)'
    BY <1>5, <1>17 DEF Kernel, MovesNothing
<1>18. QED
    BY <1>1, <1>2, <1>9, <1>10, <1>11, <1>12, <1>13, <1>14, <1>15, <1>16,
       <1>17
       DEF Next, Begin, Continue, InvokeStep

\* At first the list is empty.
LEMMA InitIInv == Init => IInv
<1> SUFFICES ASSUME Init  PROVE IInv
    OBVIOUS
<1> USE DEF Init, RootInit
<1>1. Places /\ Fields
    BY RootAssumption DEF Places, Fields, ClientPlaces, WorkerPlaces, Waking,
                          Agents
<1>2. \A t \in Agents : pc[t] \in {"idle", "gone"} /\ ~Holding(t)
    BY DEF Holding, Pushing, Taking, Serving, Waking
<1>3. \A c \in Clients : ~Inside(c) /\ pc[c] = "idle"
    BY <1>1, RootAssumption DEF Inside, Waking, Agents
<1>4. Calls
    BY <1>2, <1>3 DEF Calls, Agents
<1>5. Drawn
  <2>1. \A c \in Clients : \A n \in 0 .. Iterations[c] - 1 :
           (IF n < 0 THEN 1 ELSE 0) = 0
      BY ApplyAssumption
  <2>2. QED
      BY <2>1 DEF Drawn
<1>6. Listed({}) /\ OneWay({})
    BY <1>2, RootAssumption DEF Listed, OneWay, Holding
<1>7. \A i : ~InUse({}, i)
    BY <1>2 DEF InUse, Holding, Agents
<1>8. Fresh({}) /\ Counted({})
  <2>1. Fresh({})
      BY <1>7 DEF Fresh
  <2>2. ASSUME NEW c \in Clients
        PROVE  count[c] = Cardinality(Remaining({}, c))
                            + (IF Inside(c) THEN 1 ELSE 0)
    <3>1. Remaining({}, c) = {}
        BY <1>7 DEF Remaining
    <3>2. Cardinality(Remaining({}, c)) = Cardinality({})
        BY <3>1, Zenon
    <3>3. Cardinality({}) = 0
        BY FS_EmptySet
    <3>4. ~Inside(c) /\ count[c] = 0
        BY <1>3
    <3> HIDE DEF Init, RootInit
    <3>5. QED
        BY <3>2, <3>3, <3>4
  <2>3. QED
      BY <2>1, <2>2 DEF Counted
<1>9. QED
    BY <1>1, <1>4, <1>5, <1>6, <1>8 DEF IInv, Orderly

\* The inductive invariant holds in every reachable state: the items pushed to
\* the root queue are each reached in one way only, from the head, the thread
\* that takes them off or the one that has still to link them, and da_thr_cnt
\* counts exactly the threads and records that have still to leave the call
\* (_dispatch_queue_concurrent_drain_one(), _dispatch_apply_invoke()).
THEOREM ApplyInvariant == Spec => []IInv
<1>1. IInv /\ [Next]_applyVars => IInv'
  <2>1. ASSUME IInv, [Next]_applyVars  PROVE IInv'
    <3>1. PICK Q \in SUBSET Items : Orderly(Q)
        BY <2>1 DEF IInv
    <3>2. Places /\ Fields /\ Calls /\ Drawn
        BY <2>1 DEF IInv
    <3>3. \A t \in Agents : Taking(t) => item[t] \in Items
        BY <3>1 DEF Orderly, Listed
    <3>4. Places' /\ Fields'
        BY <2>1, <3>2, <3>3, StepPlaces, StepFields
    <3>5. Calls' /\ Drawn'
        BY <2>1, <3>1, <3>2, StepCalls, StepDrawn DEF Orderly
    <3>6. \E R \in SUBSET Items : Orderly(R)'
        BY <2>1, <3>1, <3>2, StepOrderly
    <3>7. QED
        BY <3>4, <3>5, <3>6 DEF IInv
  <2>2. QED
      BY <2>1
<1>2. QED
    BY InitIInv, <1>1, PTL DEF Spec

\* Once the caller has returned every record has been given back.
LEMMA IInvApplied == IInv => AppliedOnce
<1> SUFFICES ASSUME IInv, NEW c \in Clients
             PROVE  /\ \A n \in DOMAIN ran[c] : ran[c][n] <= 1
                    /\ Returned(c) =>
                         /\ \A n \in DOMAIN ran[c] : ran[c][n] = 1
                         /\ ~\E t \in Agents : \E i \in Touches(t) :
                               i \notin Works /\ i[1] = c
    BY DEF AppliedOnce
<1>1. PICK Q \in SUBSET Items : Orderly(Q)
    BY DEF IInv
<1>2. Places /\ Fields /\ Calls /\ Drawn
    BY DEF IInv
<1>3. ran[c] = [n \in 0 .. Iterations[c] - 1 |->
                  IF n < index[c] THEN 1 ELSE 0]
    BY <1>2 DEF Drawn
<1>4. \A n \in DOMAIN ran[c] : ran[c][n] <= 1
    BY <1>3
<1>5. ASSUME Returned(c)
      PROVE  /\ \A n \in DOMAIN ran[c] : ran[c][n] = 1
             /\ ~\E t \in Agents : \E i \in Touches(t) :
                   i \notin Works /\ i[1] = c
  <2>1. /\ frame[c] = "gone" /\ count[c] = 0
        /\ Cardinality(Remaining(Q, c)) \in Nat
        /\ IsFiniteSet(Remaining(Q, c))
      BY <1>2, <1>5, RemainingFinite DEF Returned, Calls
  <2>2. ~Inside(c) /\ Cardinality(Remaining(Q, c)) = 0
    <3>1. count[c] = Cardinality(Remaining(Q, c))
                       + (IF Inside(c) THEN 1 ELSE 0)
        BY <1>1 DEF Orderly, Counted
    <3>2. QED
        BY <2>1, <3>1
  <2>3. Remaining(Q, c) = {}
      BY <2>1, <2>2, FS_EmptySet
  <2>4. index[c] >= Iterations[c]
      BY <1>2, <2>1, <2>2 DEF Calls
  <2>5. \A n \in DOMAIN ran[c] : ran[c][n] = 1
    <3>1. \A n \in 0 .. Iterations[c] - 1 : n < index[c]
        BY <2>4, <1>2, ApplyAssumption DEF Fields
    <3>2. QED
        BY <3>1, <1>3
  <2>6. ASSUME NEW t \in Agents, NEW i \in Touches(t)
        PROVE  InUse(Q, i) /\ i \in Items
    <3>1. CASE pc[t] = "link"
        BY <3>1, <2>6, <1>1 DEF Touches, InUse, Orderly, Listed
    <3>2. CASE pc[t] \in {"successor", "trytail", "advance"}
        BY <3>2, <2>6, <1>1 DEF Touches, InUse, Orderly, Listed, Taking
    <3>3. CASE pc[t] \in {"run", "invoke", "leave"}
      <4>1. t \in Workers /\ i = item[t]
          BY <3>3, <2>6, <1>2 DEF Touches, Places, ClientPlaces, Agents
      <4>2. Serving(t)
          BY <3>3, <4>1 DEF Serving
      <4>3. QED
          BY <4>1, <4>2, <1>1 DEF InUse, Orderly, Listed
    <3>4. QED
        BY <3>1, <3>2, <3>3, <2>6 DEF Touches
  <2>7. ASSUME NEW t \in Agents, NEW i \in Touches(t), i \notin Works,
               i[1] = c
        PROVE  FALSE
    <3>1. InUse(Q, i) /\ i \in Clients \X (1 .. Cpus - 1)
        BY <2>6, <2>7, ApplyAssumption
    <3>2. PICK n \in 1 .. Cpus - 1 : i = <<c, n>>
        BY <2>7, <3>1
    <3>3. n \in Remaining(Q, c)
        BY <3>1, <3>2 DEF Remaining
    <3>4. QED
        BY <2>3, <3>3
  <2>8. QED
      BY <2>5, <2>7
<1>6. QED
    BY <1>4, <1>5

\* For any number of clients, workers, processors and iterations: no index of
\* a dispatch_apply() is passed twice, all have been when it returns, and by
\* then every record on its stack is out of the root queue and out of the
\* hands of its threads (_dispatch_apply_invoke(), dispatch_apply_f(),
\* _dispatch_queue_concurrent_drain_one()).
THEOREM ApplyAppliesOnce == Spec => []AppliedOnce
  BY ApplyInvariant, IInvApplied, PTL

-----------------------------------------------------------------------------
(* Nothing is left behind: what a list with items on it owes to its        *)
(* threads.                                                                *)

\* Who has the way into the list that is not its head: the thread whose items
\* found it empty, or the one that takes an item off it.
Entrance(t) == pc[t] \in {"sethead", "successor", "trytail", "advance"}

\* There is one way into a list with items on it, and none into an empty one;
\* the mediator is in the head only while a thread is bound to replace it.
Entrances ==
    /\ \A t, u \in Agents : Entrance(t) /\ Entrance(u) => t = u
    /\ head \in Items => tail # NULL /\ \A t \in Agents : ~Entrance(t)
    /\ tail = NULL => \A t \in Agents : ~Entrance(t)
    /\ tail # NULL => head \in Items \/ \E t \in Agents : Entrance(t)
    /\ head = Mediator =>
         \E w \in Workers : pc[w] \in {"undo", "successor", "advance"}

\* The threads of the pool; one that retires stands outside it already.
Alive == {w \in Workers : /\ pc[w] # "gone"
                          /\ pc[w] \in Waking => ret[w] # "gone"}

Threading ==
    /\ permits \in Nat /\ poolSize \in Nat /\ requests \in Nat
    /\ kworkqueue /\ pending # 0 =>
         requests > 0 \/ \E w \in Workers : pc[w] = "start"
    /\ ~kworkqueue => requests = 0 /\ poolSize + Cardinality(Alive) = PoolSize
    /\ permits > 0 => \A w \in Workers : pc[w] # "resting"

\* Who is bound to look at the list, or to get a thread that does.
Alert(t) == pc[t] \in {"sethead", "successor", "trytail", "advance", "probe",
                       "wake", "start", "drain"}

\* A thread of the pool will take the permit instead of a rest.
Permitted == /\ ~kworkqueue /\ permits > 0
             /\ Alive # {} \/ \E t \in Agents : pc[t] = "create"

Attended ==
    tail # NULL => (\E t \in Agents : Alert(t)) \/ requests > 0 \/ Permitted

RestInv == Entrances /\ Threading /\ Attended

\* A call of dispatch_async() or dispatch_apply() puts items on the list.
LEMMA BeginPushes ==
  ASSUME Places, Fields, NEW c \in Clients, Begin(c)
  PROVE  /\ tail' \in Items /\ pc[c] = "idle"
         /\ pc' = [pc EXCEPT ![c] = IF tail = NULL THEN "sethead" ELSE "link"]
         /\ \A t \in Agents : t # c => ret'[t] = ret[t]
         /\ UNCHANGED <<head, poolVars>>
<1>1. ASSUME NEW w \in Works, Async(c, w)
      PROVE  /\ tail' \in Items /\ pc[c] = "idle"
             /\ pc' = [pc EXCEPT ![c] =
                         IF tail = NULL THEN "sethead" ELSE "link"]
             /\ \A t \in Agents : t # c => ret'[t] = ret[t]
             /\ UNCHANGED <<head, poolVars>>
  <2>1. tail' \in Items
      BY <1>1, PushOne, ApplyAssumption DEF Async
  <2>2. QED
      BY <1>1, <2>1 DEF Async, PushList, Goto, Places
<1>2. ASSUME Apply(c)
      PROVE  /\ tail' \in Items /\ pc[c] = "idle"
             /\ pc' = [pc EXCEPT ![c] =
                         IF tail = NULL THEN "sethead" ELSE "link"]
             /\ \A t \in Agents : t # c => ret'[t] = ret[t]
             /\ UNCHANGED <<head, poolVars>>
  <2>1. PICK last \in 1 .. Cpus - 1 : tail' = <<c, last>>
      BY <1>2, ApplyPushes
  <2>2. tail' \in Items
      BY <2>1, ApplyAssumption
  <2>3. QED
      BY <1>2, <2>2 DEF Apply, PushList, Goto, Places
<1>3. QED
    BY <1>1, <1>2 DEF Begin

\* No step leaves a second way into the list, or a list with items on it and
\* no way into it: who opens the list, takes an item or clears the tail
\* (_dispatch_queue_push_list(), _dispatch_queue_concurrent_drain_one()).
LEMMA StepEntrances ==
  ASSUME Places, Fields, Entrances, [Next]_applyVars,
         \A t \in Agents : Pushing(t) \/ Taking(t) => item[t] \in Items
  PROVE  Entrances'
<1> USE RootAssumption
        DEF Places, ClientPlaces, WorkerPlaces, Waking, Agents, Goto, Call,
            Fields, AfterInvoke, Entrances, Entrance, Pushing, Taking, listVars
<1>1. ASSUME NEW c \in Clients, Begin(c)  PROVE Entrances'
    BY <1>1, BeginPushes
<1>2. ASSUME NEW t \in Agents, Link(t)  PROVE Entrances'
    BY <1>2 DEF Link
<1>3. ASSUME NEW t \in Agents, SetHead(t)  PROVE Entrances'
    BY <1>3 DEF SetHead
<1>4. ASSUME NEW t \in Agents, Probe(t)  PROVE Entrances'
    BY <1>4 DEF Probe
<1>5. ASSUME NEW t \in Agents, RequestThread(t)  PROVE Entrances'
    BY <1>5 DEF RequestThread
<1>6. ASSUME NEW t \in Agents, SignalMediator(t)  PROVE Entrances'
    BY <1>6 DEF SignalMediator
<1>7. ASSUME NEW t \in Agents, CreateThread(t)  PROVE Entrances'
    BY <1>7 DEF CreateThread
<1>8. ASSUME NEW t \in Workers, Start(t)  PROVE Entrances'
    BY <1>8 DEF Start
<1>9. ASSUME NEW t \in Workers, TakeHead(t)  PROVE Entrances'
    BY <1>9 DEF TakeHead
<1>10. ASSUME NEW t \in Workers, UndoMediator(t)  PROVE Entrances'
    BY <1>10 DEF UndoMediator
<1>11. ASSUME NEW t \in Workers, Successor(t)  PROVE Entrances'
    BY <1>11 DEF Successor
<1>12. ASSUME NEW t \in Workers, TryTail(t)  PROVE Entrances'
    BY <1>12 DEF TryTail
<1>13. ASSUME NEW t \in Workers, Advance(t)  PROVE Entrances'
    BY <1>13 DEF Advance
<1>14. ASSUME NEW t \in Workers, Exit(t)  PROVE Entrances'
    BY <1>14 DEF Exit
<1>15. ASSUME NEW t \in Workers, Retire(t)  PROVE Entrances'
    BY <1>15 DEF Retire
<1>16. ASSUME NEW t \in Workers, RunAsync(t)  PROVE Entrances'
    BY <1>16 DEF RunAsync
<1>17. ASSUME NEW t \in Workers, RunRecord(t)  PROVE Entrances'
    BY <1>17 DEF RunRecord
<1>18. ASSUME NEW t \in Agents, Draw(t)  PROVE Entrances'
    BY <1>18 DEF Draw
<1>19. ASSUME NEW t \in Agents, Leave(t)  PROVE Entrances'
    BY <1>19 DEF Leave
<1>20. ASSUME NEW t \in Agents, SignalCaller(t)  PROVE Entrances'
    BY <1>20 DEF SignalCaller
<1>21. ASSUME NEW t \in Clients, Join(t)  PROVE Entrances'
    BY <1>21 DEF Join
<1>22. ASSUME NEW t \in Workers, Grant(t)  PROVE Entrances'
    BY <1>22 DEF Grant
<1>23. ASSUME NEW t \in Workers, TimeOut(t)  PROVE Entrances'
    BY <1>23 DEF TimeOut
<1>24. CASE UNCHANGED applyVars
    BY <1>24 DEF applyVars, rootVars
<1>25. QED
    BY <1>1, <1>2, <1>3, <1>4, <1>5, <1>6, <1>7, <1>8, <1>9, <1>10, <1>11,
       <1>12, <1>13, <1>14, <1>15, <1>16, <1>17, <1>18, <1>19, <1>20, <1>21,
       <1>22, <1>23, <1>24, Zenon
       DEF Next, Begin, Continue, Kernel, RootStep, InvokeStep

\* The pool has finitely many threads, so that they can be counted.
LEMMA AliveFinite == IsFiniteSet(Alive)
  BY PoolAssumption, FS_Subset DEF Alive

\* When no thread may be added to the pool there is one in it already
\* (queue.c:1930, _dispatch_queue_wakeup_global()).
LEMMA PoolFull ==
  ASSUME Threading, ~kworkqueue, poolSize = 0
  PROVE  Alive # {}
<1>1. Cardinality({}) = 0
    BY FS_EmptySet
<1>2. 0 + Cardinality(Alive) = PoolSize
    BY DEF Threading
<1>3. SUFFICES ASSUME Alive = {}  PROVE FALSE
    OBVIOUS
<1>4. Cardinality(Alive) = 0
    BY <1>1, <1>3
<1> HIDE DEF Alive
<1>5. QED
    BY <1>2, <1>4, PoolAssumption

\* What the threads of the pool are counted by, apart from the count.
Asked ==
    /\ permits \in Nat /\ poolSize \in Nat /\ requests \in Nat
    /\ kworkqueue /\ pending # 0 =>
         requests > 0 \/ \E w \in Workers : pc[w] = "start"
    /\ ~kworkqueue => requests = 0
    /\ permits > 0 => \A w \in Workers : pc[w] # "resting"

\* A step of the pool: a thread joins it or leaves it, or neither.
Staffed ==
    /\ kworkqueue' = kworkqueue
    /\ \/ kworkqueue
       \/ Alive' = Alive /\ poolSize' = poolSize
       \/ \E w \in Workers : /\ w \notin Alive /\ Alive' = Alive \cup {w}
                              /\ poolSize' = poolSize - 1
       \/ \E w \in Workers : /\ w \in Alive /\ Alive' = Alive \ {w}
                              /\ poolSize' = poolSize + 1

\* Every step keeps the word of pending requests true: it is set only while
\* the kernel owes a thread or one has just started; and a permit is left
\* only when nobody rests on it (queue.c:1902-1926).
LEMMA StepAsked ==
  ASSUME Places, Fields, Asked, [Next]_applyVars
  PROVE  Asked'
<1> USE RootAssumption
        DEF Places, ClientPlaces, WorkerPlaces, Waking, Agents, Goto, Call,
            AfterInvoke, Alive, Asked, poolVars
<1>1. ASSUME NEW c \in Clients, Begin(c)  PROVE Asked'
    BY <1>1, BeginPushes
<1>2. ASSUME NEW t \in Agents, Link(t)  PROVE Asked'
    BY <1>2 DEF Link
<1>3. ASSUME NEW t \in Agents, SetHead(t)  PROVE Asked'
    BY <1>3 DEF SetHead
<1>4. ASSUME NEW t \in Agents, Probe(t)  PROVE Asked'
    BY <1>4 DEF Probe
<1>5. ASSUME NEW t \in Agents, RequestThread(t)  PROVE Asked'
    BY <1>5 DEF RequestThread
<1>6. ASSUME NEW t \in Agents, SignalMediator(t)  PROVE Asked'
    BY <1>6 DEF SignalMediator
<1>7. ASSUME NEW t \in Agents, CreateThread(t)  PROVE Asked'
    BY <1>7 DEF CreateThread
<1>8. ASSUME NEW t \in Workers, Start(t)  PROVE Asked'
    BY <1>8 DEF Start
<1>9. ASSUME NEW t \in Workers, TakeHead(t)  PROVE Asked'
    BY <1>9 DEF TakeHead
<1>10. ASSUME NEW t \in Workers, UndoMediator(t)  PROVE Asked'
    BY <1>10 DEF UndoMediator
<1>11. ASSUME NEW t \in Workers, Successor(t)  PROVE Asked'
    BY <1>11 DEF Successor
<1>12. ASSUME NEW t \in Workers, TryTail(t)  PROVE Asked'
    BY <1>12 DEF TryTail
<1>13. ASSUME NEW t \in Workers, Advance(t)  PROVE Asked'
    BY <1>13 DEF Advance
<1>14. ASSUME NEW t \in Workers, Exit(t)  PROVE Asked'
    BY <1>14 DEF Exit
<1>15. ASSUME NEW t \in Workers, Retire(t)  PROVE Asked'
    BY <1>15 DEF Retire
<1>16. ASSUME NEW t \in Workers, RunAsync(t)  PROVE Asked'
    BY <1>16 DEF RunAsync
<1>17. ASSUME NEW t \in Workers, RunRecord(t)  PROVE Asked'
    BY <1>17 DEF RunRecord
<1>18. ASSUME NEW t \in Agents, Draw(t)  PROVE Asked'
    BY <1>18 DEF Draw
<1>19. ASSUME NEW t \in Agents, Leave(t)  PROVE Asked'
    BY <1>19 DEF Leave
<1>20. ASSUME NEW t \in Agents, SignalCaller(t)  PROVE Asked'
    BY <1>20 DEF SignalCaller
<1>21. ASSUME NEW t \in Clients, Join(t)  PROVE Asked'
    BY <1>21 DEF Join
<1>22. ASSUME NEW t \in Workers, Grant(t)  PROVE Asked'
    BY <1>22 DEF Grant
<1>23. ASSUME NEW t \in Workers, TimeOut(t)  PROVE Asked'
    BY <1>23 DEF TimeOut
<1>24. CASE UNCHANGED applyVars
    BY <1>24 DEF applyVars, rootVars
<1>25. QED
    BY <1>1, <1>2, <1>3, <1>4, <1>5, <1>6, <1>7, <1>8, <1>9, <1>10, <1>11,
       <1>12, <1>13, <1>14, <1>15, <1>16, <1>17, <1>18, <1>19, <1>20, <1>21,
       <1>22, <1>23, <1>24, Zenon
       DEF Next, Begin, Continue, Kernel, RootStep, InvokeStep

\* Every step counts the threads of the pool as it lets one in or out
\* (queue.c:1930, queue.c:2302).
LEMMA StepStaffed ==
  ASSUME Places, Fields, Asked, [Next]_applyVars
  PROVE  Staffed
<1> USE RootAssumption
        DEF Places, ClientPlaces, WorkerPlaces, Waking, Agents, Goto, Call,
            AfterInvoke, Alive, Asked, Staffed, poolVars
<1>1. ASSUME NEW c \in Clients, Begin(c)  PROVE Staffed
    BY <1>1, BeginPushes
<1>2. ASSUME NEW t \in Agents, Link(t)  PROVE Staffed
    BY <1>2 DEF Link
<1>3. ASSUME NEW t \in Agents, SetHead(t)  PROVE Staffed
    BY <1>3 DEF SetHead
<1>4. ASSUME NEW t \in Agents, Probe(t)  PROVE Staffed
    BY <1>4 DEF Probe
<1>5. ASSUME NEW t \in Agents, RequestThread(t)  PROVE Staffed
    BY <1>5 DEF RequestThread
<1>6. ASSUME NEW t \in Agents, SignalMediator(t)  PROVE Staffed
    BY <1>6 DEF SignalMediator
<1>7. ASSUME NEW t \in Agents, CreateThread(t)  PROVE Staffed
    BY <1>7 DEF CreateThread
<1>8. ASSUME NEW t \in Workers, Start(t)  PROVE Staffed
    BY <1>8 DEF Start
<1>9. ASSUME NEW t \in Workers, TakeHead(t)  PROVE Staffed
    BY <1>9 DEF TakeHead
<1>10. ASSUME NEW t \in Workers, UndoMediator(t)  PROVE Staffed
    BY <1>10 DEF UndoMediator
<1>11. ASSUME NEW t \in Workers, Successor(t)  PROVE Staffed
    BY <1>11 DEF Successor
<1>12. ASSUME NEW t \in Workers, TryTail(t)  PROVE Staffed
    BY <1>12 DEF TryTail
<1>13. ASSUME NEW t \in Workers, Advance(t)  PROVE Staffed
    BY <1>13 DEF Advance
<1>14. ASSUME NEW t \in Workers, Exit(t)  PROVE Staffed
    BY <1>14 DEF Exit
<1>15. ASSUME NEW t \in Workers, Retire(t)  PROVE Staffed
    BY <1>15 DEF Retire
<1>16. ASSUME NEW t \in Workers, RunAsync(t)  PROVE Staffed
    BY <1>16 DEF RunAsync
<1>17. ASSUME NEW t \in Workers, RunRecord(t)  PROVE Staffed
    BY <1>17 DEF RunRecord
<1>18. ASSUME NEW t \in Agents, Draw(t)  PROVE Staffed
    BY <1>18 DEF Draw
<1>19. ASSUME NEW t \in Agents, Leave(t)  PROVE Staffed
    BY <1>19 DEF Leave
<1>20. ASSUME NEW t \in Agents, SignalCaller(t)  PROVE Staffed
    BY <1>20 DEF SignalCaller
<1>21. ASSUME NEW t \in Clients, Join(t)  PROVE Staffed
    BY <1>21 DEF Join
<1>22. ASSUME NEW t \in Workers, Grant(t)  PROVE Staffed
    BY <1>22 DEF Grant
<1>23. ASSUME NEW t \in Workers, TimeOut(t)  PROVE Staffed
    BY <1>23 DEF TimeOut
<1>24. CASE UNCHANGED applyVars
    BY <1>24 DEF applyVars, rootVars
<1>25. QED
    BY <1>1, <1>2, <1>3, <1>4, <1>5, <1>6, <1>7, <1>8, <1>9, <1>10, <1>11,
       <1>12, <1>13, <1>14, <1>15, <1>16, <1>17, <1>18, <1>19, <1>20, <1>21,
       <1>22, <1>23, <1>24, Zenon
       DEF Next, Begin, Continue, Kernel, RootStep, InvokeStep

\* No step leaves a list with items on it to nobody: whoever stops looking
\* has found it empty or has seen to another thread.
LEMMA StepAttended ==
  ASSUME Places, Fields, Entrances, Threading, Attended, [Next]_applyVars
  PROVE  Attended'
<1> USE RootAssumption, PoolAssumption
        DEF Places, ClientPlaces, WorkerPlaces, Waking, Agents, Goto, Call,
            AfterInvoke, Attended, Permitted, Alert, Alive, listVars, poolVars
<1>1. ASSUME NEW c \in Clients, Begin(c)  PROVE Attended'
    BY <1>1, BeginPushes DEF poolVars
<1>2. ASSUME NEW t \in Agents, Link(t)  PROVE Attended'
    BY <1>2 DEF Link
<1>3. ASSUME NEW t \in Agents, SetHead(t)  PROVE Attended'
    BY <1>3 DEF SetHead
<1>4. ASSUME NEW t \in Agents, Probe(t)  PROVE Attended'
    BY <1>4 DEF Probe
<1>5. ASSUME NEW t \in Agents, RequestThread(t)  PROVE Attended'
  <2>1. CASE pending = 0
      BY <1>5, <2>1 DEF RequestThread, Threading
  <2>2. CASE pending # 0
    <3>1. requests > 0 \/ \E w \in Workers : pc[w] = "start"
        BY <1>5, <2>2 DEF RequestThread, Threading
    <3>2. QED
        BY <1>5, <2>2, <3>1 DEF RequestThread
  <2>3. QED
      BY <2>1, <2>2
<1>6. ASSUME NEW t \in Agents, SignalMediator(t)  PROVE Attended'
    BY <1>6 DEF SignalMediator, Threading
<1>7. ASSUME NEW t \in Agents, CreateThread(t)  PROVE Attended'
    BY <1>7, PoolFull DEF CreateThread
<1>8. ASSUME NEW t \in Workers, Start(t)  PROVE Attended'
    BY <1>8 DEF Start
<1>9. ASSUME NEW t \in Workers, TakeHead(t)  PROVE Attended'
    BY <1>9 DEF TakeHead, Entrances, Entrance
<1>10. ASSUME NEW t \in Workers, UndoMediator(t)  PROVE Attended'
    BY <1>10 DEF UndoMediator
<1>11. ASSUME NEW t \in Workers, Successor(t)  PROVE Attended'
    BY <1>11 DEF Successor
<1>12. ASSUME NEW t \in Workers, TryTail(t)  PROVE Attended'
    BY <1>12 DEF TryTail
<1>13. ASSUME NEW t \in Workers, Advance(t)  PROVE Attended'
    BY <1>13 DEF Advance
<1>14. ASSUME NEW t \in Workers, Exit(t)  PROVE Attended'
    BY <1>14 DEF Exit, Threading
<1>15. ASSUME NEW t \in Workers, Retire(t)  PROVE Attended'
    BY <1>15 DEF Retire, Threading
<1>16. ASSUME NEW t \in Workers, RunAsync(t)  PROVE Attended'
    BY <1>16 DEF RunAsync
<1>17. ASSUME NEW t \in Workers, RunRecord(t)  PROVE Attended'
    BY <1>17 DEF RunRecord
<1>18. ASSUME NEW t \in Agents, Draw(t)  PROVE Attended'
    BY <1>18 DEF Draw
<1>19. ASSUME NEW t \in Agents, Leave(t)  PROVE Attended'
    BY <1>19 DEF Leave
<1>20. ASSUME NEW t \in Agents, SignalCaller(t)  PROVE Attended'
    BY <1>20 DEF SignalCaller
<1>21. ASSUME NEW t \in Clients, Join(t)  PROVE Attended'
    BY <1>21 DEF Join
<1>22. ASSUME NEW t \in Workers, Grant(t)  PROVE Attended'
    BY <1>22 DEF Grant
<1>23. ASSUME NEW t \in Workers, TimeOut(t)  PROVE Attended'
    BY <1>23 DEF TimeOut
<1>24. CASE UNCHANGED applyVars
    BY <1>24 DEF applyVars, rootVars
<1>25. QED
    BY <1>1, <1>2, <1>3, <1>4, <1>5, <1>6, <1>7, <1>8, <1>9, <1>10, <1>11,
       <1>12, <1>13, <1>14, <1>15, <1>16, <1>17, <1>18, <1>19, <1>20, <1>21,
       <1>22, <1>23, <1>24, Zenon
       DEF Next, Begin, Continue, Kernel, RootStep, InvokeStep

\* The places left in the pool and the threads that hold one add up.
LEMMA StepPool ==
  ASSUME Threading, Asked', Staffed
  PROVE  Threading'
<1>1. IsFiniteSet(Alive)
    BY AliveFinite
<1>2. CASE kworkqueue
    BY <1>2 DEF Threading, Asked, Staffed
<1>3. ASSUME ~kworkqueue
      PROVE  poolSize' + Cardinality(Alive') = PoolSize
  <2>1. poolSize \in Nat /\ poolSize + Cardinality(Alive) = PoolSize
      BY <1>3 DEF Threading
  <2>2. Cardinality(Alive) \in Nat
      BY <1>1, FS_CardinalityType
  <2>3. CASE Alive' = Alive /\ poolSize' = poolSize
      BY <2>1, <2>3
  <2>4. ASSUME NEW w \in Workers, w \notin Alive, Alive' = Alive \cup {w},
               poolSize' = poolSize - 1
        PROVE  poolSize' + Cardinality(Alive') = PoolSize
    <3>1. Cardinality(Alive') = Cardinality(Alive) + 1
        BY <1>1, <2>4, FS_AddElement
    <3> HIDE DEF Alive
    <3>2. QED
        BY <2>1, <2>2, <2>4, <3>1
  <2>5. ASSUME NEW w \in Workers, w \in Alive, Alive' = Alive \ {w},
               poolSize' = poolSize + 1
        PROVE  poolSize' + Cardinality(Alive') = PoolSize
    <3>1. Cardinality(Alive') = Cardinality(Alive) - 1
        BY <1>1, <2>5, FS_RemoveElement
    <3> HIDE DEF Alive
    <3>2. QED
        BY <2>1, <2>2, <2>5, <3>1
  <2>6. QED
      BY <1>3, <2>3, <2>4, <2>5 DEF Staffed
<1>4. QED
    BY <1>2, <1>3 DEF Threading, Asked, Staffed

\* An empty queue and a full pool.
LEMMA InitRest == Init => RestInv
<1> SUFFICES ASSUME Init  PROVE RestInv
    OBVIOUS
<1> USE RootAssumption, PoolAssumption DEF Init, RootInit
<1>1. \A t \in Agents : pc[t] \in {"idle", "gone"}
    BY DEF Agents
<1>2. Alive = {}
    BY DEF Alive, Agents
<1>3. Cardinality(Alive) = 0
    BY <1>2, FS_EmptySet, Zenon
<1>4. Entrances
    BY <1>1 DEF Entrances, Entrance
<1>5. Threading
  <2>1. poolSize + Cardinality(Alive) = PoolSize
    <3>1. poolSize = PoolSize
        OBVIOUS
    <3> HIDE DEF Alive, Init, RootInit
    <3>2. QED
        BY <1>3, <3>1
  <2>2. QED
      BY <2>1, <1>1 DEF Threading, Agents
<1>6. Attended
    BY DEF Attended
<1>7. QED
    BY <1>4, <1>5, <1>6 DEF RestInv

\* The three parts together, on top of the invariant of the items.
LEMMA StepRest == IInv /\ RestInv /\ [Next]_applyVars => RestInv'
<1> SUFFICES ASSUME IInv, RestInv, [Next]_applyVars  PROVE RestInv'
    OBVIOUS
<1>1. Places /\ Fields
    BY DEF IInv
<1>2. \A t \in Agents : Pushing(t) \/ Taking(t) => item[t] \in Items
    BY DEF IInv, Orderly, Listed
<1>3. Entrances'
    BY <1>1, <1>2, StepEntrances DEF RestInv
<1>4. Asked
    BY DEF RestInv, Threading, Asked
<1>5. Threading'
    BY <1>1, <1>4, StepAsked, StepStaffed, StepPool DEF RestInv
<1>6. Attended'
    BY <1>1, StepAttended DEF RestInv
<1>7. QED
    BY <1>3, <1>5, <1>6 DEF RestInv

\* The list of a root queue never rests with an item on it, nor with the
\* mediator or a stale item in its head: for any number of threads, any size
\* of the pool and either way to get threads, a list with items on it has one
\* way into it, and a thread that looks or that was asked for
\* (_dispatch_queue_concurrent_drain_one(), _dispatch_queue_wakeup_global()).
THEOREM RootNothingLeft == Spec => []NothingLeftBehind
<1>1. RestInv /\ Places /\ Fields => NothingLeftBehind
  <2> SUFFICES ASSUME RestInv, Places, Fields, AtRest
               PROVE  tail = NULL /\ head = NULL
      BY DEF NothingLeftBehind
  <2>1. \A t \in Agents : ~Alert(t) /\ ~Entrance(t)
                          /\ pc[t] \notin {"create", "undo"}
      BY DEF AtRest, Alert, Entrance
  <2>2. ~Permitted
    <3>1. SUFFICES ASSUME Permitted  PROVE FALSE
        OBVIOUS
    <3>2. PICK w \in Workers : w \in Alive
        BY <2>1, <3>1 DEF Permitted, Alive
    <3>3. pc[w] # "gone" /\ w \in Agents
        BY <3>2 DEF Alive, Agents
    <3>4. pc[w] = "resting"
        BY <3>3 DEF AtRest, Places, WorkerPlaces
    <3>5. QED
        BY <3>1, <3>4
           DEF Permitted, RestInv, Threading
  <2>3. requests = 0
      BY DEF AtRest
  <2>4. tail = NULL
      BY <2>1, <2>2, <2>3 DEF RestInv, Attended
  <2>5. head \notin Items /\ head # Mediator
      BY <2>1, <2>4 DEF RestInv, Entrances, Entrance, Agents
  <2>6. QED
      BY <2>4, <2>5 DEF Fields
<1>2. IInv => Places /\ Fields
    BY DEF IInv
<1>3. QED
    BY <1>1, <1>2, InitRest, StepRest, ApplyInvariant, PTL DEF Spec
=============================================================================
