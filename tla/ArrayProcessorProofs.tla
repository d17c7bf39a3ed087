------------------------ MODULE ArrayProcessorProofs ------------------------
(***************************************************************************)
(* The semaphore and the items of ArrayProcessor.Process, for every tree   *)
(* of arrays, every number of permits and every list of answers.           *)
(*                                                                         *)
(* Two inductive invariants.  LoopIInv ties the items of an array to the   *)
(* index of the loop that starts them and the sleepers of the semaphore to *)
(* the arrays that wait in Acquire; the permits are counted along with it. *)
(* ItemsIInv, on top of it, follows an item from its line of the list to   *)
(* its place in the result, and the lists from one PromptContext to the    *)
(* next.                                                                   *)
(***************************************************************************)
EXTENDS ArrayProcessor, FiniteSetTheorems, SequenceTheorems, WellFoundedInduction, TLAPS

Active == {"start", "process", "value", "error"}
Waits(i) == i \in {"none", "start"}

\* The types that TypeOK leaves open.
Shapes ==
    /\ TypeOK
    /\ next \in [Arrays -> Nat]
    /\ DOMAIN list = Arrays /\ \A a \in Arrays : DOMAIN list[a] \subseteq Nat
    /\ DOMAIN got = Arrays
    /\ DOMAIN hint = Arrays /\ \A a \in Arrays : DOMAIN hint[a] = Index

\* The items up to the index of the loop have been started, an array that has not got its
\* size has none and no list, and an array that is an item is idle until its item starts.
LoopKept ==
    \A a \in Arrays :
        /\ apc[a] \in {"idle", "begin", "size"} => next[a] = 0 /\ DOMAIN list[a] = {}
        /\ apc[a] = "acquire" => next[a] < size[a]
        /\ \A i \in Index :
             /\ item[a][i] = "none" <=> next[a] <= i
             /\ Inner[a][i] # None /\ Waits(item[a][i]) => apc[Inner[a][i]] = "idle"

\* Who sleeps in Acquire is in the queue once, or has been handed a permit.
SleepersKept ==
    /\ \A m \in DOMAIN queue : apc[queue[m]] = "acquire" /\ queue[m] \notin granted
    /\ \A m, n \in DOMAIN queue : queue[m] = queue[n] => m = n
    /\ \A a \in granted : apc[a] = "acquire"

\* Items that run and permits on their way can be counted, and are.
PermitsCounted ==
    /\ IsFiniteSet(Running) /\ IsFiniteSet(granted)
    /\ ItemPermitsAccounted

LoopIInv == Shapes /\ LoopKept /\ SleepersKept /\ PermitsCounted

-----------------------------------------------------------------------------
\* What was collected is at its place.
CollectedKept ==
    \A a \in Arrays :
        /\ (\A i \in Index : item[a][i] # "taken") => got[a] = <<>>
        /\ \A i \in Index : item[a][i] = "taken" =>
              /\ DOMAIN got[a] = 1 .. size[a] /\ got[a] = [j \in 1 .. size[a] |-> got[a][j]]
              /\ got[a][i + 1] = i

\* No two numbers have one line.
LinesDiffer(l) ==
    \A m, n \in DOMAIN l :
        /\ l[m].kind = "text" /\ l[n].kind = "text" /\ l[m].rest # 0
        /\ l[m].number # l[n].number
        => l[m].rest # l[n].rest

AnswersDiffer == \A r \in Responses : LinesDiffer(ExecuteLLMRequest(r).list)

\* An item has the line of its number in the list of its array.
HintsKept ==
    \A a \in Arrays :
        /\ LinesDiffer(list[a])
        /\ \A i \in Index : hint[a][i] # 0 =>
              ~Waits(item[a][i]) /\ hint[a][i] = ExtractItemFromList(list[a], i)

\* The PromptContext of an item is in use only once the item runs; every context in use, and
\* every slice that AddPrompt has read, has the prompt of the request in front.
ContextsKept ==
    /\ \A a, c \in Arrays, i \in Index : context[c] = <<a, i>> => ~Waits(item[a][i])
    /\ \A a \in Arrays :
         /\ first[context[a]] = "prompt"
         /\ apc[a] = "append" => slice[a] = "prompt"
         /\ a \in Root => line[context[a]] = NoLine

\* The line an item works for.
LineOf(a, i) == IF hint[a][i] # 0 THEN <<a, i>> ELSE line[context[a]]

\* The requests were built from contexts that have not changed since.
RequestsKept ==
    \A a \in Arrays :
        /\ apc[a] \in {"idle", "begin", "size"} => question[a] = {}
        /\ \A q \in question[a] : q.first = "prompt" /\ q.line = line[context[a]]
        /\ \A i \in Index :
             /\ Waits(item[a][i]) => asked[a][i] = {}
             /\ \A r \in asked[a][i] : r.first = "prompt" /\ r.line = LineOf(a, i)
             /\ Inner[a][i] # None /\ ~Waits(item[a][i]) => line[context[Inner[a][i]]] = LineOf(a, i)

ItemsIInv ==
    /\ CollectedKept /\ ItemsInPlace
    /\ HintsKept
    /\ ContextsKept /\ RequestsKept

-----------------------------------------------------------------------------
(* Lemmas about the operators. *)

\* A set of natural numbers that is not empty has a least element.
LEMMA SmallestOf ==
    ASSUME NEW T \in SUBSET Nat, T # {}
    PROVE  \E m \in T : \A k \in T : m <= k
<1>1. PICK R : R = OpToRel(<, Nat)
  BY Zenon
<1>2. IsWellFoundedOn(R, Nat)
  BY <1>1, NatLessThanWellFounded, Zenon
<1>3. R = {p \in Nat \X Nat : p[1] < p[2]}
  BY <1>1, Zenon DEF OpToRel
<1>4. PICK m \in T : \A k \in T : <<k, m>> \notin R
  BY <1>2, WFMin
<1>5. \A k \in T : ~(k < m)
  BY <1>3, <1>4
<1>6. QED BY <1>5

\* A set of positions has a last one, which Latest finds.
LEMMA LatestIn ==
    ASSUME NEW n \in Nat, NEW S \in SUBSET (1 .. n), S # {}
    PROVE  Latest(S) \in S
<1> DEFINE Above == {u \in Nat : \A j \in S : j <= u}
<1>1. n \in Above
  OBVIOUS
<1>2. Above \in SUBSET Nat /\ Above # {}
  BY <1>1
<1>3. PICK u \in Above : \A v \in Above : u <= v
  BY <1>2, SmallestOf
<1>4. PICK s \in S : TRUE
  OBVIOUS
<1>5. u \in Nat /\ (\A j \in S : j <= u /\ j \in Nat) /\ s >= 1
  BY <1>3, <1>4
<1>6. u \in S
  <2>1. SUFFICES ASSUME u \notin S PROVE FALSE
    OBVIOUS
  <2>2. \A j \in S : j <= u - 1
    BY <1>5, <2>1
  <2>3. u - 1 \in Nat
    BY <1>4, <1>5, <2>2
  <2>4. u - 1 \in Above
    BY <2>2, <2>3
  <2>5. u <= u - 1
    BY <1>3, <2>4
  <2>6. QED BY <1>5, <2>5
<1>7. QED BY <1>5, <1>6 DEF Latest

\* The size of an array keeps to its limit whatever the model answers.
LEMMA AnswerSound ==
    ASSUME NEW r \in Responses
    PROVE  /\ ExecuteLLMRequest(r).num \in 0 .. MaxItems
           /\ DOMAIN ExecuteLLMRequest(r).list \subseteq Nat
<1>1. r \in Seq(Lines) /\ DefaultSize \in Nat /\ MaxItems \in Nat
  BY ArrayAssumption, ListingAssumption
<1>2. PICK n \in Nat : n = Len(r) /\ DOMAIN r = 1 .. n
  BY <1>1
<1>3. Count(r) \in Int
  <2>1. PICK counts : counts = {i \in DOMAIN r : r[i].kind = "count"}
    OBVIOUS
  <2>2. Count(r) = IF counts = {} \/ r[Latest(counts)].indented THEN NotFound ELSE r[Latest(counts)].rest
    BY <2>1 DEF Count
  <2>3. CASE counts = {}
    BY <2>2, <2>3 DEF NotFound
  <2>4. CASE counts # {}
    <3>1. PICK c : c = Latest(counts)
      OBVIOUS
    <3>2. c \in counts
      BY <1>2, <2>1, <2>4, <3>1, LatestIn
    <3>3. r[c] \in Lines
      BY <1>1, <2>1, <3>2
    <3>4. r[c].rest \in Int
      BY <3>3 DEF Lines
    <3>5. QED BY <2>2, <2>4, <3>1, <3>4 DEF NotFound
  <2>5. QED BY <2>3, <2>4
<1>4. NumberedLines(r) \in Nat
  <2>1. IsFiniteSet(1 .. n)
    BY FS_Interval
  <2>2. IsFiniteSet({i \in DOMAIN r : r[i].kind = "text" /\ r[i].digit})
    BY <1>2, <2>1, FS_Subset
  <2>3. QED BY <2>2, FS_CardinalityType DEF NumberedLines
<1>5. \A k \in Int : Clamp(k) \in 0 .. MaxItems
  BY <1>1 DEF Clamp
<1>6. DOMAIN ListLines(r) \subseteq 1 .. n
  BY <1>2 DEF ListLines
<1>7. \E k \in Int : ExecuteLLMRequest(r).num = Clamp(k)
  BY <1>1, <1>3, <1>4 DEF ExecuteLLMRequest
<1>8. ExecuteLLMRequest(r).list \in {r, ListLines(r)}
  BY DEF ExecuteLLMRequest
<1>9. ExecuteLLMRequest(r).num \in 0 .. MaxItems
  BY <1>5, <1>7
<1>10. 1 .. n \subseteq Nat
  OBVIOUS
<1>11. DOMAIN ExecuteLLMRequest(r).list \subseteq 1 .. n
  BY <1>2, <1>6, <1>8
<1>12. QED BY <1>9, <1>10, <1>11

\* Taking an element out of a queue leaves the others where they are or one place further on.
LEMMA TakenOut ==
    ASSUME NEW S, NEW q \in Seq(S), NEW i \in DOMAIN q
    PROVE  /\ RemoveAt(q, i) \in Seq(S)
           /\ \A k \in DOMAIN RemoveAt(q, i) :
                /\ k \in Int
                /\ (IF k < i THEN k ELSE k + 1) \in DOMAIN q
                /\ RemoveAt(q, i)[k] = q[IF k < i THEN k ELSE k + 1]
<1>1. Len(q) \in Nat /\ DOMAIN q = 1 .. Len(q) /\ i \in 1 .. Len(q)
  BY LenProperties
<1> DEFINE front == SubSeq(q, 1, i - 1)
           back == SubSeq(q, i + 1, Len(q))
<1>2. /\ front \in Seq(S) /\ Len(front) = i - 1
      /\ \A k \in 1 .. i - 1 : front[k] = q[k]
  BY <1>1, SubSeqProperties
<1>3. /\ back \in Seq(S) /\ Len(back) = Len(q) - i
      /\ \A k \in 1 .. Len(q) - i : back[k] = q[i + k]
  BY <1>1, SubSeqProperties
<1>4. RemoveAt(q, i) = front \o back
  BY DEF RemoveAt
<1> HIDE DEF front, back
<1>5. /\ front \o back \in Seq(S) /\ Len(front \o back) = Len(front) + Len(back)
      /\ \A k \in 1 .. Len(front) + Len(back) :
            (front \o back)[k] = IF k <= Len(front) THEN front[k] ELSE back[k - Len(front)]
  BY <1>2, <1>3, ConcatProperties
<1> DEFINE rest == front \o back
           from(k) == IF k < i THEN k ELSE k + 1
<1>6. DOMAIN rest = 1 .. Len(q) - 1
  <2>1. Len(rest) = Len(q) - 1
    BY <1>1, <1>2, <1>3, <1>5
  <2>2. DOMAIN rest = 1 .. Len(rest)
    BY <1>5, LenProperties
  <2>3. QED BY <2>1, <2>2
<1>7. ASSUME NEW k \in 1 .. Len(q) - 1
      PROVE  k \in Int /\ from(k) \in 1 .. Len(q) /\ rest[k] = q[from(k)]
  <2>0. k \in 1 .. Len(front) + Len(back) /\ k \in Int /\ i \in Int /\ from(k) \in 1 .. Len(q)
    BY <1>1, <1>2, <1>3
  <2>1. CASE k < i
    <3>1. k <= Len(front) /\ k \in 1 .. i - 1
      BY <1>1, <1>2, <2>0, <2>1
    <3>2. rest[k] = front[k]
      BY <1>5, <2>0, <3>1
    <3>3. QED BY <1>2, <2>0, <2>1, <3>1, <3>2
  <2>2. CASE ~(k < i)
    <3>1. ~(k <= Len(front)) /\ Len(front) = i - 1
      BY <1>1, <1>2, <2>0, <2>2
    <3>2. rest[k] = back[k - (i - 1)]
      BY <1>5, <2>0, <3>1
    <3>3. k - (i - 1) \in 1 .. Len(q) - i /\ i + (k - (i - 1)) = k + 1
      BY <1>1, <2>0, <2>2
    <3>4. back[k - (i - 1)] = q[k + 1]
      BY <1>3, <3>3
    <3>5. QED BY <2>0, <2>2, <3>2, <3>4
  <2>3. QED BY <2>1, <2>2
<1> HIDE DEF rest
<1>8. RemoveAt(q, i) = rest /\ rest \in Seq(S)
  BY <1>4, <1>5 DEF rest
<1>9. QED BY <1>1, <1>6, <1>7, <1>8


\* One item changes.
LEMMA ItemChanges ==
    ASSUME item \in [Arrays -> [Index -> ItemStates]], NEW a \in Arrays, NEW i \in Index,
           NEW v \in ItemStates, item' = [item EXCEPT ![a][i] = v]
    PROVE  /\ item' \in [Arrays -> [Index -> ItemStates]] /\ item'[a][i] = v
           /\ \A b \in Arrays, j \in Index : b # a \/ j # i => item'[b][j] = item[b][j]
           /\ (v \in Active <=> item[a][i] \in Active) => Running' = Running
           /\ v \in Active /\ item[a][i] \notin Active =>
                 Running' = Running \cup {<<a, i>>} /\ <<a, i>> \notin Running
           /\ v \notin Active /\ item[a][i] \in Active =>
                 Running' = Running \ {<<a, i>>} /\ <<a, i>> \in Running
<1>1. /\ item' \in [Arrays -> [Index -> ItemStates]] /\ item'[a][i] = v
      /\ \A b \in Arrays, j \in Index : b # a \/ j # i => item'[b][j] = item[b][j]
  OBVIOUS
<1>2. \A b, j : <<b, j>> \in Running <=> b \in Arrays /\ j \in Index /\ item[b][j] \in Active
  BY DEF Running, Items, Active
<1>3. \A b, j : <<b, j>> \in Running' <=> b \in Arrays /\ j \in Index /\ item'[b][j] \in Active
  BY DEF Running, Items, Active
<1>4. Running \subseteq Arrays \X Index /\ Running' \subseteq Arrays \X Index
  BY DEF Running, Items
<1>5. (v \in Active <=> item[a][i] \in Active) => Running' = Running
  <2>1. SUFFICES ASSUME v \in Active <=> item[a][i] \in Active PROVE Running' = Running
    OBVIOUS
  <2>2. \A b \in Arrays, j \in Index : item'[b][j] \in Active <=> item[b][j] \in Active
    BY <1>1, <2>1
  <2>3. \A b \in Arrays, j \in Index : <<b, j>> \in Running' <=> <<b, j>> \in Running
    BY <1>2, <1>3, <2>2
  <2>4. \A x \in Arrays \X Index : x \in Running' <=> x \in Running
    <3>1. TAKE x \in Arrays \X Index
    <3>2. x = <<x[1], x[2]>> /\ x[1] \in Arrays /\ x[2] \in Index
      OBVIOUS
    <3>3. QED BY <2>3, <3>2
  <2>5. QED BY <1>4, <2>4
<1>6. v \in Active /\ item[a][i] \notin Active =>
        Running' = Running \cup {<<a, i>>} /\ <<a, i>> \notin Running
  BY <1>1, <1>2, <1>3, <1>4
<1>7. v \notin Active /\ item[a][i] \in Active =>
        Running' = Running \ {<<a, i>>} /\ <<a, i>> \in Running
  BY <1>1, <1>2, <1>3, <1>4
<1>8. QED BY <1>1, <1>5, <1>6, <1>7

-----------------------------------------------------------------------------
(* The loops, the sleepers and the permits. *)

\* A request starts with all permits free.
LEMMA LoopStarts ==
    ASSUME Init
    PROVE  LoopIInv
<1>1. /\ Root \subseteq Arrays /\ MaxItems \in Nat /\ Permits \in Nat /\ Index \subseteq Nat
      /\ Inner \in [Arrays -> [Index -> Arrays \cup {None}]]
  BY ArrayAssumption, ListingAssumption DEF Index
<1>2. Shapes
  <2>1. /\ apc \in [Arrays -> {"idle", "begin", "size", "append", "spawn", "acquire", "ok", "error"}]
        /\ size \in [Arrays -> 0 .. MaxItems] /\ next \in [Arrays -> Nat]
        /\ \A a \in Arrays : next[a] \in 0 .. size[a]
    BY <1>1 DEF Init
  <2>2. /\ item \in [Arrays -> [Index -> ItemStates]] /\ free \in 0 .. Permits
        /\ queue \in Seq(Arrays) /\ granted \subseteq Arrays /\ ended \in BOOLEAN
    <3>1. item \in [Arrays -> [Index -> ItemStates]]
      BY DEF Init, ItemStates
    <3>2. free \in 0 .. Permits
      BY <1>1 DEF Init
    <3>3. queue = <<>> /\ granted = {} /\ ended = FALSE
      BY Zenon DEF Init
    <3>4. queue \in Seq(Arrays)
      BY <3>3, EmptySeq
    <3>5. QED BY <3>1, <3>2, <3>3, <3>4
  <2>3. PromptTypes
    BY DEF Init, PromptTypes, Prompts, Contexts, NoLine
  <2>4. /\ DOMAIN list = Arrays /\ DOMAIN got = Arrays
        /\ DOMAIN hint = Arrays /\ (\A a \in Arrays : DOMAIN hint[a] = Index)
        /\ \A a \in Arrays : list[a] = <<>>
    BY DEF Init
  <2>5. DOMAIN <<>> \subseteq Nat
    OBVIOUS
  <2>6. QED BY <2>1, <2>2, <2>3, <2>4, <2>5 DEF Shapes, TypeOK
<1>3. LoopKept
  <2>1. \A a \in Arrays, i \in Index : Inner[a][i] # None => Inner[a][i] \in Arrays \ Root
    BY <1>1, TreeAssumption
  <2>2. \A a \in Arrays, i \in Index : Inner[a][i] # None => apc[Inner[a][i]] = "idle"
    BY <2>1 DEF Init
  <2>3. \A a \in Arrays, i \in Index : item[a][i] = "none" /\ next[a] <= i
    BY <1>1 DEF Init
  <2>4. QED BY <2>2, <2>3 DEF Init, LoopKept
<1>4. SleepersKept
  BY DEF Init, SleepersKept
<1>5. Running = {} /\ granted = {} /\ free = Permits
  BY DEF Init, Running, Items
<1>6. PermitsCounted
  BY <1>1, <1>5, FS_EmptySet DEF PermitsCounted, ItemPermitsAccounted
<1>7. QED BY <1>2, <1>3, <1>4, <1>6 DEF LoopIInv

\* A step that starts no item and gives no array its size keeps the loops.
LEMMA LoopFrame ==
    ASSUME LoopKept, size' = size, next' = next, list' = list,
           \A b \in Arrays, i \in Index :
               (item'[b][i] = "none" <=> item[b][i] = "none") /\ (Waits(item'[b][i]) => Waits(item[b][i])),
           \A b \in Arrays : apc'[b] \in {"idle", "begin", "size"} => apc[b] \in {"idle", "begin", "size"},
           \A b \in Arrays : apc'[b] = "acquire" => apc[b] = "acquire" \/ next[b] < size[b],
           \A b \in Arrays, i \in Index :
               Inner[b][i] # None /\ Waits(item'[b][i]) /\ apc[Inner[b][i]] = "idle" => apc'[Inner[b][i]] = "idle"
    PROVE  LoopKept'
<1>1. SUFFICES ASSUME NEW a \in Arrays
      PROVE  /\ apc'[a] \in {"idle", "begin", "size"} => next[a] = 0 /\ DOMAIN list[a] = {}
             /\ apc'[a] = "acquire" => next[a] < size[a]
             /\ \A i \in Index :
                  /\ item'[a][i] = "none" <=> next[a] <= i
                  /\ Inner[a][i] # None /\ Waits(item'[a][i]) => apc'[Inner[a][i]] = "idle"
  BY DEF LoopKept, Waits
<1>2. QED BY DEF LoopKept

\* Sleepers that stay asleep, and a queue that stays as it is.
LEMMA SleepersFrame ==
    ASSUME Shapes, SleepersKept, queue' = queue, granted' = granted,
           \A b \in Arrays : apc[b] = "acquire" => apc'[b] = "acquire"
    PROVE  SleepersKept'
<1>1. \A m \in DOMAIN queue : queue[m] \in Arrays
  BY DEF Shapes, TypeOK
<1>2. granted \subseteq Arrays
  BY DEF Shapes, TypeOK
<1>3. QED BY <1>1, <1>2 DEF SleepersKept

\* A step that leaves the contexts and the requests alone keeps their types.
LEMMA PromptsStay ==
    ASSUME PromptTypes, promptVars' = promptVars
    PROVE  PromptTypes'
BY DEF PromptTypes, promptVars

\* The count of the permits, in numbers.
LEMMA PermitNumbers ==
    ASSUME Shapes, PermitsCounted
    PROVE  /\ free \in Nat /\ Permits \in Nat
           /\ Cardinality(Running) \in Nat /\ Cardinality(granted) \in Nat
           /\ free + Cardinality(Running) + Cardinality(granted) = Permits
<1>1. Permits \in Nat
  BY ArrayAssumption
<1>2. free \in Nat
  BY <1>1 DEF Shapes, TypeOK
<1>3. QED BY <1>1, <1>2, FS_CardinalityType DEF PermitsCounted, ItemPermitsAccounted

\* A step of an array that is awake and moves no permit and no item.
LEMMA MoveKept ==
    ASSUME LoopIInv, NEW a \in Arrays, apc[a] \notin {"idle", "acquire"}, NEW v,
           apc' = [apc EXCEPT ![a] = v],
           v \in {"size", "ok", "error"}, v = "size" => apc[a] = "begin",
           UNCHANGED <<size, list, next, item, free, queue, granted, got, hint, promptVars, ended>>
    PROVE  LoopIInv'
<1>1. Shapes /\ LoopKept /\ SleepersKept /\ PermitsCounted
  BY DEF LoopIInv
<1>2. apc \in [Arrays -> {"idle", "begin", "size", "append", "spawn", "acquire", "ok", "error"}]
  BY <1>1 DEF Shapes, TypeOK
<1>3. apc'[a] = v /\ \A b \in Arrays : b # a => apc'[b] = apc[b]
  BY <1>2
<1>4. Shapes'
  BY <1>1, <1>2, PromptsStay DEF Shapes, TypeOK
<1>5. LoopKept'
  <2>1. \A b \in Arrays, i \in Index : Inner[b][i] # None => Inner[b][i] \in Arrays
    BY ArrayAssumption
  <2>2. QED BY <1>1, <1>3, <2>1, LoopFrame
<1>6. SleepersKept'
  BY <1>1, <1>3, SleepersFrame
<1>7. PermitsCounted'
  BY <1>1 DEF PermitsCounted, ItemPermitsAccounted, Running
<1>8. QED BY <1>4, <1>5, <1>6, <1>7 DEF LoopIInv

\* The size of an array, once.
LEMMA SizeKept ==
    ASSUME LoopIInv, NEW a \in Arrays, DetermineArraySize(a)
    PROVE  LoopIInv'
<1>1. Shapes /\ LoopKept /\ SleepersKept /\ PermitsCounted /\ TypeOK
  BY DEF LoopIInv, Shapes
<1>2. /\ apc[a] = "size"
      /\ \E v \in {"append", "spawn"} : apc' = [apc EXCEPT ![a] = v]
      /\ UNCHANGED <<next, item, free, queue, granted, got, hint, ended>>
  BY DEF DetermineArraySize
<1>3. /\ apc \in [Arrays -> {"idle", "begin", "size", "append", "spawn", "acquire", "ok", "error"}]
      /\ size \in [Arrays -> 0 .. MaxItems] /\ next \in [Arrays -> Nat] /\ DOMAIN list = Arrays
      /\ \A b \in Arrays : next[b] \in 0 .. size[b] /\ DOMAIN list[b] \subseteq Nat
  BY <1>1 DEF Shapes, TypeOK
<1>4. apc'[a] \in {"append", "spawn"} /\ \A b \in Arrays : b # a => apc'[b] = apc[b]
  BY <1>2, <1>3
<1>5. next[a] = 0
  BY <1>1, <1>2 DEF LoopKept
<1>6. \E n \in 0 .. MaxItems : size' = [size EXCEPT ![a] = n]
  <2>1. CASE size' = [size EXCEPT ![a] = DefaultSize]
    <3>1. DefaultSize \in 0 .. MaxItems
      BY ArrayAssumption, ListingAssumption
    <3>2. QED BY <2>1, <3>1
  <2>2. CASE \E r \in Responses : size' = [size EXCEPT ![a] = ExecuteLLMRequest(r).num]
    BY <2>2, AnswerSound
  <2>3. QED BY <2>1, <2>2 DEF DetermineArraySize
<1>7. \E l : DOMAIN l \subseteq Nat /\ (list' = [list EXCEPT ![a] = l] \/ list' = list)
  <2>1. CASE list' = list
    <3>1. DOMAIN list[a] \subseteq Nat
      BY <1>3
    <3>2. QED BY <2>1, <3>1
  <2>2. CASE \E r \in Responses : list' = [list EXCEPT ![a] = ExecuteLLMRequest(r).list]
    BY <2>2, AnswerSound
  <2>3. QED BY <2>1, <2>2 DEF DetermineArraySize
<1>8. PromptTypes'
  <2>1. PromptTypes /\ Build(context[a]) \in Requests
    BY <1>1 DEF TypeOK, PromptTypes, Build, Requests
  <2>2. question' = [question EXCEPT ![a] = {Build(context[a])}] /\ UNCHANGED <<first, line, context, asked>>
    BY DEF DetermineArraySize
  <2>3. slice' = slice \/ slice' = [slice EXCEPT ![a] = first[context[a]]]
    BY DEF DetermineArraySize
  <2>4. slice' \in [Arrays -> Prompts]
    BY <2>1, <2>3 DEF PromptTypes
  <2>5. question' \in [Arrays -> SUBSET Requests]
    BY <2>1, <2>2 DEF PromptTypes
  <2>6. QED BY <2>1, <2>2, <2>4, <2>5 DEF PromptTypes
<1>9. /\ size' \in [Arrays -> 0 .. MaxItems] /\ \A b \in Arrays : b # a => size'[b] = size[b]
  BY <1>3, <1>6
<1>10. \A b \in Arrays : next'[b] \in 0 .. size'[b]
  <2>1. MaxItems \in Nat
    BY ListingAssumption
  <2>2. size'[a] \in Nat
    BY <1>9, <2>1
  <2>3. QED BY <1>2, <1>3, <1>5, <1>9, <2>2
<1>11. DOMAIN list' = Arrays /\ (\A b \in Arrays : DOMAIN list'[b] \subseteq Nat)
       /\ \A b \in Arrays : b # a => list'[b] = list[b]
  BY <1>3, <1>7
<1>12. Shapes'
  BY <1>1, <1>2, <1>3, <1>8, <1>9, <1>10, <1>11 DEF Shapes, TypeOK
<1>13. LoopKept'
  <2>1. \A b \in Arrays, i \in Index : Inner[b][i] # None => Inner[b][i] \in Arrays
    BY ArrayAssumption
  <2>2. ASSUME NEW b \in Arrays
        PROVE  /\ apc'[b] \in {"idle", "begin", "size"} => next'[b] = 0 /\ DOMAIN list'[b] = {}
               /\ apc'[b] = "acquire" => next'[b] < size'[b]
    BY <1>1, <1>2, <1>4, <1>9, <1>11 DEF LoopKept
  <2>3. ASSUME NEW b \in Arrays, NEW i \in Index
        PROVE  /\ item'[b][i] = "none" <=> next'[b] <= i
               /\ Inner[b][i] # None /\ Waits(item'[b][i]) => apc'[Inner[b][i]] = "idle"
    BY <1>1, <1>2, <1>4, <2>1 DEF LoopKept
  <2>4. QED BY <2>2, <2>3 DEF LoopKept, Waits
<1>14. SleepersKept'
  BY <1>1, <1>2, <1>4, SleepersFrame
<1>15. PermitsCounted'
  BY <1>1, <1>2 DEF PermitsCounted, ItemPermitsAccounted, Running
<1>16. QED BY <1>12, <1>13, <1>14, <1>15 DEF LoopIInv

\* The list of an array is put into its context.
LEMMA AppendKept ==
    ASSUME LoopIInv, NEW a \in Arrays, AddPrompt(a)
    PROVE  LoopIInv'
<1>1. Shapes /\ LoopKept /\ SleepersKept /\ PermitsCounted /\ TypeOK
  BY DEF LoopIInv, Shapes
<1>2. /\ apc[a] = "append" /\ apc' = [apc EXCEPT ![a] = "spawn"]
      /\ first' = [first EXCEPT ![context[a]] = IF slice[a] = None THEN a ELSE slice[a]]
      /\ UNCHANGED <<size, list, next, item, free, queue, granted, got, hint, line, slice, context,
                     question, asked, ended>>
  BY DEF AddPrompt
<1>3. apc \in [Arrays -> {"idle", "begin", "size", "append", "spawn", "acquire", "ok", "error"}]
  BY <1>1 DEF TypeOK
<1>4. apc'[a] = "spawn" /\ \A b \in Arrays : b # a => apc'[b] = apc[b]
  BY <1>2, <1>3
<1>5. PromptTypes'
  <2>1. PromptTypes /\ slice[a] \in Prompts /\ a \in Prompts
    BY <1>1 DEF TypeOK, PromptTypes, Prompts
  <2>2. first' \in [Contexts -> Prompts]
    BY <1>2, <2>1 DEF PromptTypes
  <2>3. QED BY <1>2, <2>1, <2>2 DEF PromptTypes
<1>6. Shapes'
  BY <1>1, <1>2, <1>3, <1>5 DEF Shapes, TypeOK
<1>7. LoopKept'
  <2>1. \A b \in Arrays, i \in Index : Inner[b][i] # None => Inner[b][i] \in Arrays
    BY ArrayAssumption
  <2>2. QED BY <1>1, <1>2, <1>4, <2>1, LoopFrame
<1>8. SleepersKept'
  BY <1>1, <1>2, <1>4, SleepersFrame
<1>9. PermitsCounted'
  BY <1>1, <1>2 DEF PermitsCounted, ItemPermitsAccounted, Running
<1>10. QED BY <1>6, <1>7, <1>8, <1>9 DEF LoopIInv

\* Process looks at the context before it asks for the size.
LEMMA BeginKept ==
    ASSUME LoopIInv, NEW a \in Arrays, Begin(a)
    PROVE  LoopIInv'
<1>1. PICK v : v = IF ended THEN "error" ELSE "size"
  OBVIOUS
<1>2. v \in {"size", "error"}
  BY <1>1
<1>3. QED BY <1>1, <1>2, MoveKept DEF Begin

\* The loop of an array starts its next item.
LEMMA StartedKept ==
    ASSUME Shapes, LoopKept, NEW a \in Arrays, StartItem(a), next[a] < size[a],
           apc[a] \in {"spawn", "acquire"}, apc' = [apc EXCEPT ![a] = "spawn"],
           UNCHANGED <<size, list, got, hint, promptVars, ended>>
    PROVE  /\ apc' \in [Arrays -> {"idle", "begin", "size", "append", "spawn", "acquire", "ok", "error"}]
           /\ item' \in [Arrays -> [Index -> ItemStates]]
           /\ next' \in [Arrays -> Nat] /\ \A b \in Arrays : next'[b] \in 0 .. size'[b]
           /\ LoopKept'
           /\ \E x : Running' = Running \cup {x} /\ x \notin Running
<1>1. /\ apc \in [Arrays -> {"idle", "begin", "size", "append", "spawn", "acquire", "ok", "error"}]
      /\ size \in [Arrays -> 0 .. MaxItems] /\ next \in [Arrays -> Nat]
      /\ item \in [Arrays -> [Index -> ItemStates]]
      /\ \A b \in Arrays : next[b] \in 0 .. size[b]
  BY DEF Shapes, TypeOK
<1>2. MaxItems \in Nat /\ \A b \in Arrays, i \in Index : Inner[b][i] # None => Inner[b][i] \in Arrays
  BY ArrayAssumption, ListingAssumption
<1>3. PICK n : n = next[a]
  OBVIOUS
<1>4. n \in Index /\ n \in Nat /\ n + 1 \in 0 .. size[a] /\ \A i \in Index : i \in Int
  BY <1>1, <1>2, <1>3 DEF Index
<1>5. PICK v : v = "start"
  OBVIOUS
<1>6. v \in ItemStates /\ v \in Active /\ item' = [item EXCEPT ![a][n] = v]
  BY <1>3, <1>5 DEF ItemStates, Active, StartItem
<1>7. item[a][n] = "none"
  BY <1>3, <1>4 DEF LoopKept
<1>8. item[a][n] \notin Active
  BY <1>7 DEF Active
<1>9. /\ item' \in [Arrays -> [Index -> ItemStates]] /\ item'[a][n] = "start"
      /\ \A b \in Arrays, j \in Index : b # a \/ j # n => item'[b][j] = item[b][j]
      /\ Running' = Running \cup {<<a, n>>} /\ <<a, n>> \notin Running
  BY <1>1, <1>4, <1>5, <1>6, <1>8, ItemChanges
<1>10. next'[a] = n + 1 /\ (\A b \in Arrays : b # a => next'[b] = next[b]) /\ next' \in [Arrays -> Nat]
  BY <1>1, <1>3, <1>4 DEF StartItem
<1>11. /\ apc'[a] = "spawn" /\ (\A b \in Arrays : b # a => apc'[b] = apc[b])
       /\ apc' \in [Arrays -> {"idle", "begin", "size", "append", "spawn", "acquire", "ok", "error"}]
  BY <1>1
<1>12. \A b \in Arrays : next'[b] \in 0 .. size'[b]
  BY <1>1, <1>4, <1>10
<1>13. LoopKept'
  <2>1. ASSUME NEW b \in Arrays
        PROVE  /\ apc'[b] \in {"idle", "begin", "size"} => next'[b] = 0 /\ DOMAIN list'[b] = {}
               /\ apc'[b] = "acquire" => next'[b] < size'[b]
    BY <1>10, <1>11 DEF LoopKept
  <2>2. ASSUME NEW b \in Arrays, NEW i \in Index
        PROVE  item'[b][i] = "none" <=> next'[b] <= i
    <3>1. CASE b = a /\ i = n
      BY <1>4, <1>9, <1>10, <3>1
    <3>2. CASE b = a /\ i # n
      <4>1. item'[b][i] = item[b][i] /\ (item[b][i] = "none" <=> n <= i)
        BY <1>3, <1>9, <3>2 DEF LoopKept
      <4>2. i \in Int /\ n \in Int /\ i # n
        BY <1>4, <3>2
      <4>3. n <= i <=> n + 1 <= i
        BY <4>2
      <4>4. QED BY <1>10, <3>2, <4>1, <4>3
    <3>3. CASE b # a
      BY <1>9, <1>10, <3>3 DEF LoopKept
    <3>4. QED BY <3>1, <3>2, <3>3
  <2>3. ASSUME NEW b \in Arrays, NEW i \in Index, Inner[b][i] # None, Waits(item'[b][i])
        PROVE  apc'[Inner[b][i]] = "idle"
    <3>1. Waits(item[b][i])
      BY <1>7, <1>9, <2>3 DEF Waits
    <3>2. apc[Inner[b][i]] = "idle" /\ Inner[b][i] \in Arrays
      BY <1>2, <2>3, <3>1 DEF LoopKept
    <3>3. QED BY <1>11, <3>2
  <2>4. QED BY <2>1, <2>2, <2>3 DEF LoopKept, Waits
<1>14. QED BY <1>9, <1>10, <1>11, <1>12, <1>13

\* The head of a queue and what is behind it.
LEMMA BehindHead ==
    ASSUME NEW S, NEW q \in Seq(S), q # <<>>
    PROVE  /\ 1 \in DOMAIN q /\ Head(q) = q[1] /\ Head(q) \in S /\ Tail(q) \in Seq(S)
           /\ \A k \in DOMAIN Tail(q) :
                k \in Int /\ k + 1 \in DOMAIN q /\ k + 1 # 1 /\ Tail(q)[k] = q[k + 1]
<1>1. Len(q) \in Nat /\ DOMAIN q = 1 .. Len(q) /\ Len(q) # 0
  BY EmptySeq, LenProperties
<1>2. Tail(q) \in Seq(S) /\ Len(Tail(q)) = Len(q) - 1 /\ \A k \in 1 .. Len(Tail(q)) : Tail(q)[k] = q[k + 1]
  BY HeadTailProperties
<1>3. DOMAIN Tail(q) = 1 .. Len(q) - 1
  BY <1>2, LenProperties
<1>4. 1 \in DOMAIN q /\ Head(q) = q[1] /\ Head(q) \in S
  BY <1>1, HeadTailProperties
<1>5. QED BY <1>1, <1>2, <1>3, <1>4

\* What a step leaves of the counts of the permits.
LEMMA CountKept ==
    ASSUME Shapes, PermitsCounted, IsFiniteSet(Running'), IsFiniteSet(granted'), free' \in Nat,
           free' + Cardinality(Running') + Cardinality(granted')
               = free + Cardinality(Running) + Cardinality(granted)
    PROVE  PermitsCounted' /\ free' \in 0 .. Permits
<1>1. /\ free + Cardinality(Running) + Cardinality(granted) = Permits /\ Permits \in Nat
  BY PermitNumbers
<1>2. Cardinality(Running') \in Nat /\ Cardinality(granted') \in Nat
  BY FS_CardinalityType
<1>3. free' + Cardinality(Running') + Cardinality(granted') = Permits
  BY <1>1
<1>4. free' <= Permits
  BY <1>1, <1>2, <1>3
<1>5. PermitsCounted'
  BY <1>3 DEF PermitsCounted, ItemPermitsAccounted
<1>6. QED BY <1>1, <1>4, <1>5
\* Acquire for the next item: at once, after a sleep, or not at all.
LEMMA AcquireKept ==
    ASSUME LoopIInv, NEW a \in Arrays, Acquire(a)
    PROVE  LoopIInv'
<1>1. Shapes /\ LoopKept /\ SleepersKept /\ PermitsCounted /\ TypeOK
  BY DEF LoopIInv, Shapes
<1>2. /\ apc[a] = "spawn" /\ next[a] < size[a]
      /\ UNCHANGED <<size, list, granted, got, hint, promptVars, ended>>
  BY DEF Acquire
<1>3. /\ apc \in [Arrays -> {"idle", "begin", "size", "append", "spawn", "acquire", "ok", "error"}]
      /\ queue \in Seq(Arrays) /\ granted \subseteq Arrays
  BY <1>1 DEF TypeOK
<1>4. CASE apc' = [apc EXCEPT ![a] = "error"] /\ UNCHANGED <<item, next, free, queue>>
  <2>1. PICK v : v = "error"
    OBVIOUS
  <2>2. QED BY <1>2, <1>4, <2>1, MoveKept
<1>5. CASE /\ free > 0 /\ free' = free - 1
           /\ StartItem(a) /\ UNCHANGED <<apc, queue>>
  <2>1. apc' = [apc EXCEPT ![a] = "spawn"]
    BY <1>2, <1>3, <1>5
  <2>2. /\ apc' \in [Arrays -> {"idle", "begin", "size", "append", "spawn", "acquire", "ok", "error"}]
        /\ item' \in [Arrays -> [Index -> ItemStates]]
        /\ next' \in [Arrays -> Nat] /\ \A b \in Arrays : next'[b] \in 0 .. size'[b]
        /\ LoopKept'
        /\ \E x : Running' = Running \cup {x} /\ x \notin Running
    BY <1>1, <1>2, <1>5, <2>1, StartedKept
  <2>3. SleepersKept'
    BY <1>1, <1>2, <1>5, SleepersFrame
  <2>4. PermitsCounted' /\ free' \in 0 .. Permits
    <3>1. IsFiniteSet(Running') /\ Cardinality(Running') = Cardinality(Running) + 1
      BY <1>1, <2>2, FS_AddElement DEF PermitsCounted
    <3>2. IsFiniteSet(granted') /\ Cardinality(granted') = Cardinality(granted)
      BY <1>1, <1>2 DEF PermitsCounted
    <3>3. free \in Nat /\ Cardinality(Running) \in Nat /\ Cardinality(granted) \in Nat
      BY <1>1, PermitNumbers
    <3>4. free' \in Nat /\ free' + Cardinality(Running') + Cardinality(granted')
                             = free + Cardinality(Running) + Cardinality(granted)
      BY <1>5, <3>1, <3>2, <3>3
    <3>5. QED BY <1>1, <3>1, <3>2, <3>4, CountKept
  <2>5. Shapes'
    BY <1>1, <1>2, <1>5, <2>2, <2>4, PromptsStay DEF Shapes, TypeOK
  <2>6. QED BY <2>2, <2>3, <2>4, <2>5 DEF LoopIInv
<1>6. CASE /\ queue' = Append(queue, a)
           /\ apc' = [apc EXCEPT ![a] = "acquire"] /\ UNCHANGED <<item, next, free>>
  <2>1. /\ apc'[a] = "acquire" /\ (\A b \in Arrays : b # a => apc'[b] = apc[b])
        /\ apc' \in [Arrays -> {"idle", "begin", "size", "append", "spawn", "acquire", "ok", "error"}]
    BY <1>3, <1>6
  <2>2. LoopKept'
    <3>1. \A b \in Arrays, i \in Index : Inner[b][i] # None => Inner[b][i] \in Arrays
      BY ArrayAssumption
    <3>2. QED BY <1>1, <1>2, <1>6, <2>1, <3>1, LoopFrame
  <2>3. PICK n \in Nat : n = Len(queue) /\ DOMAIN queue = 1 .. n
    BY <1>3, LenProperties
  <2>4. /\ queue' \in Seq(Arrays) /\ DOMAIN queue' = 1 .. n + 1 /\ queue'[n + 1] = a
        /\ \A m \in 1 .. n : queue'[m] = queue[m]
    BY <1>3, <1>6, <2>3, AppendProperties, LenProperties
  <2>5. \A m \in 1 .. n : queue[m] \in Arrays /\ apc[queue[m]] = "acquire" /\ queue[m] \notin granted
    BY <1>1, <1>3, <2>3 DEF SleepersKept
  <2>6. a \notin granted /\ (\A m \in 1 .. n : queue[m] # a)
    BY <1>1, <1>2, <2>5 DEF SleepersKept
  <2>7. SleepersKept'
    <3>1. \A m \in 1 .. n + 1 : m \in 1 .. n \/ m = n + 1
      OBVIOUS
    <3>2. \A m \in DOMAIN queue' : apc'[queue'[m]] = "acquire" /\ queue'[m] \notin granted'
      BY <1>2, <2>1, <2>4, <2>5, <2>6, <3>1
    <3>3. \A m, k \in 1 .. n : queue[m] = queue[k] => m = k
      BY <1>1, <2>3 DEF SleepersKept
    <3>4. \A m, k \in DOMAIN queue' : queue'[m] = queue'[k] => m = k
      BY <2>4, <2>6, <3>1, <3>3
    <3>5. \A b \in granted' : apc'[b] = "acquire"
      BY <1>1, <1>2, <1>3, <2>1 DEF SleepersKept
    <3>6. QED BY <3>2, <3>4, <3>5 DEF SleepersKept
  <2>8. PermitsCounted'
    BY <1>1, <1>2, <1>6 DEF PermitsCounted, ItemPermitsAccounted, Running
  <2>9. Shapes'
    BY <1>1, <1>2, <1>6, <2>1, <2>4, PromptsStay DEF Shapes, TypeOK
  <2>10. QED BY <2>2, <2>7, <2>8, <2>9 DEF LoopIInv
<1>7. QED BY <1>4, <1>5, <1>6 DEF Acquire

\* A permit handed on at the end of an item or of a wait: g is granted without the array
\* that gives its permit up, if it had one.
LEMMA HandedOn ==
    ASSUME Shapes, SleepersKept, PermitsCounted, NEW g \in SUBSET granted, IsFiniteSet(g),
           IF queue = <<>>
           THEN free' = free + 1 /\ granted' = g /\ queue' = queue
           ELSE granted' = g \cup {Head(queue)} /\ queue' = Tail(queue) /\ free' = free
    PROVE  /\ queue' \in Seq(Arrays) /\ granted' \subseteq Arrays /\ free' \in Nat
           /\ IsFiniteSet(granted') /\ free' + Cardinality(granted') = free + Cardinality(g) + 1
           /\ \A m \in DOMAIN queue' :
                /\ queue'[m] \in Arrays /\ queue'[m] \notin granted'
                /\ \E k \in DOMAIN queue : queue'[m] = queue[k]
           /\ \A m, n \in DOMAIN queue' : queue'[m] = queue'[n] => m = n
           /\ \A b \in granted' : b \in g \/ \E k \in DOMAIN queue : b = queue[k]
<1>1. /\ queue \in Seq(Arrays) /\ granted \subseteq Arrays
      /\ \A m \in DOMAIN queue : queue[m] \in Arrays /\ queue[m] \notin granted
      /\ \A m, n \in DOMAIN queue : queue[m] = queue[n] => m = n
  BY DEF Shapes, TypeOK, SleepersKept
<1>2. free \in Nat /\ Cardinality(g) \in Nat
  BY PermitNumbers, FS_CardinalityType
<1>3. CASE queue = <<>>
  BY <1>1, <1>2, <1>3
<1>4. CASE queue # <<>>
  <2>1. granted' = g \cup {Head(queue)} /\ queue' = Tail(queue) /\ free' = free
    BY <1>4
  <2>2. /\ 1 \in DOMAIN queue /\ Head(queue) = queue[1] /\ Head(queue) \in Arrays
        /\ Tail(queue) \in Seq(Arrays)
        /\ \A k \in DOMAIN Tail(queue) :
             k \in Int /\ k + 1 \in DOMAIN queue /\ k + 1 # 1 /\ Tail(queue)[k] = queue[k + 1]
    BY <1>1, <1>4, BehindHead
  <2>3. Head(queue) \notin g
    BY <1>1, <2>2
  <2>4. IsFiniteSet(granted') /\ Cardinality(granted') = Cardinality(g) + 1
    BY <2>1, <2>3, FS_AddElement
  <2>5. \A m \in DOMAIN queue' :
          /\ queue'[m] \in Arrays /\ queue'[m] \notin granted'
          /\ \E k \in DOMAIN queue : queue'[m] = queue[k]
    BY <1>1, <2>1, <2>2
  <2>6. \A m, n \in DOMAIN queue' : queue'[m] = queue'[n] => m = n
    <3>1. TAKE m, n \in DOMAIN queue'
    <3>2. HAVE queue'[m] = queue'[n]
    <3>3. m \in Int /\ n \in Int /\ m + 1 = n + 1
      BY <1>1, <2>1, <2>2, <3>2
    <3>4. QED BY <3>3
  <2>7. free' + Cardinality(granted') = free + Cardinality(g) + 1
    BY <1>2, <2>1, <2>4
  <2>8. \A b \in granted' : b \in g \/ \E k \in DOMAIN queue : b = queue[k]
    BY <2>1, <2>2
  <2>9. QED BY <1>1, <1>2, <2>1, <2>2, <2>4, <2>5, <2>6, <2>7, <2>8
<1>5. QED BY <1>3, <1>4

\* Acquire returns after a sleep.
LEMMA AcquiredKept ==
    ASSUME LoopIInv, NEW a \in Arrays, Acquired(a)
    PROVE  LoopIInv'
<1>1. Shapes /\ LoopKept /\ SleepersKept /\ PermitsCounted /\ TypeOK
  BY DEF LoopIInv, Shapes
<1>2. /\ apc[a] = "acquire"
      /\ UNCHANGED <<size, list, got, hint, promptVars, ended>>
  BY DEF Acquired
<1>3. /\ apc \in [Arrays -> {"idle", "begin", "size", "append", "spawn", "acquire", "ok", "error"}]
      /\ queue \in Seq(Arrays) /\ granted \subseteq Arrays
      /\ \A m \in DOMAIN queue : queue[m] \in Arrays /\ apc[queue[m]] = "acquire" /\ queue[m] \notin granted
      /\ \A m, n \in DOMAIN queue : queue[m] = queue[n] => m = n
      /\ \A b \in granted : apc[b] = "acquire"
  BY <1>1 DEF TypeOK, SleepersKept
<1>4. /\ free \in Nat /\ Cardinality(Running) \in Nat /\ Cardinality(granted) \in Nat
      /\ IsFiniteSet(Running) /\ IsFiniteSet(granted)
  BY <1>1, PermitNumbers DEF PermitsCounted
<1>5. a \in granted => /\ IsFiniteSet(granted \ {a})
                      /\ Cardinality(granted \ {a}) = Cardinality(granted) - 1
  BY <1>4, FS_RemoveElement
<1>6. CASE /\ a \in granted /\ granted' = granted \ {a} /\ StartItem(a)
           /\ apc' = [apc EXCEPT ![a] = "spawn"] /\ UNCHANGED <<free, queue>>
  <2>1. next[a] < size[a]
    BY <1>1, <1>2 DEF LoopKept
  <2>2. /\ apc' \in [Arrays -> {"idle", "begin", "size", "append", "spawn", "acquire", "ok", "error"}]
        /\ item' \in [Arrays -> [Index -> ItemStates]]
        /\ next' \in [Arrays -> Nat] /\ \A b \in Arrays : next'[b] \in 0 .. size'[b]
        /\ LoopKept'
        /\ \E x : Running' = Running \cup {x} /\ x \notin Running
    BY <1>1, <1>2, <1>6, <2>1, StartedKept
  <2>3. \A b \in Arrays : b # a => apc'[b] = apc[b]
    BY <1>3, <1>6
  <2>4. SleepersKept'
    <3>1. \A m \in DOMAIN queue : queue[m] # a
      BY <1>3, <1>6
    <3>2. QED BY <1>3, <1>6, <2>3, <3>1 DEF SleepersKept
  <2>5. PermitsCounted' /\ free' \in 0 .. Permits
    <3>1. IsFiniteSet(Running') /\ Cardinality(Running') = Cardinality(Running) + 1
      BY <1>4, <2>2, FS_AddElement
    <3>2. IsFiniteSet(granted') /\ Cardinality(granted') = Cardinality(granted) - 1
      BY <1>5, <1>6
    <3>3. free' \in Nat /\ free' + Cardinality(Running') + Cardinality(granted')
                             = free + Cardinality(Running) + Cardinality(granted)
      BY <1>4, <1>6, <3>1, <3>2
    <3>4. QED BY <1>1, <3>1, <3>2, <3>3, CountKept
  <2>6. granted' \subseteq Arrays
    BY <1>3, <1>6
  <2>7. Shapes'
    BY <1>1, <1>2, <1>6, <2>2, <2>5, <2>6, PromptsStay DEF Shapes, TypeOK
  <2>8. QED BY <2>2, <2>4, <2>5, <2>7 DEF LoopIInv
<1>7. ASSUME apc' = [apc EXCEPT ![a] = "error"], UNCHANGED <<item, next>>
      PROVE  /\ apc'[a] = "error" /\ (\A b \in Arrays : b # a => apc'[b] = apc[b])
             /\ apc' \in [Arrays -> {"idle", "begin", "size", "append", "spawn", "acquire", "ok", "error"}]
             /\ LoopKept' /\ Running' = Running
  <2>1. /\ apc'[a] = "error" /\ (\A b \in Arrays : b # a => apc'[b] = apc[b])
        /\ apc' \in [Arrays -> {"idle", "begin", "size", "append", "spawn", "acquire", "ok", "error"}]
    BY <1>3, <1>7
  <2>2. \A b \in Arrays, i \in Index : Inner[b][i] # None => Inner[b][i] \in Arrays
    BY ArrayAssumption
  <2>3. LoopKept'
    BY <1>1, <1>2, <1>7, <2>1, <2>2, LoopFrame
  <2>4. Running' = Running
    BY <1>7 DEF Running
  <2>5. QED BY <2>1, <2>3, <2>4
<1>8. CASE /\ a \in granted /\ apc' = [apc EXCEPT ![a] = "error"] /\ UNCHANGED <<item, next>>
           /\ IF queue = <<>>
              THEN free' = free + 1 /\ granted' = granted \ {a} /\ UNCHANGED queue
              ELSE granted' = (granted \ {a}) \cup {Head(queue)} /\ queue' = Tail(queue) /\ UNCHANGED free
  <2>1. /\ apc'[a] = "error" /\ (\A b \in Arrays : b # a => apc'[b] = apc[b])
        /\ apc' \in [Arrays -> {"idle", "begin", "size", "append", "spawn", "acquire", "ok", "error"}]
        /\ LoopKept' /\ Running' = Running
    BY <1>7, <1>8
  <2>2. PICK g : g = granted \ {a}
    OBVIOUS
  <2>3. g \in SUBSET granted /\ IsFiniteSet(g) /\ Cardinality(g) = Cardinality(granted) - 1
    BY <1>5, <1>8, <2>2
  <2>4. IF queue = <<>>
        THEN free' = free + 1 /\ granted' = g /\ queue' = queue
        ELSE granted' = g \cup {Head(queue)} /\ queue' = Tail(queue) /\ free' = free
    BY <1>8, <2>2
  <2>5. /\ queue' \in Seq(Arrays) /\ granted' \subseteq Arrays /\ free' \in Nat
        /\ IsFiniteSet(granted') /\ free' + Cardinality(granted') = free + Cardinality(g) + 1
        /\ \A m \in DOMAIN queue' :
             /\ queue'[m] \in Arrays /\ queue'[m] \notin granted'
             /\ \E k \in DOMAIN queue : queue'[m] = queue[k]
        /\ \A m, n \in DOMAIN queue' : queue'[m] = queue'[n] => m = n
        /\ \A b \in granted' : b \in g \/ \E k \in DOMAIN queue : b = queue[k]
    BY <1>1, <2>3, <2>4, HandedOn
  <2>6. SleepersKept'
    <3>1. \A k \in DOMAIN queue : queue[k] # a
      BY <1>3, <1>8
    <3>2. \A m \in DOMAIN queue' : apc'[queue'[m]] = "acquire"
      BY <1>3, <2>1, <2>5, <3>1
    <3>3. \A b \in granted' : apc'[b] = "acquire"
      BY <1>3, <2>1, <2>2, <2>5, <3>1
    <3>4. QED BY <2>5, <3>2, <3>3 DEF SleepersKept
  <2>7. PermitsCounted' /\ free' \in 0 .. Permits
    <3>1. Cardinality(granted') \in Nat
      BY <2>5, FS_CardinalityType
    <3>2. free' + Cardinality(Running') + Cardinality(granted')
            = free + Cardinality(Running) + Cardinality(granted)
      BY <1>4, <2>1, <2>3, <2>5, <3>1, SMTT(40)
    <3>3. IsFiniteSet(Running')
      BY <1>4, <2>1
    <3>4. QED BY <1>1, <2>5, <3>2, <3>3, CountKept
  <2>8. Shapes'
    BY <1>1, <1>2, <1>8, <2>1, <2>5, <2>7, PromptsStay DEF Shapes, TypeOK
  <2>9. QED BY <2>1, <2>6, <2>7, <2>8 DEF LoopIInv
<1>9. CASE /\ a \notin granted /\ apc' = [apc EXCEPT ![a] = "error"]
           /\ \E i \in DOMAIN queue : queue[i] = a /\ queue' = RemoveAt(queue, i)
           /\ UNCHANGED <<item, next, free, granted>>
  <2>1. /\ apc'[a] = "error" /\ (\A b \in Arrays : b # a => apc'[b] = apc[b])
        /\ apc' \in [Arrays -> {"idle", "begin", "size", "append", "spawn", "acquire", "ok", "error"}]
        /\ LoopKept' /\ Running' = Running
    BY <1>7, <1>9
  <2>2. PICK i \in DOMAIN queue : queue[i] = a /\ queue' = RemoveAt(queue, i)
    BY <1>9
  <2>3. i \in Int
    BY <1>3, <2>2
  <2>4. /\ queue' \in Seq(Arrays)
        /\ \A k \in DOMAIN queue' :
             /\ k \in Int
             /\ (IF k < i THEN k ELSE k + 1) \in DOMAIN queue
             /\ queue'[k] = queue[IF k < i THEN k ELSE k + 1]
    BY <1>3, <2>2, TakenOut
  <2>5. \A k \in DOMAIN queue' : \E m \in DOMAIN queue : m # i /\ queue'[k] = queue[m]
    BY <2>3, <2>4
  <2>6. \A m, n \in DOMAIN queue' : queue'[m] = queue'[n] => m = n
    <3>1. TAKE m, n \in DOMAIN queue'
    <3>2. HAVE queue'[m] = queue'[n]
    <3>3. m \in Int /\ n \in Int
          /\ (IF m < i THEN m ELSE m + 1) = (IF n < i THEN n ELSE n + 1)
      BY <1>3, <2>4, <3>2
    <3>4. QED BY <2>3, <3>3
  <2>7. SleepersKept'
    <3>1. \A m \in DOMAIN queue : m # i => queue[m] # a
      BY <1>3, <2>2
    <3>2. \A k \in DOMAIN queue' : apc'[queue'[k]] = "acquire" /\ queue'[k] \notin granted'
      BY <1>3, <1>9, <2>1, <2>5, <3>1
    <3>3. \A b \in granted' : apc'[b] = "acquire"
      BY <1>3, <1>9, <2>1
    <3>4. QED BY <2>6, <3>2, <3>3 DEF SleepersKept
  <2>8. PermitsCounted'
    BY <1>1, <1>9, <2>1 DEF PermitsCounted, ItemPermitsAccounted
  <2>9. Shapes'
    BY <1>1, <1>2, <1>9, <2>1, <2>4, PromptsStay DEF Shapes, TypeOK
  <2>10. QED BY <2>1, <2>7, <2>8, <2>9 DEF LoopIInv
<1>10. QED BY <1>6, <1>8, <1>9 DEF Acquired

\* No loop goes back or starts to sleep, and the arrays that are other items stay idle.
StagesKept(a, i) ==
    /\ \A b \in Arrays :
         /\ apc'[b] \in {"idle", "begin", "size"} => apc[b] \in {"idle", "begin", "size"}
         /\ apc'[b] = "acquire" <=> apc[b] = "acquire"
    /\ \A b \in Arrays, j \in Index :
          (b # a \/ j # i) /\ Inner[b][j] # None /\ apc[Inner[b][j]] = "idle" => apc'[Inner[b][j]] = "idle"

\* A step of an item that keeps its permit, or of an item that has given it back.
LEMMA ItemMoves ==
    ASSUME LoopIInv, NEW a \in Arrays, NEW i \in Index, NEW v \in ItemStates,
           item[a][i] # "none", ~Waits(v), v \in Active <=> item[a][i] \in Active,
           item' = [item EXCEPT ![a][i] = v],
           UNCHANGED <<size, list, next, free, queue, granted, ended>>,
           StagesKept(a, i), Shapes'
    PROVE  LoopIInv'
<1>1. Shapes /\ LoopKept /\ SleepersKept /\ PermitsCounted /\ TypeOK
  BY DEF LoopIInv, Shapes
<1>2. item \in [Arrays -> [Index -> ItemStates]]
  BY <1>1 DEF TypeOK
<1>3. /\ item'[a][i] = v
      /\ \A b \in Arrays, j \in Index : b # a \/ j # i => item'[b][j] = item[b][j]
      /\ (v \in Active <=> item[a][i] \in Active) => Running' = Running
  <2>1. /\ item'[a][i] = v
        /\ \A b \in Arrays, j \in Index : b # a \/ j # i => item'[b][j] = item[b][j]
    BY <1>2
  <2>2. (v \in Active <=> item[a][i] \in Active) => Running' = Running
    BY <1>2, ItemChanges
  <2>3. QED BY <2>1, <2>2
<1>4. v # "none"
  BY DEF Waits
<1>5. \A b \in Arrays, j \in Index :
        /\ item'[b][j] = "none" <=> item[b][j] = "none"
        /\ Waits(item'[b][j]) => Waits(item[b][j]) /\ (b # a \/ j # i)
  BY <1>3, <1>4
<1>6. LoopKept'
  BY <1>1, <1>5, LoopFrame DEF StagesKept
<1>7. SleepersKept'
  BY <1>1, SleepersFrame DEF StagesKept
<1>8. PermitsCounted'
  <2>1. Running' = Running
    BY <1>3
  <2>2. QED BY <1>1, <2>1 DEF PermitsCounted, ItemPermitsAccounted
<1>9. QED BY <1>6, <1>7, <1>8 DEF LoopIInv

\* An item starts; if it is an array, that array begins.
LEMMA ProcessingKept ==
    ASSUME LoopIInv, NEW a \in Arrays, NEW i \in Index, StartProcessing(a, i)
    PROVE  LoopIInv'
<1>1. Shapes /\ LoopKept /\ TypeOK
  BY DEF LoopIInv, Shapes
<1>2. /\ apc \in [Arrays -> {"idle", "begin", "size", "append", "spawn", "acquire", "ok", "error"}]
      /\ item \in [Arrays -> [Index -> ItemStates]]
      /\ PromptTypes
      /\ DOMAIN hint = Arrays /\ \A b \in Arrays : DOMAIN hint[b] = Index
  BY <1>1 DEF Shapes, TypeOK
<1>3. PICK own, up, k, b, v :
        /\ own = ExtractItemFromList(list[a], i) /\ up = context[a]
        /\ k = (IF own # 0 THEN <<a, i>> ELSE up)
        /\ b = Inner[a][i] /\ v = "process"
  OBVIOUS
<1>4. /\ item[a][i] = "start" /\ hint' = [hint EXCEPT ![a][i] = own]
      /\ first' = [first EXCEPT ![k] = first[up]]
      /\ line' = [line EXCEPT ![k] = IF own # 0 THEN <<a, i>> ELSE line[up]]
      /\ item' = [item EXCEPT ![a][i] = v]
      /\ IF b = None
         THEN asked' = [asked EXCEPT ![a][i] = {[first |-> first'[k], line |-> line'[k]]}] /\ UNCHANGED <<apc, context>>
         ELSE /\ apc' = [apc EXCEPT ![b] = "begin"]
              /\ context' = [context EXCEPT ![b] = k] /\ UNCHANGED asked
      /\ UNCHANGED <<size, list, next, free, queue, granted, got, slice, question, ended>>
  BY <1>3 DEF StartProcessing
<1>5. /\ k \in Contexts /\ up \in Contexts /\ <<a, i>> \in Contexts
      /\ first' \in [Contexts -> Prompts] /\ line' \in [Contexts -> Contexts]
  <2>1. k \in Contexts /\ up \in Contexts /\ <<a, i>> \in Contexts
    BY <1>2, <1>3 DEF Items, Contexts, PromptTypes
  <2>2. first[up] \in Prompts /\ (IF own # 0 THEN <<a, i>> ELSE line[up]) \in Contexts
    BY <1>2, <2>1 DEF PromptTypes
  <2>3. QED BY <1>2, <1>4, <2>1, <2>2 DEF PromptTypes
<1>6. b = None \/ (b \in Arrays /\ apc[b] = "idle")
  <2>1. b \in Arrays \cup {None}
    BY <1>3, ArrayAssumption
  <2>2. b # None => apc[b] = "idle"
    BY <1>1, <1>3, <1>4 DEF LoopKept, Waits
  <2>3. QED BY <2>1, <2>2
<1>7. v \in ItemStates /\ ~Waits(v) /\ v \in Active /\ item[a][i] \in Active /\ item[a][i] # "none"
  BY <1>3, <1>4 DEF ItemStates, Waits, Active
<1>8. item' \in [Arrays -> [Index -> ItemStates]]
  BY <1>2, <1>4, <1>7
<1>9. \/ asked' = asked \/ asked' = [asked EXCEPT ![a][i] = {[first |-> first'[k], line |-> line'[k]]}]
  BY <1>4
<1>10. DOMAIN hint' = Arrays /\ \A c \in Arrays : DOMAIN hint'[c] = Index
  BY <1>2, <1>4
<1>11. asked' \in [Arrays -> [Index -> SUBSET Requests]]
  <2>1. asked \in [Arrays -> [Index -> SUBSET Requests]]
    BY <1>2 DEF PromptTypes
  <2>2. [first |-> first'[k], line |-> line'[k]] \in Requests
    BY <1>5 DEF Requests
  <2>3. PICK q : q = [first |-> first'[k], line |-> line'[k]]
    OBVIOUS
  <2>4. asked' = asked \/ asked' = [asked EXCEPT ![a][i] = {q}]
    BY <1>9, <2>3
  <2>5. {q} \in SUBSET Requests
    BY <2>2, <2>3
  <2>6. QED BY <2>1, <2>4, <2>5
<1>12. CASE b = None
  <2>1. apc' = apc /\ context' = context
    BY <1>4, <1>12
  <2>2. Shapes'
    <3>1. context' \in [Arrays -> Contexts]
      BY <1>2, <1>5, <2>1 DEF PromptTypes
    <3>2. PromptTypes'
      BY <1>2, <1>4, <1>5, <1>11, <3>1 DEF PromptTypes
    <3>3. QED BY <1>1, <1>2, <1>4, <1>8, <1>10, <2>1, <3>2 DEF Shapes, TypeOK
  <2>3. StagesKept(a, i)
    BY <2>1 DEF StagesKept
  <2>4. QED BY <1>4, <1>7, <2>2, <2>3, ItemMoves
<1>13. CASE b # None
  <2>1. /\ context' = [context EXCEPT ![b] = k]
        /\ apc' \in [Arrays -> {"idle", "begin", "size", "append", "spawn", "acquire", "ok", "error"}]
        /\ apc'[b] = "begin" /\ apc[b] = "idle" /\ \A c \in Arrays : c # b => apc'[c] = apc[c]
    <3>1. apc' = [apc EXCEPT ![b] = "begin"] /\ context' = [context EXCEPT ![b] = k]
      BY <1>4, <1>13
    <3>2. b \in Arrays /\ apc[b] = "idle"
      BY <1>6, <1>13
    <3>3. apc \in [Arrays -> {"idle", "begin", "size", "append", "spawn", "acquire", "ok", "error"}]
      BY <1>2
    <3>4. QED BY <3>1, <3>2, <3>3
  <2>2. Shapes'
    <3>1. context' \in [Arrays -> Contexts]
      BY <1>2, <1>5, <2>1 DEF PromptTypes
    <3>2. PromptTypes'
      BY <1>2, <1>4, <1>5, <1>11, <3>1 DEF PromptTypes
    <3>3. QED BY <1>1, <1>2, <1>4, <1>8, <1>10, <2>1, <3>2 DEF Shapes, TypeOK
  <2>3. \A c \in Arrays, j \in Index : (c # a \/ j # i) /\ Inner[c][j] # None => Inner[c][j] # b /\ Inner[c][j] \in Arrays
    BY <1>3, <1>13, TreeAssumption, ArrayAssumption
  <2>4. \A c \in Arrays, j \in Index :
          (c # a \/ j # i) /\ Inner[c][j] # None /\ apc[Inner[c][j]] = "idle" => apc'[Inner[c][j]] = "idle"
    BY <2>1, <2>3
  <2>5. \A c \in Arrays : /\ apc'[c] \in {"idle", "begin", "size"} => apc[c] \in {"idle", "begin", "size"}
                          /\ apc'[c] = "acquire" <=> apc[c] = "acquire"
    BY <2>1
  <2>6. UNCHANGED <<size, list, next, free, queue, granted, ended>>
    BY <1>4
  <2>7. v \in Active <=> item[a][i] \in Active
    BY <1>7
  <2>8. item' = [item EXCEPT ![a][i] = v]
    BY <1>4
  <2>9. StagesKept(a, i)
    BY <2>4, <2>5, Zenon DEF StagesKept
  <2>10. QED BY <1>7, <2>2, <2>6, <2>7, <2>8, <2>9, ItemMoves
<1>14. QED BY <1>12, <1>13

\* The processor of an item returns.
LEMMA ItemDoneKept ==
    ASSUME LoopIInv, NEW a \in Arrays, NEW i \in Index, ItemDone(a, i)
    PROVE  LoopIInv'
<1>1. PICK v : v \in {"value", "error"} /\ item' = [item EXCEPT ![a][i] = v]
  BY DEF ItemDone
<1>2. /\ item[a][i] = "process"
      /\ UNCHANGED <<apc, size, list, next, free, queue, granted, got, hint, promptVars, ended>>
  BY DEF ItemDone
<1>3. v \in ItemStates /\ ~Waits(v) /\ v \in Active /\ item[a][i] \in Active /\ item[a][i] # "none"
  BY <1>1, <1>2 DEF ItemStates, Waits, Active
<1>4. Shapes /\ TypeOK
  BY DEF LoopIInv, Shapes
<1>5. item' \in [Arrays -> [Index -> ItemStates]]
  BY <1>1, <1>3, <1>4 DEF TypeOK
<1>6. Shapes'
  BY <1>2, <1>4, <1>5, PromptsStay DEF Shapes, TypeOK
<1>7. StagesKept(a, i)
  BY <1>2 DEF StagesKept
<1>8. QED BY <1>1, <1>2, <1>3, <1>6, <1>7, ItemMoves

\* An item ends and releases its permit.
LEMMA SendKept ==
    ASSUME LoopIInv, NEW a \in Arrays, NEW i \in Index, SendItem(a, i)
    PROVE  LoopIInv'
<1>1. Shapes /\ LoopKept /\ SleepersKept /\ PermitsCounted /\ TypeOK
  BY DEF LoopIInv, Shapes
<1>2. PICK v : v \in {"sentValue", "sentError", "gone"} /\ item' = [item EXCEPT ![a][i] = v]
  BY DEF SendItem
<1>3. /\ item[a][i] \in {"value", "error"} /\ HandOn
      /\ UNCHANGED <<apc, size, next, list, got, hint, promptVars, ended>>
  BY DEF SendItem
<1>4. v \in ItemStates /\ ~Waits(v) /\ v \notin Active /\ item[a][i] \in Active /\ item[a][i] # "none" /\ v # "none"
  BY <1>2, <1>3 DEF ItemStates, Waits, Active
<1>5. item \in [Arrays -> [Index -> ItemStates]]
  BY <1>1 DEF TypeOK
<1>6. /\ item' \in [Arrays -> [Index -> ItemStates]] /\ item'[a][i] = v
      /\ \A b \in Arrays, j \in Index : b # a \/ j # i => item'[b][j] = item[b][j]
      /\ Running' = Running \ {<<a, i>>} /\ <<a, i>> \in Running
  BY <1>2, <1>4, <1>5, ItemChanges
<1>7. LoopKept'
  <2>1. \A b \in Arrays, j \in Index :
          /\ item'[b][j] = "none" <=> item[b][j] = "none"
          /\ Waits(item'[b][j]) => Waits(item[b][j])
    BY <1>4, <1>6
  <2>2. QED BY <1>1, <1>3, <2>1, LoopFrame
<1>8. /\ free \in Nat /\ Cardinality(Running) \in Nat /\ Cardinality(granted) \in Nat
      /\ IsFiniteSet(Running) /\ IsFiniteSet(granted)
  BY <1>1, PermitNumbers DEF PermitsCounted
<1>9. PICK g : g = granted
  OBVIOUS
<1>10. IF queue = <<>>
       THEN free' = free + 1 /\ granted' = g /\ queue' = queue
       ELSE granted' = g \cup {Head(queue)} /\ queue' = Tail(queue) /\ free' = free
  BY <1>3, <1>9 DEF HandOn
<1>11. /\ queue' \in Seq(Arrays) /\ granted' \subseteq Arrays /\ free' \in Nat
       /\ IsFiniteSet(granted') /\ free' + Cardinality(granted') = free + Cardinality(g) + 1
       /\ \A m \in DOMAIN queue' :
            /\ queue'[m] \in Arrays /\ queue'[m] \notin granted'
            /\ \E k \in DOMAIN queue : queue'[m] = queue[k]
       /\ \A m, n \in DOMAIN queue' : queue'[m] = queue'[n] => m = n
       /\ \A b \in granted' : b \in g \/ \E k \in DOMAIN queue : b = queue[k]
  BY <1>1, <1>8, <1>9, <1>10, HandedOn
<1>12. SleepersKept'
  <2>1. \A m \in DOMAIN queue' : apc'[queue'[m]] = "acquire"
    BY <1>1, <1>3, <1>11 DEF SleepersKept
  <2>2. \A b \in granted' : apc'[b] = "acquire"
    BY <1>1, <1>3, <1>9, <1>11 DEF SleepersKept
  <2>3. QED BY <1>11, <2>1, <2>2 DEF SleepersKept
<1>13. PermitsCounted' /\ free' \in 0 .. Permits
  <2>1. IsFiniteSet(Running') /\ Cardinality(Running') = Cardinality(Running) - 1
    BY <1>6, <1>8, FS_RemoveElement
  <2>2. Cardinality(granted') \in Nat
    BY <1>11, FS_CardinalityType
  <2>3. free' + Cardinality(Running') + Cardinality(granted')
          = free + Cardinality(Running) + Cardinality(granted)
    BY <1>8, <1>9, <1>11, <2>1, <2>2
  <2>4. QED BY <1>1, <1>11, <2>1, <2>3, CountKept
<1>14. Shapes'
  BY <1>1, <1>3, <1>6, <1>11, <1>13, PromptsStay DEF Shapes, TypeOK
<1>15. QED BY <1>7, <1>12, <1>13, <1>14 DEF LoopIInv

\* The collecting loop takes a result, or ends.
LEMMA CollectKept ==
    ASSUME LoopIInv, NEW a \in Arrays, Collect(a)
    PROVE  LoopIInv'
<1>1. Shapes /\ LoopKept /\ TypeOK
  BY DEF LoopIInv, Shapes
<1>2. /\ apc[a] = "spawn"
      /\ UNCHANGED <<size, list, next, free, queue, granted, hint, promptVars, ended>>
  BY DEF Collect
<1>3. /\ apc \in [Arrays -> {"idle", "begin", "size", "append", "spawn", "acquire", "ok", "error"}]
      /\ item \in [Arrays -> [Index -> ItemStates]] /\ DOMAIN got = Arrays
  BY <1>1 DEF Shapes, TypeOK
<1>4. CASE /\ \E v \in {"ok", "error"} : apc' = [apc EXCEPT ![a] = v]
           /\ UNCHANGED <<got, item>>
  <2>1. PICK v \in {"ok", "error"} : apc' = [apc EXCEPT ![a] = v]
    BY <1>4
  <2>2. QED BY <1>2, <1>4, <2>1, MoveKept
<1>5. CASE \E i \in Index, v \in {"taken", "gone"} :
             /\ item[a][i] \in {"sentValue", "sentError"}
             /\ item' = [item EXCEPT ![a][i] = v]
             /\ apc' = apc \/ apc' = [apc EXCEPT ![a] = "error"]
             /\ DOMAIN got' = Arrays
  <2>1. PICK i \in Index, v \in {"taken", "gone"} :
             /\ item[a][i] \in {"sentValue", "sentError"}
             /\ item' = [item EXCEPT ![a][i] = v]
             /\ apc' = apc \/ apc' = [apc EXCEPT ![a] = "error"]
             /\ DOMAIN got' = Arrays
    BY <1>5
  <2>2. v \in ItemStates /\ ~Waits(v) /\ v \notin Active /\ item[a][i] \notin Active /\ item[a][i] # "none"
    BY <2>1 DEF ItemStates, Waits, Active
  <2>3. item' \in [Arrays -> [Index -> ItemStates]]
    BY <1>3, <2>1, <2>2
  <2>4. /\ apc' \in [Arrays -> {"idle", "begin", "size", "append", "spawn", "acquire", "ok", "error"}]
        /\ apc'[a] \in {"spawn", "error"} /\ \A b \in Arrays : b # a => apc'[b] = apc[b]
    BY <1>2, <1>3, <2>1
  <2>5. Shapes'
    BY <1>1, <1>2, <2>1, <2>3, <2>4, PromptsStay DEF Shapes, TypeOK
  <2>6. \A b \in Arrays, j \in Index : Inner[b][j] # None => Inner[b][j] \in Arrays
    BY ArrayAssumption
  <2>7. \A b \in Arrays, j \in Index :
          (b # a \/ j # i) /\ Inner[b][j] # None /\ apc[Inner[b][j]] = "idle" => apc'[Inner[b][j]] = "idle"
    BY <1>2, <2>4, <2>6
  <2>8. \A b \in Arrays : /\ apc'[b] \in {"idle", "begin", "size"} => apc[b] \in {"idle", "begin", "size"}
                          /\ apc'[b] = "acquire" <=> apc[b] = "acquire"
    BY <1>2, <2>4
  <2>9. UNCHANGED <<size, list, next, free, queue, granted, ended>>
    BY <1>2
  <2>10. v \in Active <=> item[a][i] \in Active
    BY <2>2
  <2>11. item' = [item EXCEPT ![a][i] = v]
    BY <2>1
  <2>12. StagesKept(a, i)
    BY <2>7, <2>8, Zenon DEF StagesKept
  <2>13. QED BY <2>2, <2>5, <2>9, <2>10, <2>11, <2>12, ItemMoves
<1>6. QED BY <1>3, <1>4, <1>5 DEF Collect

\* Every step keeps LoopIInv.
LEMMA LoopInvKept ==
    ASSUME LoopIInv, [Next]_vars
    PROVE  LoopIInv'
<1>1. CASE End
  <2>1. ended' = TRUE
    BY <1>1 DEF End
  <2>2. UNCHANGED <<apc, size, list, next, item, free, queue, granted, got, hint, promptVars>>
    BY <1>1 DEF End
  <2>3. QED BY <2>1, <2>2, PromptsStay DEF LoopIInv, Shapes, TypeOK, LoopKept, SleepersKept, PermitsCounted,
                 ItemPermitsAccounted, Running, Waits
<1>2. CASE UNCHANGED vars
  BY <1>2, PromptsStay DEF vars, LoopIInv, Shapes, TypeOK, LoopKept, SleepersKept, PermitsCounted,
              ItemPermitsAccounted, Running, Waits
<1>3. ASSUME NEW a \in Arrays, Process(a) PROVE LoopIInv'
  BY <1>3, BeginKept, SizeKept, AppendKept, AcquireKept, AcquiredKept, CollectKept DEF Process
<1>4. ASSUME NEW a \in Arrays, NEW i \in Index, Goroutine(a, i) PROVE LoopIInv'
  BY <1>4, ProcessingKept, ItemDoneKept, SendKept DEF Goroutine
<1>5. QED BY <1>1, <1>2, <1>3, <1>4 DEF Next

\* No way out of ArrayProcessor.Process or of the goroutine of an item loses a permit of
\* arrayItemSemaphore, whoever waits for whom, and no array is larger than its limit.
THEOREM ItemPermitsKept == Spec => []ArrayInv
<1>1. Init => LoopIInv
  BY LoopStarts
<1>2. LoopIInv /\ [Next]_vars => LoopIInv'
  BY LoopInvKept
<1>3. LoopIInv => ArrayInv
  BY DEF LoopIInv, Shapes, PermitsCounted, ArrayInv
<1>4. QED BY <1>1, <1>2, <1>3, PTL DEF Spec

-----------------------------------------------------------------------------
(* The items, their lines and their contexts. *)

\* What is found for an item is on a line with the number of the item.
LEMMA ExtractFinds ==
    ASSUME NEW l, DOMAIN l \subseteq Nat, NEW i, ExtractItemFromList(l, i) # 0
    PROVE  \E m \in DOMAIN l : /\ l[m].kind = "text" /\ l[m].number = i + 1 /\ l[m].rest # 0
                              /\ ExtractItemFromList(l, i) = l[m].rest
<1> DEFINE hits == {m \in DOMAIN l : /\ l[m].kind = "text"
                                     /\ l[m].number = i + 1
                                     /\ l[m].rest # 0}
           head == CHOOSE m \in hits : \A j \in hits : m <= j
<1>1. ExtractItemFromList(l, i) = IF hits = {} THEN 0 ELSE l[head].rest
  BY DEF ExtractItemFromList
<1>2. \A m \in hits : m \in DOMAIN l /\ l[m].kind = "text" /\ l[m].number = i + 1 /\ l[m].rest # 0
  OBVIOUS
<1> HIDE DEF hits
<1>3. hits # {} /\ hits \in SUBSET Nat
  BY <1>1, <1>2
<1>4. head \in hits
  BY <1>3, SmallestOf
<1> HIDE DEF head
<1>5. QED BY <1>1, <1>2, <1>3, <1>4

\* Two items never find one line when no two numbers have one.
LEMMA ExtractsDiffer ==
    ASSUME NEW l, DOMAIN l \subseteq Nat, LinesDiffer(l), NEW i \in Index, NEW j \in Index, i # j,
           ExtractItemFromList(l, i) # 0, ExtractItemFromList(l, j) # 0
    PROVE  ExtractItemFromList(l, i) # ExtractItemFromList(l, j)
<1>1. PICK m \in DOMAIN l : /\ l[m].kind = "text" /\ l[m].number = i + 1 /\ l[m].rest # 0
                            /\ ExtractItemFromList(l, i) = l[m].rest
  BY ExtractFinds
<1>2. PICK n \in DOMAIN l : /\ l[n].kind = "text" /\ l[n].number = j + 1 /\ l[n].rest # 0
                            /\ ExtractItemFromList(l, j) = l[n].rest
  BY ExtractFinds
<1>3. i + 1 # j + 1
  BY ListingAssumption DEF Index
<1>4. QED BY <1>1, <1>2, <1>3 DEF LinesDiffer

\* A step that moves no item past its start, into the result or out of it.
ItemsStay ==
    /\ \A a \in Arrays, i \in Index :
         /\ Waits(item'[a][i]) <=> Waits(item[a][i])
         /\ item'[a][i] = "taken" <=> item[a][i] = "taken"
    /\ \A a \in Arrays :
         /\ apc'[a] \in {"ok", "append"} => apc'[a] = apc[a]
         /\ apc'[a] \in {"idle", "begin", "size"} => apc[a] \in {"idle", "begin", "size"}

\* Such a step keeps ItemsIInv when it leaves what items were given alone.
LEMMA ItemsFrame ==
    ASSUME ItemsIInv, ItemsStay, UNCHANGED <<size, list, got, hint, promptVars>>
    PROVE  ItemsIInv'
<1>1. CollectedKept'
  BY DEF ItemsIInv, CollectedKept, ItemsStay
<1>2. ItemsInPlace'
  BY DEF ItemsIInv, ItemsInPlace, ItemsStay
<1>3. HintsKept'
  <2>1. \A a \in Arrays : LinesDiffer(list[a])
    BY DEF ItemsIInv, HintsKept
  <2>2. \A a \in Arrays : LinesDiffer(list[a])'
    BY <2>1 DEF LinesDiffer
  <2>3. ASSUME NEW a \in Arrays, NEW i \in Index, hint'[a][i] # 0
        PROVE  ~Waits(item'[a][i]) /\ hint'[a][i] = ExtractItemFromList(list'[a], i)
    BY <2>3 DEF ItemsIInv, HintsKept, ItemsStay
  <2>4. QED BY <2>2, <2>3, Zenon DEF HintsKept, Waits
<1>4. UNCHANGED <<first, line, slice, context, question, asked>>
  BY DEF promptVars
<1>5. ContextsKept'
  <2>1. ASSUME NEW a \in Arrays, NEW c \in Arrays, NEW i \in Index, context'[c] = <<a, i>>
        PROVE  ~Waits(item'[a][i])
    BY <1>4, <2>1 DEF ItemsIInv, ContextsKept, ItemsStay
  <2>2. ASSUME NEW a \in Arrays
        PROVE  /\ first'[context'[a]] = "prompt"
               /\ apc'[a] = "append" => slice'[a] = "prompt"
               /\ a \in Root => line'[context'[a]] = NoLine
    BY <1>4 DEF ItemsIInv, ContextsKept, ItemsStay
  <2>3. QED BY <2>1, <2>2 DEF ContextsKept, Waits, NoLine, Shared
<1>6. RequestsKept'
  <2>1. \A a \in Arrays, i \in Index : LineOf(a, i)' = LineOf(a, i)
    BY <1>4 DEF LineOf
  <2>2. ASSUME NEW a \in Arrays
        PROVE  /\ apc'[a] \in {"idle", "begin", "size"} => question'[a] = {}
               /\ \A q \in question'[a] : q.first = "prompt" /\ q.line = line'[context'[a]]
    BY <1>4 DEF ItemsIInv, RequestsKept, ItemsStay
  <2>3. ASSUME NEW a \in Arrays, NEW i \in Index
        PROVE  /\ Waits(item'[a][i]) => asked'[a][i] = {}
               /\ \A r \in asked'[a][i] : r.first = "prompt" /\ r.line = LineOf(a, i)'
               /\ Inner[a][i] # None /\ ~Waits(item'[a][i]) => line'[context'[Inner[a][i]]] = LineOf(a, i)'
    BY <1>4, <2>1 DEF ItemsIInv, RequestsKept, ItemsStay
  <2>4. QED BY <2>2, <2>3 DEF RequestsKept, Waits
<1>7. QED BY <1>1, <1>2, <1>3, <1>5, <1>6 DEF ItemsIInv

\* No array of a request has a result, a line or a list.
LEMMA ItemsStart ==
    ASSUME Init
    PROVE  ItemsIInv
<1>1. DOMAIN <<>> = {}
  OBVIOUS
<1>2. \A a \in Arrays : list[a] = <<>> /\ DOMAIN list[a] = {} /\ got[a] = <<>>
  BY <1>1 DEF Init
<1>3. \A a \in Arrays, i \in Index : item[a][i] = "none" /\ hint[a][i] = 0
  BY DEF Init
<1>4. CollectedKept
  BY <1>2, <1>3 DEF CollectedKept
<1>5. ItemsInPlace
  BY DEF Init, ItemsInPlace
<1>6. HintsKept
  BY <1>2, <1>3 DEF HintsKept, LinesDiffer
<1>7. /\ \A a \in Arrays : /\ context[a] = Shared /\ question[a] = {} /\ apc[a] # "append"
                             /\ \A i \in Index : asked[a][i] = {}
      /\ first[Shared] = "prompt" /\ line[Shared] = NoLine
  BY DEF Init, Contexts
<1>8. ContextsKept
  <2>1. \A a, c \in Arrays, i \in Index : context[c] # <<a, i>>
    BY <1>7, ArrayAssumption DEF Shared
  <2>2. QED BY <1>7, <2>1 DEF ContextsKept
<1>9. RequestsKept
  BY <1>3, <1>7 DEF RequestsKept, Waits
<1>10. QED BY <1>4, <1>5, <1>6, <1>8, <1>9 DEF ItemsIInv

\* Nothing is taken of an array before it has its size, and none of its items has started.
LEMMA NothingYet ==
    ASSUME LoopIInv, NEW a \in Arrays, apc[a] \in {"idle", "begin", "size"}
    PROVE  /\ DOMAIN list[a] = {}
           /\ \A i \in Index : item[a][i] = "none"
<1>1. next[a] = 0 /\ DOMAIN list[a] = {} /\ \A i \in Index : item[a][i] = "none" <=> next[a] <= i
  BY DEF LoopIInv, LoopKept
<1>2. \A i \in Index : 0 <= i
  BY ListingAssumption DEF Index
<1>3. QED BY <1>1, <1>2

\* The size of an array and its list.
LEMMA SizeKeepsItems ==
    ASSUME LoopIInv, ItemsIInv, AnswersDiffer, NEW a \in Arrays, DetermineArraySize(a)
    PROVE  ItemsIInv'
<1>1. /\ apc[a] = "size"
      /\ question' = [question EXCEPT ![a] = {Build(context[a])}]
      /\ UNCHANGED <<next, item, free, queue, granted, got, hint, first, line, context, asked, ended>>
  BY DEF DetermineArraySize
<1>2. Shapes /\ TypeOK /\ LoopKept
  BY DEF LoopIInv, Shapes
<1>3. /\ apc \in [Arrays -> {"idle", "begin", "size", "append", "spawn", "acquire", "ok", "error"}]
      /\ size \in [Arrays -> 0 .. MaxItems] /\ DOMAIN list = Arrays
      /\ question \in [Arrays -> SUBSET Requests] /\ slice \in [Arrays -> Prompts]
  BY <1>2 DEF Shapes, TypeOK, PromptTypes
<1>4. DOMAIN list[a] = {} /\ \A i \in Index : item[a][i] = "none"
  BY <1>1, <1>2, NothingYet
<1>5. \A b \in Arrays : b # a => apc'[b] = apc[b] /\ size'[b] = size[b] /\ list'[b] = list[b]
  BY <1>1, <1>3 DEF DetermineArraySize
<1>6. apc'[a] \in {"append", "spawn"}
  BY <1>1, <1>3 DEF DetermineArraySize
<1>7. /\ question'[a] = {Build(context[a])} /\ \A b \in Arrays : b # a => question'[b] = question[b]
      /\ apc'[a] = "append" => slice'[a] = first[context[a]]
      /\ \A b \in Arrays : b # a => slice'[b] = slice[b]
  <2>1. question'[a] = {Build(context[a])} /\ \A b \in Arrays : b # a => question'[b] = question[b]
    BY <1>1, <1>3
  <2>2. \/ slice' = slice /\ apc' = [apc EXCEPT ![a] = "spawn"]
        \/ slice' = [slice EXCEPT ![a] = first[context[a]]]
    BY DEF DetermineArraySize
  <2>3. QED BY <1>3, <2>1, <2>2
<1>8. LinesDiffer(list'[a])
  <2>1. CASE list' = list
    BY <1>4, <2>1 DEF LinesDiffer
  <2>2. CASE \E r \in Responses : list' = [list EXCEPT ![a] = ExecuteLLMRequest(r).list]
    <3>1. PICK r \in Responses : list' = [list EXCEPT ![a] = ExecuteLLMRequest(r).list]
      BY <2>2
    <3>2. list'[a] = ExecuteLLMRequest(r).list
      BY <1>3, <3>1
    <3>3. QED BY <3>2 DEF AnswersDiffer
  <2>3. QED BY <2>1, <2>2 DEF DetermineArraySize
<1>9. CollectedKept'
  <2>1. ASSUME NEW b \in Arrays
        PROVE  /\ (\A i \in Index : item[b][i] # "taken") => got[b] = <<>>
               /\ \A i \in Index : item[b][i] = "taken" =>
                     /\ DOMAIN got[b] = 1 .. size'[b] /\ got[b] = [j \in 1 .. size'[b] |-> got[b][j]]
                     /\ got[b][i + 1] = i
    <3>1. CASE b = a
      BY <1>4, <3>1 DEF ItemsIInv, CollectedKept
    <3>2. CASE b # a
      BY <1>5, <3>2 DEF ItemsIInv, CollectedKept
    <3>3. QED BY <3>1, <3>2
  <2>2. QED BY <1>1, <2>1 DEF CollectedKept
<1>10. ItemsInPlace'
  <2>1. SUFFICES ASSUME NEW b \in Arrays, apc'[b] = "ok"
                 PROVE  got'[b] = [j \in 1 .. size'[b] |-> j - 1]
    BY DEF ItemsInPlace
  <2>2. b # a /\ apc[b] = "ok"
    BY <1>5, <1>6, <2>1
  <2>3. QED BY <1>1, <1>5, <2>2 DEF ItemsIInv, ItemsInPlace
<1>11. HintsKept'
  <2>1. \A b \in Arrays : LinesDiffer(list'[b])
    BY <1>5, <1>8 DEF ItemsIInv, HintsKept
  <2>2. ASSUME NEW b \in Arrays, NEW i \in Index, hint[b][i] # 0
        PROVE  ~Waits(item[b][i]) /\ hint[b][i] = ExtractItemFromList(list'[b], i)
    <3>1. ~Waits(item[b][i]) /\ hint[b][i] = ExtractItemFromList(list[b], i)
      BY <2>2 DEF ItemsIInv, HintsKept
    <3>2. b # a
      BY <1>4, <3>1 DEF Waits
    <3>3. QED BY <1>5, <3>1, <3>2
  <2>3. \A b \in Arrays : LinesDiffer(list[b])'
    BY <2>1 DEF LinesDiffer
  <2>4. ASSUME NEW b \in Arrays, NEW i \in Index, hint'[b][i] # 0
        PROVE  ~Waits(item'[b][i]) /\ hint'[b][i] = ExtractItemFromList(list'[b], i)
    BY <1>1, <2>2, <2>4
  <2>5. QED BY <2>3, <2>4, Zenon DEF HintsKept, Waits
<1>12. ContextsKept'
  <2>1. ASSUME NEW b \in Arrays, NEW c \in Arrays, NEW i \in Index, context'[c] = <<b, i>>
        PROVE  ~Waits(item'[b][i])
    BY <1>1, <2>1 DEF ItemsIInv, ContextsKept
  <2>2. ASSUME NEW b \in Arrays
        PROVE  /\ first'[context'[b]] = "prompt"
               /\ apc'[b] = "append" => slice'[b] = "prompt"
               /\ b \in Root => line'[context'[b]] = NoLine
    BY <1>1, <1>5, <1>7 DEF ItemsIInv, ContextsKept
  <2>3. QED BY <2>1, <2>2 DEF ContextsKept, Waits, NoLine, Shared
<1>13. RequestsKept'
  <2>1. \A b \in Arrays, i \in Index : LineOf(b, i)' = LineOf(b, i)
    BY <1>1 DEF LineOf
  <2>2. ASSUME NEW b \in Arrays
        PROVE  /\ apc'[b] \in {"idle", "begin", "size"} => question'[b] = {}
               /\ \A q \in question'[b] : q.first = "prompt" /\ q.line = line'[context'[b]]
    <3>1. CASE b = a
      <4>1. first[context[a]] = "prompt"
        BY DEF ItemsIInv, ContextsKept
      <4>2. \A q \in question'[a] : q = [first |-> "prompt", line |-> line[context[a]]]
        BY <1>7, <4>1 DEF Build
      <4>3. QED BY <1>1, <1>6, <3>1, <4>2
    <3>2. CASE b # a
      BY <1>1, <1>5, <1>7, <3>2 DEF ItemsIInv, RequestsKept
    <3>3. QED BY <3>1, <3>2
  <2>3. ASSUME NEW b \in Arrays, NEW i \in Index
        PROVE  /\ Waits(item'[b][i]) => asked'[b][i] = {}
               /\ \A r \in asked'[b][i] : r.first = "prompt" /\ r.line = LineOf(b, i)'
               /\ Inner[b][i] # None /\ ~Waits(item'[b][i]) => line'[context'[Inner[b][i]]] = LineOf(b, i)'
    BY <1>1, <2>1 DEF ItemsIInv, RequestsKept
  <2>4. QED BY <2>2, <2>3 DEF RequestsKept, Waits
<1>14. QED BY <1>9, <1>10, <1>11, <1>12, <1>13 DEF ItemsIInv

\* Appending to a context leaves its first prompt in front.
LEMMA AppendKeepsItems ==
    ASSUME LoopIInv, ItemsIInv, NEW a \in Arrays, AddPrompt(a)
    PROVE  ItemsIInv'
<1>1. /\ apc[a] = "append" /\ apc' = [apc EXCEPT ![a] = "spawn"]
      /\ first' = [first EXCEPT ![context[a]] = IF slice[a] = None THEN a ELSE slice[a]]
      /\ UNCHANGED <<size, list, item, got, hint, line, slice, context, question, asked>>
  BY DEF AddPrompt
<1>2. /\ apc \in [Arrays -> {"idle", "begin", "size", "append", "spawn", "acquire", "ok", "error"}]
      /\ first \in [Contexts -> Prompts] /\ context \in [Arrays -> Contexts]
  BY DEF LoopIInv, Shapes, TypeOK, PromptTypes
<1>3. apc'[a] = "spawn" /\ \A b \in Arrays : b # a => apc'[b] = apc[b]
  BY <1>1, <1>2
<1>4. \A b \in Arrays : first'[context[b]] = "prompt"
  <2>1. slice[a] = "prompt" /\ slice[a] # None
    BY <1>1, ArrayAssumption DEF ItemsIInv, ContextsKept
  <2>2. \A b \in Arrays : first[context[b]] = "prompt"
    BY DEF ItemsIInv, ContextsKept
  <2>3. QED BY <1>1, <1>2, <2>1, <2>2
<1>5. CollectedKept' /\ ItemsInPlace'
  BY <1>1, <1>3 DEF ItemsIInv, CollectedKept, ItemsInPlace
<1>6. HintsKept'
  BY <1>1 DEF ItemsIInv, HintsKept, LinesDiffer, Waits
<1>7. ContextsKept'
  BY <1>1, <1>3, <1>4 DEF ItemsIInv, ContextsKept, Waits, NoLine, Shared
<1>8. RequestsKept'
  <2>1. \A b \in Arrays, i \in Index : LineOf(b, i)' = LineOf(b, i)
    BY <1>1 DEF LineOf
  <2>2. QED BY <1>1, <1>3, <2>1 DEF ItemsIInv, RequestsKept, Waits
<1>9. QED BY <1>5, <1>6, <1>7, <1>8 DEF ItemsIInv

\* An item starts with its line, in the prompts of its array or in a copy of them.
LEMMA ProcessingKeepsItems ==
    ASSUME LoopIInv, ItemsIInv, NEW a \in Arrays, NEW i \in Index, StartProcessing(a, i)
    PROVE  ItemsIInv'
<1>1. Shapes /\ LoopKept /\ TypeOK
  BY DEF LoopIInv, Shapes
<1>2. /\ apc \in [Arrays -> {"idle", "begin", "size", "append", "spawn", "acquire", "ok", "error"}]
      /\ item \in [Arrays -> [Index -> ItemStates]]
      /\ DOMAIN hint = Arrays /\ \A c \in Arrays : DOMAIN hint[c] = Index
      /\ first \in [Contexts -> Prompts] /\ line \in [Contexts -> Contexts]
      /\ context \in [Arrays -> Contexts] /\ asked \in [Arrays -> [Index -> SUBSET Requests]]
  BY <1>1 DEF Shapes, TypeOK, PromptTypes
<1>3. PICK own, up, k, b, x :
        /\ own = ExtractItemFromList(list[a], i) /\ up = context[a]
        /\ k = (IF own # 0 THEN <<a, i>> ELSE up)
        /\ b = Inner[a][i] /\ x = (IF own # 0 THEN <<a, i>> ELSE line[up])
  OBVIOUS
<1>4. /\ item[a][i] = "start" /\ hint' = [hint EXCEPT ![a][i] = own]
      /\ first' = [first EXCEPT ![k] = first[up]]
      /\ line' = [line EXCEPT ![k] = x]
      /\ item' = [item EXCEPT ![a][i] = "process"]
      /\ IF b = None
         THEN asked' = [asked EXCEPT ![a][i] = {[first |-> first'[k], line |-> line'[k]]}] /\ UNCHANGED <<apc, context>>
         ELSE /\ apc' = [apc EXCEPT ![b] = "begin"]
              /\ context' = [context EXCEPT ![b] = k] /\ UNCHANGED asked
      /\ UNCHANGED <<size, list, next, free, queue, granted, got, slice, question, ended>>
  BY <1>3 DEF StartProcessing
<1>5. k \in Contexts /\ up \in Contexts /\ first[up] = "prompt"
  BY <1>2, <1>3 DEF Items, Contexts, ItemsIInv, ContextsKept
<1>6. b = None \/ (b \in Arrays /\ apc[b] = "idle")
  <2>1. b \in Arrays \cup {None}
    BY <1>3, ArrayAssumption
  <2>2. b # None => apc[b] = "idle"
    BY <1>1, <1>3, <1>4 DEF LoopKept, Waits
  <2>3. QED BY <2>1, <2>2
<1>7. item'[a][i] = "process" /\ \A c \in Arrays, j \in Index : c # a \/ j # i => item'[c][j] = item[c][j]
  BY <1>2, <1>4
<1>8. hint'[a][i] = own /\ \A c \in Arrays, j \in Index : c # a \/ j # i => hint'[c][j] = hint[c][j]
  BY <1>2, <1>4
<1>9. /\ \A c \in Arrays : context[c] # <<a, i>>
      /\ \A c, d \in Arrays, j \in Index : context[c] = <<d, j>> => ~Waits(item[d][j])
  BY <1>4 DEF ItemsIInv, ContextsKept, Waits
<1>10. /\ first'[k] = "prompt" /\ line'[k] = x
       /\ \A c \in Arrays : first'[context[c]] = "prompt" /\ line'[context[c]] = line[context[c]]
  <2>1. /\ first'[k] = "prompt" /\ \A y \in Contexts : y # k => first'[y] = first[y]
        /\ line'[k] = x /\ \A y \in Contexts : y # k => line'[y] = line[y]
    BY <1>2, <1>4, <1>5
  <2>2. ASSUME NEW c \in Arrays
        PROVE  first'[context[c]] = "prompt" /\ line'[context[c]] = line[context[c]]
    <3>1. context[c] \in Contexts /\ first[context[c]] = "prompt"
      BY <1>2 DEF ItemsIInv, ContextsKept
    <3>2. CASE own # 0
      BY <1>3, <1>9, <2>1, <3>1, <3>2
    <3>3. CASE own = 0
      BY <1>3, <2>1, <3>1, <3>3
    <3>4. QED BY <3>2, <3>3
  <2>3. QED BY <2>1, <2>2
<1>11. \A c \in Arrays : (apc'[c] = apc[c] /\ context'[c] = context[c])
                          \/ (c = b /\ b # None /\ apc[c] = "idle" /\ apc'[c] = "begin" /\ context'[c] = k)
  <2>1. CASE b = None
    BY <1>4, <2>1
  <2>2. CASE b # None
    BY <1>2, <1>4, <1>5, <1>6, <2>2
  <2>3. QED BY <2>1, <2>2
<1>12. CollectedKept'
  <2>1. \A c \in Arrays, j \in Index : item'[c][j] = "taken" <=> item[c][j] = "taken"
    BY <1>4, <1>7
  <2>2. QED BY <1>4, <2>1 DEF ItemsIInv, CollectedKept
<1>13. ItemsInPlace'
  BY <1>4, <1>11 DEF ItemsIInv, ItemsInPlace
<1>14. HintsKept'
  <2>1. \A c \in Arrays : LinesDiffer(list[c])
    BY DEF ItemsIInv, HintsKept
  <2>2. \A c \in Arrays : LinesDiffer(list[c])'
    BY <1>4, <2>1 DEF LinesDiffer
  <2>3. ASSUME NEW c \in Arrays, NEW j \in Index, hint'[c][j] # 0
        PROVE  ~Waits(item'[c][j]) /\ hint'[c][j] = ExtractItemFromList(list'[c], j)
    <3>1. CASE c = a /\ j = i
      BY <1>3, <1>4, <1>7, <1>8, <3>1 DEF Waits
    <3>2. CASE c # a \/ j # i
      BY <1>4, <1>7, <1>8, <2>3, <3>2 DEF ItemsIInv, HintsKept
    <3>3. QED BY <3>1, <3>2
  <2>4. QED BY <2>2, <2>3, Zenon DEF HintsKept, Waits
<1>15. ContextsKept'
  <2>1. ASSUME NEW d \in Arrays, NEW c \in Arrays, NEW j \in Index, context'[c] = <<d, j>>
        PROVE  ~Waits(item'[d][j])
    <3>1. CASE d = a /\ j = i
      BY <1>7, <3>1 DEF Waits
    <3>2. CASE d # a \/ j # i
      <4>1. <<d, j>> # <<a, i>>
        BY <3>2
      <4>2. \E e \in Arrays : context[e] = <<d, j>>
        BY <1>3, <1>11, <2>1, <4>1
      <4>3. QED BY <1>7, <1>9, <3>2, <4>2
    <3>3. QED BY <3>1, <3>2
  <2>2. ASSUME NEW c \in Arrays
        PROVE  /\ first'[context'[c]] = "prompt"
               /\ apc'[c] = "append" => slice'[c] = "prompt"
               /\ c \in Root => line'[context'[c]] = NoLine
    <3>1. CASE context'[c] = context[c] /\ apc'[c] = apc[c]
      BY <1>4, <1>10, <3>1 DEF ItemsIInv, ContextsKept
    <3>2. CASE c = b /\ b # None /\ apc'[c] = "begin" /\ context'[c] = k
      <4>1. c \notin Root
        BY <1>3, <3>2, TreeAssumption
      <4>2. QED BY <1>10, <3>2, <4>1
    <3>3. QED BY <1>11, <3>1, <3>2
  <2>3. QED BY <2>1, <2>2 DEF ContextsKept, Waits, NoLine, Shared
<1>16. RequestsKept'
  <2>1. \A c \in Arrays : apc[c] # "idle" => context'[c] = context[c]
    BY <1>11
  <2>2. \A c \in Arrays, j \in Index : item[c][j] # "none" => apc[c] # "idle"
    BY NothingYet
  <2>3. ASSUME NEW c \in Arrays, NEW j \in Index, c # a \/ j # i, item[c][j] # "none"
        PROVE  LineOf(c, j)' = LineOf(c, j)
    BY <1>8, <1>10, <2>1, <2>2, <2>3 DEF LineOf
  <2>4. LineOf(a, i)' = x
    BY <1>3, <1>4, <1>8, <1>10, <2>1, <2>2 DEF LineOf
  <2>5. ASSUME NEW c \in Arrays
        PROVE  /\ apc'[c] \in {"idle", "begin", "size"} => question'[c] = {}
               /\ \A q \in question'[c] : q.first = "prompt" /\ q.line = line'[context'[c]]
    <3>1. CASE apc'[c] = apc[c] /\ context'[c] = context[c]
      BY <1>4, <1>10, <3>1 DEF ItemsIInv, RequestsKept
    <3>2. CASE apc[c] = "idle"
      BY <1>4, <3>2 DEF ItemsIInv, RequestsKept
    <3>3. QED BY <1>11, <3>1, <3>2
  <2>6. ASSUME NEW c \in Arrays, NEW j \in Index
        PROVE  /\ Waits(item'[c][j]) => asked'[c][j] = {}
               /\ \A r \in asked'[c][j] : r.first = "prompt" /\ r.line = LineOf(c, j)'
               /\ Inner[c][j] # None /\ ~Waits(item'[c][j]) => line'[context'[Inner[c][j]]] = LineOf(c, j)'
    <3>1. CASE c = a /\ j = i
      <4>1. asked[a][i] = {} /\ ~Waits(item'[a][i])
        BY <1>4, <1>7 DEF ItemsIInv, RequestsKept, Waits
      <4>2. \A r \in asked'[a][i] : r.first = "prompt" /\ r.line = x
        <5>1. PICK q : q = [first |-> first'[k], line |-> line'[k]]
          OBVIOUS
        <5>2. q.first = "prompt" /\ q.line = x
          BY <1>10, <5>1
        <5>3. asked' = asked \/ asked' = [asked EXCEPT ![a][i] = {q}]
          BY <1>4, <5>1
        <5>4. asked'[a][i] = {} \/ asked'[a][i] = {q}
          BY <1>2, <4>1, <5>3
        <5>5. QED BY <5>2, <5>4
      <4>3. b # None => line'[context'[b]] = x
        BY <1>2, <1>4, <1>6, <1>10
      <4>4. QED BY <1>3, <2>4, <3>1, <4>1, <4>2, <4>3
    <3>2. CASE c # a \/ j # i
      <4>1. asked'[c][j] = asked[c][j] /\ item'[c][j] = item[c][j]
        BY <1>2, <1>4, <1>7, <3>2
      <4>2. CASE Waits(item[c][j])
        BY <4>1, <4>2 DEF ItemsIInv, RequestsKept
      <4>3. CASE ~Waits(item[c][j])
        <5>1. LineOf(c, j)' = LineOf(c, j)
          BY <2>3, <3>2, <4>3 DEF Waits
        <5>2. ASSUME Inner[c][j] # None PROVE line'[context'[Inner[c][j]]] = LineOf(c, j)
          <6>1. Inner[c][j] \in Arrays /\ (b = None \/ Inner[c][j] # b)
            BY <1>3, <3>2, <5>2, TreeAssumption, ArrayAssumption
          <6>2. context'[Inner[c][j]] = context[Inner[c][j]]
            BY <1>11, <6>1
          <6>3. line[context[Inner[c][j]]] = LineOf(c, j)
            BY <4>3, <5>2 DEF ItemsIInv, RequestsKept
          <6>4. QED BY <1>10, <6>1, <6>2, <6>3
        <5>3. QED BY <4>1, <4>3, <5>1, <5>2 DEF ItemsIInv, RequestsKept
      <4>4. QED BY <4>2, <4>3
    <3>3. QED BY <3>1, <3>2
  <2>7. QED BY <2>5, <2>6 DEF RequestsKept, Waits
<1>17. QED BY <1>12, <1>13, <1>14, <1>15, <1>16 DEF ItemsIInv

\* A result is put at its place, or all are there.
LEMMA CollectKeepsItems ==
    ASSUME LoopIInv, ItemsIInv, NEW a \in Arrays, Collect(a)
    PROVE  ItemsIInv'
<1>1. Shapes /\ LoopKept /\ TypeOK
  BY DEF LoopIInv, Shapes
<1>2. /\ apc[a] = "spawn" /\ next[a] = size[a]
      /\ UNCHANGED <<size, list, next, free, queue, granted, hint, promptVars, ended>>
  BY DEF Collect
<1>3. /\ apc \in [Arrays -> {"idle", "begin", "size", "append", "spawn", "acquire", "ok", "error"}]
      /\ size \in [Arrays -> 0 .. MaxItems] /\ MaxItems \in Nat
      /\ item \in [Arrays -> [Index -> ItemStates]] /\ DOMAIN got = Arrays
  BY <1>1, ListingAssumption DEF Shapes, TypeOK
<1>4. PICK n \in Nat : n = size[a]
  BY <1>3
<1>5. \A i \in Index : i \in Nat /\ (item[a][i] # "none" => i \in 0 .. n - 1)
  BY <1>1, <1>2, <1>3, <1>4 DEF LoopKept, Index
<1>6. CASE apc' = [apc EXCEPT ![a] = "error"] /\ UNCHANGED <<got, item>>
  <2>1. ItemsStay
    BY <1>3, <1>6 DEF ItemsStay
  <2>2. QED BY <1>2, <1>6, <2>1, ItemsFrame
<1>7. CASE /\ apc' = [apc EXCEPT ![a] = "error"] /\ UNCHANGED got
           /\ \E i \in Index : item[a][i] = "sentError" /\ item' = [item EXCEPT ![a][i] = "gone"]
  <2>1. PICK i \in Index : item[a][i] = "sentError" /\ item' = [item EXCEPT ![a][i] = "gone"]
    BY <1>7
  <2>2. item'[a][i] = "gone" /\ \A c \in Arrays, j \in Index : c # a \/ j # i => item'[c][j] = item[c][j]
    BY <1>3, <2>1
  <2>3. \A c \in Arrays : apc'[c] # apc[c] => apc'[c] = "error"
    BY <1>3, <1>7
  <2>4. ItemsStay
    BY <2>1, <2>2, <2>3 DEF ItemsStay, Waits
  <2>5. QED BY <1>2, <1>7, <2>4, ItemsFrame
<1>8. CASE /\ Cardinality({i \in Index : item[a][i] = "taken"}) = size[a]
           /\ apc' = [apc EXCEPT ![a] = "ok"] /\ UNCHANGED <<got, item>>
  <2>1. PICK T : T = {i \in Index : item[a][i] = "taken"}
    OBVIOUS
  <2>2. T \in SUBSET (0 .. n - 1) /\ Cardinality(T) = n
    BY <1>4, <1>5, <1>8, <2>1
  <2>3. IsFiniteSet(0 .. n - 1) /\ Cardinality(0 .. n - 1) = n
    <3>1. 0 \in Int /\ n - 1 \in Int
      OBVIOUS
    <3>2. /\ IsFiniteSet(0 .. n - 1)
          /\ Cardinality(0 .. n - 1) = IF 0 > n - 1 THEN 0 ELSE (n - 1) - 0 + 1
      BY <3>1, FS_Interval
    <3>3. QED BY <3>2
  <2>4. T = 0 .. n - 1
    BY <2>2, <2>3, FS_Subset
  <2>5. got[a] = [j \in 1 .. n |-> j - 1]
    <3>1. CASE n = 0
      <4>1. got[a] = <<>>
        BY <2>1, <2>4, <3>1 DEF ItemsIInv, CollectedKept
      <4>2. QED BY <3>1, <4>1
    <3>2. CASE n # 0
      <4>1. 0 \in T /\ 0 \in Index /\ item[a][0] = "taken"
        BY <2>1, <2>4, <3>2
      <4>2. DOMAIN got[a] = 1 .. n /\ got[a] = [j \in 1 .. n |-> got[a][j]]
        BY <1>4, <4>1 DEF ItemsIInv, CollectedKept
      <4>3. \A i \in 0 .. n - 1 : got[a][i + 1] = i
        BY <2>1, <2>4 DEF ItemsIInv, CollectedKept
      <4>4. ASSUME NEW j \in 1 .. n PROVE got[a][j] = j - 1
        <5>1. j - 1 \in 0 .. n - 1 /\ (j - 1) + 1 = j
          OBVIOUS
        <5>2. QED BY <4>3, <5>1
      <4>5. QED BY <4>2, <4>4
    <3>3. QED BY <3>1, <3>2
  <2>6. \A c \in Arrays : c # a => apc'[c] = apc[c]
    BY <1>3, <1>8
  <2>7. ItemsInPlace'
    BY <1>2, <1>4, <1>8, <2>5, <2>6 DEF ItemsIInv, ItemsInPlace
  <2>8. CollectedKept'
    BY <1>2, <1>8 DEF ItemsIInv, CollectedKept
  <2>9. UNCHANGED <<first, line, slice, context, question, asked>>
    BY <1>2 DEF promptVars
  <2>10. HintsKept'
    BY <1>2, <1>8 DEF ItemsIInv, HintsKept, LinesDiffer, Waits
  <2>11. apc'[a] = "ok"
    BY <1>3, <1>8
  <2>12. ContextsKept'
    BY <1>8, <2>6, <2>9, <2>11 DEF ItemsIInv, ContextsKept, Waits, NoLine, Shared
  <2>13. RequestsKept'
    <3>1. \A c \in Arrays, j \in Index : LineOf(c, j)' = LineOf(c, j)
      BY <1>2, <2>9 DEF LineOf
    <3>2. QED BY <1>8, <2>6, <2>9, <2>11, <3>1 DEF ItemsIInv, RequestsKept, Waits
  <2>14. QED BY <2>7, <2>8, <2>10, <2>12, <2>13 DEF ItemsIInv
<1>9. CASE /\ apc' = apc
           /\ \E i \in Index :
                /\ item[a][i] = "sentValue" /\ item' = [item EXCEPT ![a][i] = "taken"]
                /\ got' = [got EXCEPT ![a] = [j \in 1 .. size[a] |->
                              IF j = i + 1 THEN i ELSE IF j \in DOMAIN got[a] THEN got[a][j] ELSE None]]
  <2>1. PICK i \in Index :
             /\ item[a][i] = "sentValue" /\ item' = [item EXCEPT ![a][i] = "taken"]
             /\ got' = [got EXCEPT ![a] = [j \in 1 .. size[a] |->
                           IF j = i + 1 THEN i ELSE IF j \in DOMAIN got[a] THEN got[a][j] ELSE None]]
    BY <1>9
  <2>2. item'[a][i] = "taken" /\ \A c \in Arrays, j \in Index : c # a \/ j # i => item'[c][j] = item[c][j]
    BY <1>3, <2>1
  <2>3. /\ got'[a] = [j \in 1 .. n |->
                        IF j = i + 1 THEN i ELSE IF j \in DOMAIN got[a] THEN got[a][j] ELSE None]
        /\ \A c \in Arrays : c # a => got'[c] = got[c]
    BY <1>3, <1>4, <2>1
  <2>4. CollectedKept'
    <3>1. ASSUME NEW c \in Arrays, c # a
          PROVE  /\ (\A j \in Index : item'[c][j] # "taken") => got'[c] = <<>>
                 /\ \A j \in Index : item'[c][j] = "taken" =>
                       /\ DOMAIN got'[c] = 1 .. size'[c] /\ got'[c] = [m \in 1 .. size'[c] |-> got'[c][m]]
                       /\ got'[c][j + 1] = j
      BY <1>2, <2>2, <2>3, <3>1 DEF ItemsIInv, CollectedKept
    <3>2. DOMAIN got'[a] = 1 .. size'[a] /\ got'[a] = [m \in 1 .. size'[a] |-> got'[a][m]]
      BY <1>2, <1>4, <2>3
    <3>3. ASSUME NEW j \in Index, item'[a][j] = "taken" PROVE got'[a][j + 1] = j
      <4>1. i \in 0 .. n - 1 /\ i \in Nat /\ j \in Nat
        BY <1>5, <2>1
      <4>2. CASE j = i
        BY <2>3, <4>1, <4>2
      <4>3. CASE j # i
        <5>1. item[a][j] = "taken"
          BY <2>2, <3>3, <4>3
        <5>2. DOMAIN got[a] = 1 .. n /\ got[a][j + 1] = j
          BY <1>4, <5>1 DEF ItemsIInv, CollectedKept
        <5>3. j \in 0 .. n - 1
          BY <1>5, <5>1
        <5>4. j + 1 \in 1 .. n /\ j + 1 # i + 1
          BY <4>1, <4>3, <5>3
        <5>5. QED BY <2>3, <5>2, <5>4
      <4>4. QED BY <4>2, <4>3
    <3>4. QED BY <2>2, <3>1, <3>2, <3>3 DEF CollectedKept
  <2>5. ItemsInPlace'
    BY <1>2, <1>9, <2>3 DEF ItemsIInv, ItemsInPlace
  <2>6. \A c \in Arrays, j \in Index : Waits(item'[c][j]) <=> Waits(item[c][j])
    BY <2>1, <2>2 DEF Waits
  <2>7. HintsKept'
    <3>1. \A c \in Arrays : LinesDiffer(list[c])
      BY DEF ItemsIInv, HintsKept
    <3>2. \A c \in Arrays : LinesDiffer(list[c])'
      BY <1>2, <3>1 DEF LinesDiffer
    <3>3. ASSUME NEW c \in Arrays, NEW j \in Index, hint'[c][j] # 0
          PROVE  ~Waits(item'[c][j]) /\ hint'[c][j] = ExtractItemFromList(list'[c], j)
      BY <1>2, <2>6, <3>3 DEF ItemsIInv, HintsKept
    <3>4. QED BY <3>2, <3>3, Zenon DEF HintsKept, Waits
  <2>8. UNCHANGED <<first, line, slice, context, question, asked>>
    BY <1>2 DEF promptVars
  <2>9. ContextsKept'
    BY <1>9, <2>6, <2>8 DEF ItemsIInv, ContextsKept, Waits, NoLine, Shared
  <2>10. RequestsKept'
    <3>1. \A c \in Arrays, j \in Index : LineOf(c, j)' = LineOf(c, j)
      BY <1>2, <2>8 DEF LineOf
    <3>2. QED BY <1>9, <2>6, <2>8, <3>1 DEF ItemsIInv, RequestsKept, Waits
  <2>11. QED BY <2>4, <2>5, <2>7, <2>9, <2>10 DEF ItemsIInv
<1>10. QED BY <1>6, <1>7, <1>8, <1>9 DEF Collect

\* The loops that only start items, and the ends of items, leave the results alone.
LEMMA OthersKeepItems ==
    ASSUME LoopIInv, ItemsIInv, NEW a \in Arrays,
           \/ Begin(a) \/ Acquire(a) \/ Acquired(a)
           \/ \E i \in Index : ItemDone(a, i) \/ SendItem(a, i)
    PROVE  ItemsIInv'
<1>1. TypeOK /\ LoopKept
  BY DEF LoopIInv, Shapes
<1>2. /\ apc \in [Arrays -> {"idle", "begin", "size", "append", "spawn", "acquire", "ok", "error"}]
      /\ item \in [Arrays -> [Index -> ItemStates]]
      /\ size \in [Arrays -> 0 .. MaxItems] /\ MaxItems \in Nat
      /\ \A b \in Arrays : next[b] \in 0 .. size[b]
  BY <1>1, ListingAssumption DEF TypeOK
<1>3. UNCHANGED <<size, list, got, hint, promptVars>>
  BY DEF Begin, Acquire, Acquired, ItemDone, SendItem
<1>4. \/ apc' = apc \/ \E v \in {"error", "acquire", "spawn"} : apc' = [apc EXCEPT ![a] = v]
      \/ apc[a] = "begin" /\ apc' = [apc EXCEPT ![a] = "size"]
  BY DEF Begin, Acquire, Acquired, ItemDone, SendItem
<1>5. \A c \in Arrays :
        /\ apc'[c] \in {"ok", "append"} => apc'[c] = apc[c]
        /\ apc'[c] \in {"idle", "begin", "size"} => apc[c] \in {"idle", "begin", "size"}
  <2>1. CASE apc' = apc
    BY <2>1
  <2>2. CASE \E v \in {"error", "acquire", "spawn"} : apc' = [apc EXCEPT ![a] = v]
    BY <1>2, <2>2
  <2>3. CASE apc[a] = "begin" /\ apc' = [apc EXCEPT ![a] = "size"]
    BY <1>2, <2>3
  <2>4. QED BY <1>4, <2>1, <2>2, <2>3
<1>6. CASE item' = item
  BY <1>3, <1>5, <1>6, ItemsFrame DEF ItemsStay
<1>7. CASE /\ \E i \in Index : \E v \in {"value", "error", "sentValue", "sentError", "gone"} :
                /\ item[a][i] \in {"process", "value", "error"} /\ item' = [item EXCEPT ![a][i] = v]
  <2>1. PICK i \in Index, v \in {"value", "error", "sentValue", "sentError", "gone"} :
             item[a][i] \in {"process", "value", "error"} /\ item' = [item EXCEPT ![a][i] = v]
    BY <1>7
  <2>2. item'[a][i] = v /\ \A c \in Arrays, j \in Index : c # a \/ j # i => item'[c][j] = item[c][j]
    BY <1>2, <2>1
  <2>3. ItemsStay
    BY <1>5, <2>1, <2>2 DEF ItemsStay, Waits
  <2>4. QED BY <1>3, <2>3, ItemsFrame
<1>8. CASE StartItem(a) /\ next[a] < size[a]
  <2>1. PICK n : n = next[a]
    OBVIOUS
  <2>2. n \in Index
    BY <1>2, <1>8, <2>1 DEF Index
  <2>3. item[a][n] = "none"
    <3>1. n <= n
      BY <1>2, <2>1
    <3>2. QED BY <1>1, <2>1, <2>2, <3>1 DEF LoopKept
  <2>4. item' = [item EXCEPT ![a][n] = "start"]
    BY <1>8, <2>1 DEF StartItem
  <2>5. item'[a][n] = "start" /\ \A c \in Arrays, j \in Index : c # a \/ j # n => item'[c][j] = item[c][j]
    BY <1>2, <2>2, <2>4
  <2>6. ItemsStay
    BY <1>5, <2>3, <2>5 DEF ItemsStay, Waits
  <2>7. QED BY <1>3, <2>6, ItemsFrame
<1>9. (StartItem(a) /\ apc[a] = "acquire") => next[a] < size[a]
  BY <1>1 DEF LoopKept
<1>10. CASE Begin(a)
  BY <1>6, <1>10 DEF Begin
<1>11. CASE Acquire(a)
  BY <1>6, <1>8, <1>11 DEF Acquire
<1>12. CASE Acquired(a)
  BY <1>6, <1>8, <1>9, <1>12 DEF Acquired
<1>13. CASE \E i \in Index : ItemDone(a, i)
  BY <1>7, <1>13 DEF ItemDone
<1>14. CASE \E i \in Index : SendItem(a, i)
  BY <1>7, <1>14 DEF SendItem
<1>15. QED BY <1>10, <1>11, <1>12, <1>13, <1>14

\* Every step keeps ItemsIInv.
LEMMA ItemsInvKept ==
    ASSUME LoopIInv, ItemsIInv, AnswersDiffer, [Next]_vars
    PROVE  ItemsIInv'
<1>1. CASE End \/ UNCHANGED vars
  <2>1. UNCHANGED <<size, list, got, hint, promptVars>> /\ item' = item /\ apc' = apc
    BY <1>1 DEF End, vars
  <2>2. ItemsStay
    BY <2>1 DEF ItemsStay
  <2>3. QED BY <2>1, <2>2, ItemsFrame
<1>2. ASSUME NEW a \in Arrays, Process(a) PROVE ItemsIInv'
  BY <1>2, SizeKeepsItems, AppendKeepsItems, CollectKeepsItems, OthersKeepItems DEF Process
<1>3. ASSUME NEW a \in Arrays, NEW i \in Index, Goroutine(a, i) PROVE ItemsIInv'
  BY <1>3, ProcessingKeepsItems, OthersKeepItems DEF Goroutine
<1>4. QED BY <1>1, <1>2, <1>3 DEF Next

\* Requests that were built from the contexts of ContextsKept have the nearest line.
LEMMA RequestsNearest ==
    ASSUME LoopIInv, ItemsIInv
    PROVE  LinesNearest
<1>1. SUFFICES ASSUME NEW a \in Arrays, NEW q \in question[a]
               PROVE  /\ a \in Root => q.line = NoLine
                      /\ \A i \in Index : \A r \in RequestsOf(a, i) :
                           r.line = IF hint[a][i] # 0 THEN <<a, i>> ELSE q.line
  BY DEF LinesNearest
<1>2. q.line = line[context[a]]
  BY DEF ItemsIInv, RequestsKept
<1>3. ASSUME NEW i \in Index, NEW r \in RequestsOf(a, i) PROVE r.line = LineOf(a, i)
  <2>1. CASE Inner[a][i] = None
    BY <1>3, <2>1 DEF RequestsOf, ItemsIInv, RequestsKept
  <2>2. CASE Inner[a][i] # None
    <3>1. PICK b \in Arrays : b = Inner[a][i]
      BY <2>2, ArrayAssumption
    <3>2. r \in question[b]
      BY <1>3, <2>2, <3>1 DEF RequestsOf
    <3>3. r.line = line[context[b]] /\ apc[b] # "idle"
      BY <3>2 DEF ItemsIInv, RequestsKept
    <3>4. ~Waits(item[a][i])
      BY <2>2, <3>1, <3>3 DEF LoopIInv, LoopKept
    <3>5. QED BY <2>2, <3>1, <3>3, <3>4 DEF ItemsIInv, RequestsKept
  <2>3. QED BY <2>1, <2>2
<1>4. a \in Root => line[context[a]] = NoLine
  BY DEF ItemsIInv, ContextsKept
<1>5. QED BY <1>2, <1>3, <1>4 DEF LineOf

\* Whatever order the goroutines of the items run and finish in: a successful array has the
\* value of every item at its index, two items are never given one line of the list, and an
\* item is asked for with the prompt of the request and with its own line or that of the
\* nearest item around it, whichever PromptContexts are shared, copied or appended to
\* without a lock.  No two numbers of an answer have the same text.
THEOREM ItemsKept ==
    ASSUME AnswersDiffer
    PROVE  Spec => []ItemsSound
<1>1. Init => LoopIInv /\ ItemsIInv
  BY LoopStarts, ItemsStart
<1>2. LoopIInv /\ ItemsIInv /\ [Next]_vars => (LoopIInv /\ ItemsIInv)'
  BY LoopInvKept, ItemsInvKept
<1>3. LoopIInv /\ ItemsIInv => ItemsSound
  <2>1. SUFFICES ASSUME LoopIInv, ItemsIInv PROVE HintsDistinct
    <3>1. ASSUME ItemsIInv PROVE PromptInFront
      BY <3>1 DEF ItemsIInv, RequestsKept, PromptInFront
    <3>2. ASSUME LoopIInv, ItemsIInv PROVE LinesNearest
      BY <3>2, RequestsNearest
    <3>3. QED BY <3>1, <3>2 DEF ItemsIInv, ItemsSound
  <2>2. SUFFICES ASSUME NEW a \in Arrays, NEW i \in Index, NEW j \in Index, i # j, hint[a][i] # 0, hint[a][j] # 0
                 PROVE  hint[a][i] # hint[a][j]
    BY DEF HintsDistinct
  <2>3. DOMAIN list[a] \subseteq Nat
    BY <2>1 DEF LoopIInv, Shapes
  <2>4. /\ LinesDiffer(list[a]) /\ hint[a][i] = ExtractItemFromList(list[a], i)
        /\ hint[a][j] = ExtractItemFromList(list[a], j)
    BY <2>1, <2>2 DEF ItemsIInv, HintsKept
  <2>5. QED BY <2>2, <2>3, <2>4, ExtractsDiffer
<1>4. QED BY <1>1, <1>2, <1>3, PTL DEF Spec
=============================================================================
