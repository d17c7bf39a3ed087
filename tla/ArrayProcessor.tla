--------------------------- MODULE ArrayProcessor ---------------------------
(***************************************************************************)
(* ArrayProcessor.Process (execution/array_processor.go) on a tree of      *)
(* arrays of one request: the size is asked of the model, every item gets  *)
(* a goroutine under one global semaphore, the results come back over a    *)
(* channel in any order.  An item that is an array is processed by the     *)
(* goroutine of the item, which keeps its permit meanwhile.                *)
(***************************************************************************)
EXTENDS ArrayListing, SequencesExt

CONSTANTS
    Arrays,
    Inner,       \* Inner[a][i]: the array that item i of a is, or None
    Root,        \* the arrays that are fields of the request
    Responses,   \* answers of the model to the question for a list
    Permits,     \* weight of arrayItemSemaphore (50000 in the code)
    None

Index == 0 .. MaxItems - 1

ASSUME ArrayAssumption ==
    /\ Root \subseteq Arrays /\ None \notin Arrays /\ "prompt" \notin Arrays \cup {None}
    /\ Inner \in [Arrays -> [Index -> Arrays \cup {None}]]
    /\ Responses \subseteq Seq(Lines)
    /\ DefaultSize <= MaxItems
    /\ Permits \in Nat \ {0}

\* An array is an item of one other array at most, and none of a field of the request.
ASSUME TreeAssumption ==
    \A a, b \in Arrays, i, j \in Index :
        Inner[a][i] # None =>
            Inner[a][i] \notin Root /\ (Inner[a][i] = Inner[b][j] => a = b /\ i = j)

VARIABLES
    apc,       \* where Process stands
    size,      \* arraySize
    list,      \* listString, as the lines of the answer it has
    next,      \* next index of the loop that starts the items
    item,      \* item[a][i]: the goroutine of an item
    free,      \* free permits
    queue,     \* arrays whose loop sleeps in Acquire
    granted,   \* arrays whose loop was handed a permit
    got,       \* got[a]: index to value of the results collected
    hint,      \* hint[a][i]: the line an item was given
    first,     \* first[k]: Prompts[0] of a PromptContext, the one entry that is ever read
    line,      \* line[k]: its CurrentGen, as the item whose line it is
    slice,     \* slice[a]: Prompts[0] of the slice that AddPrompt has read
    context,   \* context[a]: the PromptContext of an array
    question,  \* question[a]: the request for the list of an array, once sent
    asked,     \* asked[a][i]: the request of an item, once built
    ended      \* the context of the request has ended

promptVars == <<first, line, slice, context, question, asked>>
vars == <<apc, size, list, next, item, free, queue, granted, got, hint, promptVars, ended>>

Items == Arrays \X Index
Shared == <<None, 0>>      \* the PromptContext of the request
Contexts == Items \cup {Shared}
NoLine == Shared

\* DefaultPromptBuilder.Build, the part that varies between the items of a request: the
\* first prompt of the context and its CurrentGen.  Later prompts are not read.
Build(k) == [first |-> first[k], line |-> line[k]]

Init ==
    /\ apc = [a \in Arrays |-> IF a \in Root THEN "begin" ELSE "idle"]
    /\ size = [a \in Arrays |-> 0]
    /\ list = [a \in Arrays |-> <<>>]
    /\ next = [a \in Arrays |-> 0]
    /\ item = [a \in Arrays |-> [i \in Index |-> "none"]]
    /\ free = Permits
    /\ queue = <<>>
    /\ granted = {}
    /\ got = [a \in Arrays |-> <<>>]
    /\ hint = [a \in Arrays |-> [i \in Index |-> 0]]
    /\ first = [k \in Contexts |-> IF k = Shared THEN "prompt" ELSE None]
    /\ line = [k \in Contexts |-> NoLine]
    /\ slice = [a \in Arrays |-> None]
    /\ context = [a \in Arrays |-> Shared]
    /\ question = [a \in Arrays |-> {}]
    /\ asked = [a \in Arrays |-> [i \in Index |-> {}]]
    /\ ended = FALSE

Begin(a) ==
    /\ apc[a] = "begin"
    /\ apc' = [apc EXCEPT ![a] = IF ended THEN "error" ELSE "size"]
    /\ UNCHANGED <<size, list, next, item, free, queue, granted, got, hint, promptVars, ended>>

\* determineArraySize: the list is asked for with the prompt of the array's context.  A
\* failed call gives the default size and no list.  With a list, AddPrompt reads the slice
\* of the context; it is not locked, and arrays share contexts.
DetermineArraySize(a) ==
    /\ apc[a] = "size"
    /\ question' = [question EXCEPT ![a] = {Build(context[a])}]
    /\ \/ /\ size' = [size EXCEPT ![a] = DefaultSize]
          /\ apc' = [apc EXCEPT ![a] = "spawn"]
          /\ UNCHANGED <<list, slice>>
       \/ \E r \in Responses :
            LET info == ExecuteLLMRequest(r)
            IN  /\ size' = [size EXCEPT ![a] = info.num]
                /\ list' = [list EXCEPT ![a] = info.list]
                /\ apc' = [apc EXCEPT ![a] = IF DOMAIN info.list = {} THEN "spawn" ELSE "append"]
                /\ slice' = [slice EXCEPT ![a] = first[context[a]]]
    /\ UNCHANGED <<next, item, free, queue, granted, got, hint, first, line, context, asked, ended>>

\* The rest of AddPrompt: what was read, with the list behind it, becomes the slice of the
\* context.  What others appended meanwhile is lost.
AddPrompt(a) ==
    /\ apc[a] = "append"
    /\ first' = [first EXCEPT ![context[a]] = IF slice[a] = None THEN a ELSE slice[a]]
    /\ apc' = [apc EXCEPT ![a] = "spawn"]
    /\ UNCHANGED <<size, list, next, item, free, queue, granted, got, hint, line, slice, context,
                   question, asked, ended>>

StartItem(a) ==
    /\ item' = [item EXCEPT ![a][next[a]] = "start"]
    /\ next' = [next EXCEPT ![a] = @ + 1]

\* Acquire for the next item: at once, or after a sleep, or not at all.
Acquire(a) ==
    /\ apc[a] = "spawn"
    /\ next[a] < size[a]
    /\ \/ ended /\ apc' = [apc EXCEPT ![a] = "error"] /\ UNCHANGED <<item, next, free, queue>>
       \/ /\ ~ended /\ free > 0 /\ queue = <<>>
          /\ free' = free - 1
          /\ StartItem(a)
          /\ UNCHANGED <<apc, queue>>
       \/ /\ ~ended /\ (free = 0 \/ queue # <<>>)
          /\ queue' = Append(queue, a)
          /\ apc' = [apc EXCEPT ![a] = "acquire"]
          /\ UNCHANGED <<item, next, free>>
    /\ UNCHANGED <<size, list, granted, got, hint, promptVars, ended>>

\* Give a permit to the oldest sleeper, or back to the semaphore.
HandOn ==
    IF queue = <<>>
    THEN free' = free + 1 /\ UNCHANGED <<queue, granted>>
    ELSE granted' = granted \cup {Head(queue)} /\ queue' = Tail(queue) /\ UNCHANGED free

\* Acquire returns: with a permit, or because the context has ended; a permit handed over
\* meanwhile is given on.
Acquired(a) ==
    /\ apc[a] = "acquire"
    /\ \/ /\ ~ended /\ a \in granted
          /\ granted' = granted \ {a}
          /\ StartItem(a)
          /\ apc' = [apc EXCEPT ![a] = "spawn"]
          /\ UNCHANGED <<free, queue>>
       \/ /\ ended /\ a \in granted
          /\ apc' = [apc EXCEPT ![a] = "error"]
          /\ IF queue = <<>>
             THEN free' = free + 1 /\ granted' = granted \ {a} /\ UNCHANGED queue
             ELSE granted' = (granted \ {a}) \cup {Head(queue)} /\ queue' = Tail(queue) /\ UNCHANGED free
          /\ UNCHANGED <<item, next>>
       \/ /\ ended /\ a \notin granted
          /\ \E i \in DOMAIN queue : queue[i] = a /\ queue' = RemoveAt(queue, i)
          /\ apc' = [apc EXCEPT ![a] = "error"]
          /\ UNCHANGED <<item, next, free, granted>>
    /\ UNCHANGED <<size, list, got, hint, promptVars, ended>>

\* Mutant of StartProcessing: the line of an item is set in the context it shares.
StartProcessingInPlace(a, i) ==
    LET own == ExtractItemFromList(list[a], i)
        k == context[a]
        b == Inner[a][i]
    IN  /\ item[a][i] = "start"
        /\ hint' = [hint EXCEPT ![a][i] = own]
        /\ item' = [item EXCEPT ![a][i] = "process"]
        /\ line' = IF own = 0 THEN line ELSE [line EXCEPT ![k] = <<a, i>>]
        /\ IF b = None
           THEN asked' = [asked EXCEPT ![a][i] = {[Build(k) EXCEPT !.line = line'[k]]}] /\ UNCHANGED <<apc, context>>
           ELSE /\ apc' = [apc EXCEPT ![b] = "begin"]
                /\ context' = [context EXCEPT ![b] = k]
                /\ UNCHANGED asked
        /\ UNCHANGED <<size, list, next, free, queue, granted, got, first, slice, question, ended>>

\* The goroutine of an item: with a line of its own it works in a context that has a copy
\* of the prompts and that line (WithItemContext), else in the context of the array
\* (WithParent).  An array is processed in place; for any other item the request is built.
StartProcessing(a, i) ==
    LET own == ExtractItemFromList(list[a], i)
        up == context[a]
        k == IF own # 0 THEN <<a, i>> ELSE up
        b == Inner[a][i]
    IN  /\ item[a][i] = "start"
        /\ hint' = [hint EXCEPT ![a][i] = own]
        /\ first' = [first EXCEPT ![k] = first[up]]
        /\ line' = [line EXCEPT ![k] = IF own # 0 THEN <<a, i>> ELSE line[up]]
        /\ item' = [item EXCEPT ![a][i] = "process"]
        /\ IF b = None
           THEN asked' = [asked EXCEPT ![a][i] = {[first |-> first'[k], line |-> line'[k]]}] /\ UNCHANGED <<apc, context>>
           ELSE /\ apc' = [apc EXCEPT ![b] = "begin"]
                /\ context' = [context EXCEPT ![b] = k]
                /\ UNCHANGED asked
        /\ UNCHANGED <<size, list, next, free, queue, granted, got, slice, question, ended>>

\* The processor of the item's type returns.
ItemDone(a, i) ==
    LET b == Inner[a][i]
    IN  /\ item[a][i] = "process"
        /\ \/ b = None /\ \E r \in {"value", "error"} : item' = [item EXCEPT ![a][i] = r]
           \/ b # None /\ apc[b] = "ok" /\ item' = [item EXCEPT ![a][i] = "value"]
           \/ b # None /\ apc[b] = "error" /\ item' = [item EXCEPT ![a][i] = "error"]
        /\ UNCHANGED <<apc, size, list, next, free, queue, granted, got, hint, promptVars, ended>>

\* Mutant of SendItem: a failed item returns before the deferred Release is set up.
SendItemKeeping(a, i) ==
    /\ item[a][i] \in {"value", "error"}
    /\ item' = [item EXCEPT ![a][i] = IF @ = "value" THEN "sentValue" ELSE "sentError"]
    /\ IF item[a][i] = "value" THEN HandOn ELSE UNCHANGED <<free, queue, granted>>
    /\ UNCHANGED <<apc, size, next, list, got, hint, promptVars, ended>>

\* The result is sent to the channel, which has room for all, or dropped once the context
\* has ended; then the deferred Release.
SendItem(a, i) ==
    /\ \/ item[a][i] = "value" /\ item' = [item EXCEPT ![a][i] = "sentValue"]
       \/ item[a][i] = "error" /\ item' = [item EXCEPT ![a][i] = "sentError"]
       \/ item[a][i] \in {"value", "error"} /\ ended /\ item' = [item EXCEPT ![a][i] = "gone"]
    /\ HandOn
    /\ UNCHANGED <<apc, size, next, list, got, hint, promptVars, ended>>

\* Mutant of Collect: the loop waits for every result, whatever the context.
CollectWithoutContext(a) ==
    /\ apc[a] = "spawn" /\ next[a] = size[a]
    /\ \/ \E i \in Index :
            /\ item[a][i] \in {"sentValue", "sentError"}
            /\ item' = [item EXCEPT ![a][i] = IF @ = "sentValue" THEN "taken" ELSE "gone"]
            /\ apc' = IF item[a][i] = "sentValue" THEN apc ELSE [apc EXCEPT ![a] = "error"]
            /\ UNCHANGED got
       \/ /\ \A i \in 0 .. size[a] - 1 : item[a][i] = "taken"
          /\ apc' = [apc EXCEPT ![a] = "ok"]
          /\ UNCHANGED <<got, item>>
    /\ UNCHANGED <<size, list, next, free, queue, granted, hint, promptVars, ended>>

\* The collecting loop: the first failed item, or the end of the context, ends it.  The
\* value of item i is modelled by i, and goes to the place i of the result.
Collect(a) ==
    /\ apc[a] = "spawn"
    /\ next[a] = size[a]
    /\ LET count == Cardinality({i \in Index : item[a][i] = "taken"})
       IN \/ /\ count < size[a]
             /\ \E i \in Index :
                  \/ /\ item[a][i] = "sentValue"
                     /\ got' = [got EXCEPT ![a] = [j \in 1 .. size[a] |->
                                   IF j = i + 1 THEN i ELSE IF j \in DOMAIN got[a] THEN got[a][j] ELSE None]]
                     /\ item' = [item EXCEPT ![a][i] = "taken"]
                     /\ UNCHANGED apc
                  \/ /\ item[a][i] = "sentError"
                     /\ item' = [item EXCEPT ![a][i] = "gone"]
                     /\ apc' = [apc EXCEPT ![a] = "error"]
                     /\ UNCHANGED got
          \/ count < size[a] /\ ended /\ apc' = [apc EXCEPT ![a] = "error"] /\ UNCHANGED <<got, item>>
          \/ count = size[a] /\ apc' = [apc EXCEPT ![a] = "ok"] /\ UNCHANGED <<got, item>>
    /\ UNCHANGED <<size, list, next, free, queue, granted, hint, promptVars, ended>>

\* The deadline of the request, or the client going away.
End ==
    /\ ~ended
    /\ ended' = TRUE
    /\ UNCHANGED <<apc, size, list, next, item, free, queue, granted, got, hint, promptVars>>

Process(a) == Begin(a) \/ DetermineArraySize(a) \/ AddPrompt(a) \/ Acquire(a) \/ Acquired(a) \/ Collect(a)
Goroutine(a, i) == StartProcessing(a, i) \/ ItemDone(a, i) \/ SendItem(a, i)

Next == End \/ \E a \in Arrays : Process(a) \/ \E i \in Index : Goroutine(a, i)

Spec == Init /\ [][Next]_vars

\* Goroutines run, the model answers, and the deadline passes.
FairSpec ==
    /\ Spec /\ WF_vars(End)
    /\ \A a \in Arrays : WF_vars(Process(a)) /\ \A i \in Index : WF_vars(Goroutine(a, i))

-----------------------------------------------------------------------------
Prompts == Arrays \cup {None, "prompt"}
Requests == [first : Prompts, line : Contexts]
ItemStates == {"none", "start", "process", "value", "error", "sentValue", "sentError", "taken", "gone"}

PromptTypes ==
    /\ first \in [Contexts -> Prompts] /\ slice \in [Arrays -> Prompts]
    /\ line \in [Contexts -> Contexts]
    /\ context \in [Arrays -> Contexts]
    /\ question \in [Arrays -> SUBSET Requests]
    /\ asked \in [Arrays -> [Index -> SUBSET Requests]]

\* The values the variables range over.
TypeOK ==
    /\ apc \in [Arrays -> {"idle", "begin", "size", "append", "spawn", "acquire", "ok", "error"}]
    /\ size \in [Arrays -> 0 .. MaxItems]
    /\ \A a \in Arrays : next[a] \in 0 .. size[a]
    /\ item \in [Arrays -> [Index -> ItemStates]]
    /\ free \in 0 .. Permits
    /\ queue \in Seq(Arrays) /\ granted \subseteq Arrays
    /\ PromptTypes
    /\ ended \in BOOLEAN

Running == {x \in Items : item[x[1]][x[2]] \in {"start", "process", "value", "error"}}

\* Every permit is free, held by the goroutine of an item, or on its way to a sleeper: no
\* way out of Process or of an item loses one of the whole server's permits.
ItemPermitsAccounted == free + Cardinality(Running) + Cardinality(granted) = Permits

\* A successful array has every item, each at its own index, whatever order they came in.
ItemsInPlace ==
    \A a \in Arrays : apc[a] = "ok" => got[a] = [j \in 1 .. size[a] |-> j - 1]

\* Two items of one array are never given the same line of its list.
HintsDistinct ==
    \A a \in Arrays, i, j \in Index :
        i # j /\ hint[a][i] # 0 /\ hint[a][j] # 0 => hint[a][i] # hint[a][j]

\* The requests an item leads to: its own, or the one for the list of the array it is.
RequestsOf(a, i) == IF Inner[a][i] = None THEN asked[a][i] ELSE question[Inner[a][i]]

\* Every request has the prompt of the user in front, however the unlocked appends to a
\* context that arrays share come out.
PromptInFront ==
    \A a \in Arrays :
        /\ \A q \in question[a] : q.first = "prompt"
        /\ \A i \in Index : \A r \in asked[a][i] : r.first = "prompt"

\* An item is generated for its own line of the list or, when it has none, for the line of
\* the nearest item around it that has one; never for the line of a sibling, although
\* items without a line share the context of their array.
LinesNearest ==
    \A a \in Arrays : \A q \in question[a] :
        /\ a \in Root => q.line = NoLine
        /\ \A i \in Index : \A r \in RequestsOf(a, i) :
             r.line = IF hint[a][i] # 0 THEN <<a, i>> ELSE q.line

\* Arrays nested in arrays can wait for permits their own parents hold; the deadline
\* breaks that: every array returns, and all permits come back.
ArraysReturn == \A a \in Root : <>(apc[a] \in {"ok", "error"})
PermitsComeBack == <>[](free = Permits)

\* The array sizes keep to their limit and no permit of the semaphore is lost.
ArrayInv == TypeOK /\ ItemPermitsAccounted

\* Whatever order the items run and finish in: values are at their indices, no two items
\* get one line, and each is asked for with the user's prompt and the line it belongs to.
ItemsSound == ItemsInPlace /\ HintsDistinct /\ PromptInFront /\ LinesNearest

\* With the deadline every array of a request returns and the semaphore is whole again.
ArraysEnd == ArraysReturn /\ PermitsComeBack
=============================================================================
