------------------------------- MODULE Loader -------------------------------
(***************************************************************************)
(* The dynamic linker: libdl/_dl_main.c with dlopen.c, _dl_open.c,         *)
(* _dl_queue.c, _dl_alloc.c and dlclose.c, which it includes.              *)
(*                                                                         *)
(* _dl_dyn_scan calls itself, through the queue of the libraries still to  *)
(* be opened: stack holds its calls, each at "scan", "deps" (in            *)
(* _dl_open_dep), "reloc" or "init".  The constructors it calls are the    *)
(* client's, and may call dlopen and dlclose.  dec_referenced_libs calls   *)
(* dlclose, which calls it: closing holds those calls.  The destructors    *)
(* that dlclose calls do nothing here, and munmap does not fail.           *)
(*                                                                         *)
(* A name is a file's, or a path to one.                                   *)
(***************************************************************************)
EXTENDS Integers, Sequences, FiniteSets, SequencesExt

CONSTANTS Library,      \* the files
          Paths,        \* Paths[n]: the file that the path n leads to
          Graphs,       \* what they and "prog" may need: functions to sequences of names
          Sonames,      \* the files with a DT_SONAME, their own name
          MAX_QUEUE,
          MaxHandles,   \* bound: objects mapped at a time
          MaxOpens      \* bound: calls of dlopen

VARIABLES needed,    \* DT_NEEDED of each file
          list,      \* the handles from _dl_root_handle to _dl_top_handle
          handle,    \* file, name, lnk_count, and whether the object is initialised
          queue,     \* _dl_queue
          stack, closing,
          opened,    \* opened[h]: how often the client holds h
          opens,
          accidents, \* "fails": files may not load; "nests": constructors may call dlopen
          failed,    \* something did not load
          before     \* the names in the list when the client called dlopen

lvars == <<needed, list, handle, queue, stack, closing, opened, opens, accidents, failed, before>>

prog == 1
libdl == 2
Handle == 1 .. MaxHandles
Unused0 == [file |-> "none", name |-> "none", lnk_count |-> 0, ready |-> FALSE]

FileOf(n) == IF n \in DOMAIN Paths THEN Paths[n] ELSE n

Frame(h, at, client) == [h |-> h, at |-> at, client |-> client]
Top == IF stack = <<>> THEN Frame(0, "none", FALSE) ELSE stack[Len(stack)]
Dead == <<Frame(0, "dead", FALSE)>>

Needs(h) == IF handle[h].file = "libdl" THEN <<>> ELSE needed[handle[h].file]

NamesOf(l) == [i \in DOMAIN l |-> handle[l[i]].name]

(* _dl_main has its own handle and that of the program, and scans it. *)
LInit ==
  /\ needed \in Graphs
  /\ list = <<prog, libdl>>
  /\ handle = [h \in Handle |->
                 CASE h = prog -> [file |-> "prog", name |-> "none", lnk_count |-> 1024, ready |-> FALSE]
                   [] h = libdl -> [file |-> "libdl", name |-> "libdl", lnk_count |-> 1024, ready |-> TRUE]
                   [] OTHER -> Unused0]
  /\ queue = <<>> /\ stack = <<Frame(prog, "scan", FALSE)>> /\ closing = <<>>
  /\ opened = [h \in Handle |-> 0] /\ opens = 0
  /\ accidents \in {"fails", "nests"} /\ failed = FALSE
  /\ before = <<"none", "libdl">>

-----------------------------------------------------------------------------
(* Mutant: the search ends at the first object without a name. *)
FindNamed(n) ==
  LET hits == {i \in DOMAIN list : /\ handle[list[i]].name = n
                                   /\ \A j \in 1 .. i : handle[list[j]].name # "none"}
  IN  IF hits = {} THEN 0 ELSE list[CHOOSE i \in hits : \A j \in hits : i <= j]

(* _dl_find_lib *)
Find(n) ==
  LET hits == {i \in DOMAIN list : handle[list[i]].name = n}
  IN  IF n = "none" \/ hits = {} THEN 0 ELSE list[CHOOSE i \in hits : \A j \in hits : i <= j]

Counted(hd, h, by) == [hd EXCEPT ![h].lnk_count = @ + by]

(* What a failure returns to: the client's call of dlopen gets 0.  A       *)
(* program that cannot be started dies.  Handles and queue stay.           *)
Failed0 ==
  /\ accidents = "fails" /\ failed' = TRUE
  /\ LET calls == {i \in DOMAIN stack : stack[i].client}
     IN  stack' = IF calls = {} THEN Dead
                  ELSE SubSeq(stack, 1, (CHOOSE i \in calls : \A j \in calls : j <= i) - 1)
  /\ UNCHANGED <<list, handle>>

(* _dl_open and _dl_map_lib: a handle at the end of the list. *)
Load(hd, st, n, client) ==
  \E h \in Handle :
    /\ hd[h] = Unused0 /\ \A g \in 1 .. h - 1 : hd[g] # Unused0
    /\ handle' = [hd EXCEPT ![h] = [file |-> FileOf(n), name |-> n, lnk_count |-> 1, ready |-> FALSE]]
    /\ list' = Append(list, h)
    /\ stack' = Append(st, Frame(h, "scan", client))
    /\ UNCHANGED failed

-----------------------------------------------------------------------------
(* _dl_queue_lib for all that dh needs.  When the queue is full the name   *)
(* is dropped, and nobody looks at the -1.                                 *)

First(s, n) == [i \in {j \in DOMAIN s : j <= n} |-> s[i]]

(* Mutant: what comes last is opened first. *)
QueuedFirst(names) == First(Reverse(names) \o queue, MAX_QUEUE - 1)

Queued(names) == First(queue \o names, MAX_QUEUE - 1)

Named(h) == IF handle[h].file \in Sonames THEN handle[h].file ELSE handle[h].name

(* _dl_dyn_scan up to the dependencies: the object gets its SONAME, the    *)
(* libraries already there a reference.                                    *)
Scan ==
  /\ Top.at = "scan"
  /\ \/ /\ LET named == [handle EXCEPT ![Top.h].name = Named(Top.h)]
               found(n) == IF Find(n) = 0 /\ n = Named(Top.h) THEN Top.h ELSE Find(n)
               need == Needs(Top.h)
           IN  /\ handle' = [h \in Handle |->
                               [named[h] EXCEPT !.lnk_count = @ + Cardinality({k \in DOMAIN need : found(need[k]) = h})]]
               /\ queue' = Queued(SelectSeq(need, LAMBDA n : found(n) = 0))
        /\ stack' = [stack EXCEPT ![Len(stack)].at = "deps"]
        /\ UNCHANGED <<list, failed>>
     \/ Failed0 /\ UNCHANGED queue
  /\ UNCHANGED <<needed, closing, opened, opens, accidents, before>>

(* Mutant: a library loaded meanwhile is not counted. *)
OpenDepUncounted ==
  /\ Top.at = "deps" /\ queue # <<>>
  /\ LET n == Head(queue)
     IN  IF Find(n) # 0 THEN UNCHANGED <<handle, list, stack, failed>>
         ELSE Load(handle, stack, n, FALSE) \/ Failed0
  /\ queue' = Tail(queue)
  /\ UNCHANGED <<needed, closing, opened, opens, accidents, before>>

(* A turn of the loop in _dl_open_dep. *)
OpenDep ==
  /\ Top.at = "deps" /\ queue # <<>>
  /\ LET n == Head(queue)
     IN  IF Find(n) # 0 THEN handle' = Counted(handle, Find(n), 1) /\ UNCHANGED <<list, stack, failed>>
         ELSE Load(handle, stack, n, FALSE) \/ Failed0
  /\ queue' = Tail(queue)
  /\ UNCHANGED <<needed, closing, opened, opens, accidents, before>>

(* Mutant: only its own dependencies are waited for. *)
DepsDoneEarly ==
  /\ Top.at = "deps" /\ Len(queue) <= 1
  /\ stack' = [stack EXCEPT ![Len(stack)].at = "reloc"]
  /\ UNCHANGED <<needed, list, handle, queue, closing, opened, opens, accidents, failed, before>>

DepsDone ==
  /\ Top.at = "deps" /\ queue = <<>>
  /\ stack' = [stack EXCEPT ![Len(stack)].at = "reloc"]
  /\ UNCHANGED <<needed, list, handle, queue, closing, opened, opens, accidents, failed, before>>

Relocate ==
  /\ Top.at = "reloc"
  /\ \/ stack' = [stack EXCEPT ![Len(stack)].at = "init"] /\ UNCHANGED <<list, handle, failed>>
     \/ Failed0
  /\ UNCHANGED <<needed, queue, closing, opened, opens, accidents, before>>

(* The constructor returns, and so does _dl_dyn_scan. *)
InitDone ==
  /\ Top.at = "init" /\ closing = <<>>
  /\ handle' = [handle EXCEPT ![Top.h].ready = TRUE]
  /\ opened' = IF Top.client THEN [opened EXCEPT ![Top.h] = @ + 1] ELSE opened
  /\ stack' = SubSeq(stack, 1, Len(stack) - 1)
  /\ UNCHANGED <<needed, list, queue, closing, opens, accidents, failed, before>>

-----------------------------------------------------------------------------
(* The client, in main or in a constructor.                                *)

ClientRuns ==
  closing = <<>> /\ (stack = <<>> \/ (accidents = "nests" /\ Top.at = "init"))

DlOpen(n) ==
  /\ ClientRuns /\ opens < MaxOpens /\ opens' = opens + 1
  /\ \/ /\ Find(n) # 0
        /\ handle' = Counted(handle, Find(n), 1) /\ opened' = [opened EXCEPT ![Find(n)] = @ + 1]
        /\ UNCHANGED <<list, stack, failed>>
     \/ Find(n) = 0 /\ Load(handle, stack, n, TRUE) /\ UNCHANGED opened
     \/ Find(n) = 0 /\ accidents = "fails" /\ failed' = TRUE /\ UNCHANGED <<handle, list, stack, opened>>
  /\ before' = IF stack = <<>> THEN NamesOf(list) ELSE before
  /\ UNCHANGED <<needed, queue, closing, accidents>>

(* dlclose of h by the client or by dec_referenced_libs: --lnk_count, and  *)
(* if that makes 0 the libraries it needs are next.                        *)
Released(h, calls) ==
  /\ handle' = Counted(handle, h, -1)
  /\ closing' = IF handle[h].lnk_count = 1 THEN Append(calls, [h |-> h, k |-> 1]) ELSE calls

DlClose(h) ==
  /\ ClientRuns /\ opened[h] > 0
  /\ opened' = [opened EXCEPT ![h] = @ - 1]
  /\ Released(h, <<>>)
  /\ UNCHANGED <<needed, list, queue, stack, opens, accidents, failed, before>>

Closing == closing[Len(closing)]

DecReferenced ==
  /\ closing # <<>> /\ Closing.k <= Len(Needs(Closing.h))
  /\ LET calls == [closing EXCEPT ![Len(closing)].k = @ + 1]
         g == Find(Needs(Closing.h)[Closing.k])
     IN  IF g = 0 THEN closing' = calls /\ UNCHANGED handle ELSE Released(g, calls)
  /\ UNCHANGED <<needed, list, queue, stack, opened, opens, accidents, failed, before>>

(* munmap and _dl_free_handle *)
FreeHandle ==
  /\ closing # <<>> /\ Closing.k > Len(Needs(Closing.h))
  /\ list' = SelectSeq(list, LAMBDA g : g # Closing.h)
  /\ handle' = [handle EXCEPT ![Closing.h] = Unused0]
  /\ closing' = SubSeq(closing, 1, Len(closing) - 1)
  /\ UNCHANGED <<needed, queue, stack, opened, opens, accidents, failed, before>>

-----------------------------------------------------------------------------
Loading == Scan \/ OpenDep \/ DepsDone \/ Relocate \/ InitDone \/ DecReferenced \/ FreeHandle

LNext ==
  \/ Loading
  \/ \E n \in Library \cup DOMAIN Paths : DlOpen(n)
  \/ \E h \in Handle : DlClose(h)

LFairness == WF_lvars(Loading)

LSpec == LInit /\ [][LNext]_lvars /\ LFairness

-----------------------------------------------------------------------------
(* Properties.                                                             *)

AtRest == stack = <<>> /\ closing = <<>>

Listed == {list[i] : i \in DOMAIN list}

(* The references to h by the libraries in S. *)
Refs(h, S) == Cardinality({<<g, k>> \in S \X (1 .. 4) : k \in DOMAIN Needs(g) /\ Find(Needs(g)[k]) = h})

(* lnk_count is the number of times the client and the libraries loaded    *)
(* hold the object, so that dlclose never unmaps what is in use nor leaves *)
(* what is not; after a failure it may be larger, never smaller.           *)
CountsRight ==
  AtRest =>
    \A h \in Listed :
      LET base == IF h \in {prog, libdl} THEN 1024 ELSE 0
          real == handle[h].lnk_count - base - opened[h]
      IN  IF failed THEN real >= Refs(h, {g \in Listed : handle[g].ready}) ELSE real = Refs(h, Listed)

(* Unless something has failed, all that was asked for is there and has    *)
(* been initialised when the outermost dlopen returns: dependencies of     *)
(* dependencies, cycles, and what constructors opened meanwhile.           *)
LoadComplete ==
  AtRest /\ ~failed =>
    /\ queue = <<>>
    /\ \A h \in Listed : /\ handle[h].ready
                         /\ \A k \in DOMAIN Needs(h) : Find(Needs(h)[k]) # 0

(* The new names of need, after those of s. *)
Extend(s, old, need) ==
  LET step[k \in 0 .. Len(need)] ==
        IF k = 0 THEN s
        ELSE IF Contains(step[k - 1], need[k]) \/ Contains(old, need[k]) THEN step[k - 1]
        ELSE Append(step[k - 1], need[k])
  IN  step[Len(need)]

NeedsOf(n) == IF n = "none" THEN needed["prog"] ELSE needed[FileOf(n)]

BreadthFirst(first, old) ==
  LET visit[k \in 0 .. MaxHandles] ==
        IF k = 0 THEN <<first>>
        ELSE IF k > Len(visit[k - 1]) THEN visit[k - 1]
        ELSE Extend(visit[k - 1], old, NeedsOf(visit[k - 1][k]))
  IN  visit[MaxHandles]

(* One ring buffer shared by calls of _dl_open_dep within each other puts  *)
(* the libraries into the list, which is the order symbols are searched    *)
(* in, breadth first.                                                      *)
SearchOrder ==
  Len(stack) = 1 /\ Top.at = "reloc" /\ ~failed /\ (accidents = "nests" => opens = 0) =>
    NamesOf(list) = IF Top.h = prog THEN <<"none", "libdl">> \o Tail(BreadthFirst("none", before))
                    ELSE before \o BreadthFirst(handle[Top.h].name, before)

(* Loading and unloading end, also when libraries need each other. *)
LoadEnds == ~AtRest ~> AtRest \/ stack = Dead

(* What is loaded is complete, counted and in the order of the search.     *)
LoadRight == CountsRight /\ LoadComplete /\ SearchOrder
=============================================================================
