------------------------------- MODULE MCLib --------------------------------
(***************************************************************************)
(* Parts of the library that do not interact, for TLC: each behaviour is   *)
(* about one of them, and the others stay in one initial state, in which   *)
(* nothing that fairness asks for is enabled.                              *)
(***************************************************************************)
EXTENDS Containers, Qsort, Time, Strtol, Patterns, Printf, Loader

VARIABLE part

libvars == <<hvars, evars, dirvars, qvars, clock, nvars, xxvars, fvars, pfvars, lvars>>

-----------------------------------------------------------------------------
(* Constants.                                                              *)

Upto(S, n) == UNION {[1 .. k -> S] : k \in 0 .. n}

MCPrimes == <<2, 3>>
MCReclen == <<2, 1, 3, 1, 1, 2>>

MCLead == {<<>>, <<Space>>, <<Minus>>, <<Plus>>, <<Space, Minus>>, <<Minus, Space>>,
           <<Minus, Minus>>, <<Minus, Plus>>, <<0, X>>, <<Minus, 0, X>>}

MCPatterns  == Upto({"a", ".", "/", "*", "?", "\\", "[a./]"}, 3)
MCFileNames == Upto({"a", ".", "/", "\\"}, 3)
MCMembers   == [b \in {"[a./]"} |-> {"a", ".", "/"}]

Times(a, c) == [atom |-> a, min |-> c[1], max |-> c[2]]
Once(a)       == Times(a, <<1, 1>>)
Letter(x)     == [type |-> "CHAR", c |-> x]
Place1(t)     == [type |-> t]
Some(S, n)    == Upto(S, n) \ {<<>>}

MCPieces ==
  {Times(a, c) : a \in {Letter("a"), Letter("b"), Place1("ANY"), [type |-> "BRACKET", set |-> {"b", Newline}]},
                   c \in {<<1, 1>>, <<0, 4>>, <<0, 1>>, <<1, 4>>}}
  \cup {Once(Place1(t)) : t \in {"LINESTART", "LINEEND", "WORDSTART", "WORDEND", "EMPTY"}}
MCFew == {Once(Letter("a")), Once(Letter("b")), Times(Place1("ANY"), <<0, 4>>), Times(Letter("a"), <<0, 4>>)}
MCEnds == {Once(Place1("LINEEND")), Once([type |-> "STRING", str |-> <<"a", "b", "a">>])}
MCGroups ==
  {Times([type |-> "REGEX", r |-> r], c) : r \in [1 .. 2 -> Some(MCFew, 1)] \cup {<<>>},
                                             c \in {<<1, 1>>, <<0, 4>>}}
MCExpressions ==
  {<<b>> : b \in Some(MCPieces, 2) \cup Some(MCFew \cup MCEnds, 3)}
  \cup [1 .. 2 -> Some(MCFew, 2) \cup {<<Once(Place1("LINESTART"))>>}]
  \cup {<< <<g, p>> >> : g \in MCGroups, p \in MCFew}
  \cup {<<>>}
MCTexts == Upto({"a", "b", Newline}, 3)

MCGraphs ==
  {[prog |-> p, a |-> x, b |-> y, c |-> z] :
     p \in {<<>>, <<"a">>, <<"c", "b">>}, x \in {<<>>, <<"b", "c">>, <<"c", "libdl">>},
     y \in {<<>>, <<"a", "c">>, <<"c">>}, z \in {<<>>, <<"b">>}}
MCPaths == [pa |-> "a", pc |-> "c"]
Lonely  == [prog |-> <<>>, a |-> <<>>, b |-> <<>>, c |-> <<>>]

-----------------------------------------------------------------------------
(* A part that the behaviour is not about has its smallest input. *)
MCInit ==
  /\ part \in {"hsearch", "environ", "dir", "qsort", "time", "strtol", "regex", "fnmatch", "printf", "loader"}
  /\ DirInit
  /\ IF part = "hsearch" THEN HInit ELSE hv = [k \in HKey |-> 0] /\ HInit
  /\ IF part = "environ" THEN EInit ELSE environ = <<>> /\ EInit
  /\ IF part = "qsort" THEN QInit ELSE base = <<>> /\ QInit
  /\ IF part = "time" THEN ClockInit ELSE began = 0 /\ ClockInit
  /\ IF part = "strtol" THEN NInit ELSE text = <<>> /\ NInit
  /\ IF part = "regex" THEN GInit ELSE rx = <<>> /\ subject = <<>> /\ flags = {} /\ GInit
  /\ IF part = "fnmatch" THEN FInit ELSE glob = <<>> /\ fname = <<>> /\ FInit
  /\ IF part = "printf" THEN PInit
     ELSE arg = 0 /\ directive = [flags |-> <<>>, width |-> 0, prec |-> -1, conv |-> "d"] /\ PInit
  /\ IF part = "loader" THEN LInit
     ELSE /\ needed = Lonely /\ list = <<>> /\ handle = [h \in Handle |-> Unused0]
          /\ queue = <<>> /\ stack = <<>> /\ closing = <<>> /\ opened = [h \in Handle |-> 0]
          /\ opens = 0 /\ accidents = "nests" /\ failed = FALSE /\ before = <<>>

ContainerVars == <<hvars, evars, dirvars, qvars>>
Texts1     == <<nvars, xxvars, fvars, pfvars>>

MCNext ==
  /\ part' = part
  /\ \/ part = "hsearch" /\ HNext /\ UNCHANGED <<evars, dirvars, qvars, clock, Texts1, lvars>>
     \/ part = "environ" /\ ENext /\ UNCHANGED <<hvars, dirvars, qvars, clock, Texts1, lvars>>
     \/ part = "dir" /\ DirNext /\ UNCHANGED <<hvars, evars, qvars, clock, Texts1, lvars>>
     \/ part = "qsort" /\ QNext /\ UNCHANGED <<hvars, evars, dirvars, clock, Texts1, lvars>>
     \/ part = "time" /\ ClockTick /\ UNCHANGED <<ContainerVars, Texts1, lvars>>
     \/ part = "strtol" /\ NNext /\ UNCHANGED <<ContainerVars, clock, xxvars, fvars, pfvars, lvars>>
     \/ part = "regex" /\ GNext /\ UNCHANGED <<ContainerVars, clock, nvars, fvars, pfvars, lvars>>
     \/ part = "fnmatch" /\ FNext /\ UNCHANGED <<ContainerVars, clock, nvars, xxvars, pfvars, lvars>>
     \/ part = "printf" /\ PNext /\ UNCHANGED <<ContainerVars, clock, nvars, xxvars, fvars, lvars>>
     \/ part = "loader" /\ LNext /\ UNCHANGED <<ContainerVars, clock, Texts1>>

MCSpec == MCInit /\ [][MCNext]_<<libvars, part>> /\ QFairness /\ LFairness

-----------------------------------------------------------------------------
(* Numbers are read and printed as they should be, and times converted     *)
(* back to what they were.                                                 *)
NumbersRight == ParsedRight /\ PrintedRight /\ RoundTrip

(* Loading, unloading and sorting come to an end. *)
LoopsEnd == LoadEnds /\ Sorts
=============================================================================
