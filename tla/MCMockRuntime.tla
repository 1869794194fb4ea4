--------------------------- MODULE MCMockRuntime ---------------------------
(***************************************************************************)
(* Files and users for MockRuntime.                                        *)
(***************************************************************************)
EXTENDS MockRuntime

Word(at, size) == [at |-> at, size |-> size]
Plain(words, length) ==
  [kind |-> "text", lazy |-> FALSE, disassembly |-> FALSE, words |-> words,
   length |-> length, accesses |-> << >>, throws |-> "none"]
Kind(kind, length) == [Plain(<< >>, length) EXCEPT !.kind = kind]
Writes(name) == <<[name |-> name, type |-> "write"]>>
Reads(name) == <<[name |-> name, type |-> "read"]>>

(***************************************************************************)
(* 1 a $x=1                                                                *)
(* 2                                                                       *)
(* 3 lazy $x=2 $x disassembly                                              *)
(* 4 +                                                                     *)
(* 5 - exception(named)                                                    *)
(***************************************************************************)
OneFile ==
  [main |-> <<[Plain(<<Word(0, 1), Word(3, 1)>>, 6) EXCEPT !.accesses = Writes("x")],
              Kind("empty", 0),
              [Plain(<<Word(0, 4), Word(6, 1), Word(11, 1), Word(13, 11)>>, 24)
                 EXCEPT !.lazy = TRUE, !.disassembly = TRUE,
                        !.accesses = Writes("x") \o Reads("x")],
              Kind("plus", 1),
              [Plain(<<Word(2, 9), Word(12, 5)>>, 18)
                 EXCEPT !.kind = "minus", !.throws = "named"]>>]

(* A second one: 1 b $x    2                                               *)
TwoFiles ==
  OneFile @@ [other |-> <<[Plain(<<Word(0, 1), Word(3, 1)>>, 4) EXCEPT !.accesses = Reads("x")],
                          Kind("empty", 0)>>]

Breaks == {"breakpoints", "instructionBreakpoints", "dataBreakpoints", "exceptions", "reverse"}

\* One user for each group of features that disturb each other.
ByLines == {Breaks}
AnyUser ==
  {Breaks,
   {"otherFiles", "reverse"},
   {"instructionBreakpoints", "instructionSteps", "reverse"},
   {"columns", "reverse"}}

NoneOrRead == {{}, {"read"}}
NoneOrNamed == {{}, {"named"}}
=============================================================================
