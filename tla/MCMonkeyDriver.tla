--------------------------- MODULE MCMonkeyDriver ---------------------------
(***************************************************************************)
(* Programs for MonkeyDriver, written instruction by instruction.          *)
(***************************************************************************)
EXTENDS MonkeyDriver, SequencesExt

Instr(op, width, line, to, fn) ==
  <<[op |-> op, width |-> width, line |-> line, to |-> to, fn |-> fn]>> \o
  [i \in 1 .. width - 1 |->
     [op |-> "operand", width |-> 1, line |-> 0, to |-> 0, fn |-> fn]]

Plain(width, line) == Instr("plain", width, line, 0, "main")
Pop == Instr("pop", 1, 0, 0, "main")
Risky(line) == Instr("risky", 1, line, 0, "main")
Call(fn, line) == Instr("call", 2, line, 0, fn)
Branch(line, to) == Instr("branch", 3, line, to, "main")
Return(line) == Instr("return", 1, line, 0, "main")

MCFns == {"main", "rec"}

(***************************************************************************)
(* 1 let a = true       4 let rec = fn(n) {                                *)
(* 2 let r = rec(a)     5   if (n) {                                       *)
(* 3 r                  6     rec(n) }                                     *)
(*                      7   return n }                                     *)
(***************************************************************************)
RecursiveCode ==
  [main |-> FlattenSeq(<<Plain(1, 1), Plain(3, 1),
                         Plain(3, 2), Call("rec", 2), Plain(3, 2),
                         Plain(3, 3), Pop>>),
   rec  |-> FlattenSeq(<<Plain(1, 5), Branch(5, 9),
                         Plain(2, 6), Call("rec", 6), Pop,
                         Plain(2, 7), Return(7)>>)]

\* The program on which ReachesEnd says something.
ASSUME RecursiveStallFree == Code = RecursiveCode => StallFree

(***************************************************************************)
(* 1 let a = 1          4 let rec = fn(n) {                                *)
(* 2 rec(a);            5   let k = n                                      *)
(* 3 rec(a) + 1         6   return k + true }                              *)
(***************************************************************************)
FailingCode ==
  [main |-> FlattenSeq(<<Plain(3, 1), Plain(3, 1),
                         Plain(3, 2), Call("rec", 2), Pop,
                         Plain(3, 3), Call("rec", 3), Plain(3, 3), Risky(0), Pop>>),
   rec  |-> FlattenSeq(<<Plain(2, 5), Plain(2, 5),
                         Plain(2, 6), Plain(1, 6), Risky(0), Return(6)>>)]

(***************************************************************************)
(* 1 let a = 2          4 let f = fn(x) {                                  *)
(* 2 let r = f(a)       5   true                                           *)
(* 3 r                  6   return x }                                     *)
(***************************************************************************)
StallingCode ==
  [main |-> FlattenSeq(<<Plain(3, 1), Plain(3, 1),
                         Plain(3, 2), Call("rec", 2), Plain(3, 2),
                         Plain(3, 3), Pop>>),
   rec  |-> FlattenSeq(<<Plain(1, 5), Pop, Plain(2, 6), Return(6)>>)]
=============================================================================
