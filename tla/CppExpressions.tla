----------------------------- MODULE CppExpressions -----------------------------
(***************************************************************************)
(* The expressions hif2sc prints (src/src/hif2sc/PrintSystemCVisitor.cpp): *)
(* a tree becomes C++ tokens, with parentheses only where the printer's    *)
(* table of precedences asks for them, and a C++ compiler reads the tokens *)
(* by a table of its own.                                                  *)
(*                                                                         *)
(* A tree is a tuple: what the object is (an operator of HIF, or a kind of *)
(* object), then its operands in the order they are printed.  A leaf is a  *)
(* name.                                                                   *)
(***************************************************************************)
EXTENDS Naturals, Sequences

CONSTANT Trees  \* the expressions printed

VARIABLES
  tree,  \* the expression
  text,  \* the tokens printed for it, none before
  seen   \* what C++ reads, none before

exprVars == <<tree, text, seen>>

NotRead == <<>>
-----------------------------------------------------------------------------
(* OperatorPecedenceEnum, weakest first. *)
Prec ==
  [min |-> 0, concat |-> 1, assign |-> 2, when |-> 3, or |-> 4, and |-> 5,
   bor |-> 6, bxor |-> 7, band |-> 8, eq_neq |-> 9, gt_ge |-> 10, lt_le |-> 11,
   shifts |-> 12, plus_minus |-> 13, mult_div_mod |-> 14, ref |-> 15, deref |-> 16,
   cast |-> 17, not_bnot |-> 18, unary_plus_minus |-> 19, access |-> 20,
   member |-> 21, call |-> 22, scope |-> 23, max |-> 24]

Kind(t) == t[1]
Operands(t) == Len(t) - 1
Leaf(t) == Operands(t) = 0
Binary(t) == Operands(t) = 2
Unaries == {"op_not", "op_bnot", "op_ref", "op_deref", "op_minus", "op_plus"}

(* visitExpression: the token of an operator. *)
Spelling ==
  [op_not |-> "!", op_or |-> "||", op_xor |-> "^", op_and |-> "&&",
   op_bnot |-> "~", op_bor |-> "|", op_bxor |-> "^", op_band |-> "&",
   op_sll |-> "<<", op_srl |-> ">>", op_sla |-> "<<", op_sra |-> ">>",
   op_concat |-> ",", op_string_concat |-> "+",
   op_eq |-> "==", op_case_eq |-> "==", op_neq |-> "!=", op_case_neq |-> "!=",
   op_lt |-> "<", op_le |-> "<=", op_gt |-> ">", op_ge |-> ">=",
   op_plus |-> "+", op_minus |-> "-", op_mult |-> "*", op_div |-> "/",
   op_rem |-> "%", op_mod |-> "%", op_ref |-> "&", op_deref |-> "*"]
IsExpression(t) == Kind(t) \in DOMAIN Spelling

(* _getOperatorPrecedence of an expression. *)
OperatorPrecedence(t) ==
  LET o == Kind(t)
  IN CASE o = "op_or" -> Prec.or
       [] o = "op_and" -> Prec.and
       [] o = "op_bor" -> Prec.bor
       [] o \in {"op_xor", "op_bxor"} -> Prec.bxor
       [] o = "op_band" -> Prec.band
       [] o \in {"op_eq", "op_neq", "op_case_eq", "op_case_neq"} -> Prec.eq_neq
       [] o \in {"op_gt", "op_ge"} -> Prec.gt_ge
       [] o \in {"op_lt", "op_le"} -> Prec.lt_le
       [] o \in {"op_sll", "op_srl", "op_sla", "op_sra"} -> Prec.shifts
       [] o \in {"op_plus", "op_minus"} -> IF Binary(t) THEN Prec.plus_minus ELSE Prec.unary_plus_minus
       [] o = "op_string_concat" -> Prec.plus_minus
       [] o \in {"op_mult", "op_div", "op_mod", "op_rem"} -> Prec.mult_div_mod
       [] o \in {"op_not", "op_bnot"} -> Prec.not_bnot
       [] o = "op_concat" -> Prec.concat
       [] o = "op_ref" -> Prec.ref
       [] o = "op_deref" -> Prec.deref

RECURSIVE Contains(_, _)
Contains(t, o) == Kind(t) = o \/ \E i \in 2 .. Len(t) : Contains(t[i], o)
(* And of the other objects; the bounds of a slice have a range for a      *)
(* parent, the arguments of a call an assignment of parameters.            *)
Precedence(t) ==
  IF IsExpression(t) THEN OperatorPrecedence(t)
  ELSE CASE Kind(t) = "member" -> Prec.member
         [] Kind(t) \in {"call", "slice"} -> Prec.call
         [] Kind(t) = "field" -> Prec.access
         [] Kind(t) = "when" -> Prec.when
         [] Kind(t) = "assign" -> Prec.assign
         [] OTHER -> Prec.min
ParentPrecedence(p, i) ==
  CASE p = NotRead -> Prec.min
    [] Kind(p) = "slice" /\ i > 1 ->
         IF \E j \in 3 .. Len(p) : Contains(p[j], "op_gt") THEN Prec.max ELSE Prec.min
    [] Kind(p) = "call" -> Prec.min
    [] OTHER -> Precedence(p)

NoValue2Rule(t, p, i) ==
  LET own == Precedence(t) outer == ParentPrecedence(p, i)
  IN own # Prec.min /\ own < outer
(* _needWrapParen, for operand i of p. *)
NeedWrapParen(t, p, i) ==
  LET own == Precedence(t)
      outer == ParentPrecedence(p, i)
  IN  CASE own = Prec.min -> FALSE
        [] own = Prec.concat /\ outer # Prec.concat -> TRUE
        [] outer = Prec.member /\ i # 1 -> FALSE
        [] own >= Prec.access /\ own <= Prec.scope -> FALSE
        [] own = outer /\ IsExpression(p) /\ Binary(p) /\ i = 2 -> TRUE
        [] own = outer /\ Kind(p) = "when" /\ Kind(t) = "when" -> TRUE
        [] OTHER -> own < outer

-----------------------------------------------------------------------------
RECURSIVE Printed(_, _, _)
Operand(t, i) == Printed(t[i + 1], t, i)

(* visitExpression; a unary operator touches its operand. *)
Glue(token, tokens) ==
  IF tokens[1] = token /\ token \in {"-", "+", "&"}
  THEN <<token \o token>> \o Tail(tokens) ELSE <<token>> \o tokens
PrintExpression(t) ==
  IF Binary(t) THEN Operand(t, 1) \o <<Spelling[Kind(t)]>> \o Operand(t, 2)
  ELSE Glue(Spelling[Kind(t)], Operand(t, 1))
(* visitWhen and visitWhenAlt: condition ? value : for each alternative,   *)
(* then the default.                                                       *)
RECURSIVE PrintAlts(_, _)
PrintAlts(t, i) ==
  IF i = Operands(t) THEN Operand(t, i)
  ELSE Operand(t, i) \o <<"?">> \o Operand(t, i + 1) \o <<":">> \o PrintAlts(t, i + 2)
PrintMember(t) == Operand(t, 1) \o <<"[">> \o Operand(t, 2) \o <<"]">>
PrintSlice(t) == Operand(t, 1) \o <<".range(">> \o Operand(t, 2) \o <<",">> \o Operand(t, 3) \o <<")">>
PrintAssign(t) == Operand(t, 1) \o <<"=">> \o Operand(t, 2)
PrintCast(t) == <<"static_cast(">> \o Operand(t, 1) \o <<")">>
PrintField(t) == Operand(t, 1) \o <<".field">>
PrintCall(t) == <<"f(">> \o Operand(t, 1) \o <<",">> \o Operand(t, 2) \o <<")">>
Printed(t, p, i) ==
  LET bare ==
        CASE IsExpression(t) -> PrintExpression(t)
          [] Kind(t) = "when" -> PrintAlts(t, 1)
          [] Kind(t) = "member" -> PrintMember(t)
          [] Kind(t) = "slice" -> PrintSlice(t)
          [] Kind(t) = "assign" -> PrintAssign(t)
          [] Kind(t) = "cast" -> PrintCast(t)
          [] Kind(t) = "field" -> PrintField(t)
          [] Kind(t) = "call" -> PrintCall(t)
          [] OTHER -> <<Kind(t)>>
  IN  IF ~Leaf(t) /\ NeedWrapParen(t, p, i) THEN <<"(">> \o bare \o <<")">> ELSE bare

-----------------------------------------------------------------------------
(* C++'s own table, and what it reads: each operator with what follows at  *)
(* its level or a tighter one.                                             *)
Level(token) ==
  CASE token = "," -> 1
    [] token = "=" -> 2
    [] token = "?" -> 3
    [] token = "||" -> 4
    [] token = "&&" -> 5
    [] token = "|" -> 6
    [] token = "^" -> 7
    [] token = "&" -> 8
    [] token \in {"==", "!="} -> 9
    [] token \in {"<", "<=", ">", ">="} -> 10
    [] token \in {"<<", ">>"} -> 11
    [] token \in {"+", "-"} -> 12
    [] token \in {"*", "/", "%"} -> 13
    [] OTHER -> 0
Garbage == <<"garbage">>
Got(t, rest) == [tree |-> t, rest |-> rest]
Next1(r, token) == r.rest # <<>> /\ r.rest[1] = token

RECURSIVE ReadFrom(_, _), ReadMore(_, _), ReadPrefix(_), ReadPostfix(_)
ReadFrom(tokens, least) == ReadMore(ReadPrefix(tokens), least)
ReadMore(l, least) ==
  LET token == l.rest[1]
      level == Level(token)
      after(r) == Got(r.tree, Tail(r.rest))
  IN  IF l.rest = <<>> \/ level = 0 \/ level < least THEN l
      ELSE IF token = "?"
      THEN LET v == ReadFrom(Tail(l.rest), 1)
           IN IF ~Next1(v, ":") THEN Got(Garbage, <<>>)
              ELSE LET d == ReadFrom(Tail(v.rest), 2)
                   IN ReadMore(Got(<<"?", l.tree, v.tree, d.tree>>, d.rest), least)
      ELSE LET r == ReadFrom(Tail(l.rest), IF token = "=" THEN 2 ELSE level + 1)
           IN ReadMore(Got(<<token, l.tree, r.tree>>, r.rest), least)
ReadClosed(r, wrap(_)) ==
  IF Next1(r, ")") THEN ReadPostfix(Got(wrap(r.tree), Tail(r.rest))) ELSE Got(Garbage, <<>>)
ReadTwo(tokens, wrap(_, _)) ==
  LET one == ReadFrom(tokens, 2)
  IN IF Next1(one, ",") THEN ReadClosed(ReadFrom(Tail(one.rest), 2), LAMBDA t : wrap(one.tree, t))
     ELSE Got(Garbage, <<>>)
ReadPrefix(tokens) ==
  CASE tokens = <<>> -> Got(Garbage, <<>>)
    [] tokens # <<>> /\ tokens[1] = "(" -> ReadClosed(ReadFrom(Tail(tokens), 1), LAMBDA t : t)
    [] tokens # <<>> /\ tokens[1] = "static_cast(" ->
         ReadClosed(ReadFrom(Tail(tokens), 1), LAMBDA t : <<"cast", t>>)
    [] tokens # <<>> /\ tokens[1] = "f(" -> ReadTwo(Tail(tokens), LAMBDA t, u : <<"call", t, u>>)
    [] tokens # <<>> /\ tokens[1] \in {"!", "~", "&", "*", "-", "+", "--", "++", "&&"} ->
         LET r == ReadPrefix(Tail(tokens)) IN Got(<<tokens[1], r.tree>>, r.rest)
    [] OTHER -> ReadPostfix(Got(<<tokens[1]>>, Tail(tokens)))
ReadPostfix(l) ==
  IF l.rest = <<>> THEN l
  ELSE LET token == l.rest[1]
       IN CASE token = ".field" -> ReadPostfix(Got(<<"field", l.tree>>, Tail(l.rest)))
            [] token = "[" ->
                 (LET r == ReadFrom(Tail(l.rest), 1)
                  IN IF Next1(r, "]") THEN ReadPostfix(Got(<<"member", l.tree, r.tree>>, Tail(r.rest)))
                     ELSE Got(Garbage, <<>>))
            [] token = ".range(" -> ReadTwo(Tail(l.rest), LAMBDA t, u : <<"slice", l.tree, t, u>>)
            [] OTHER -> l

(* The tree in C++'s words: operators by their tokens, a When of several   *)
(* alternatives as conditionals one in the default of the other.           *)
RECURSIVE Meant(_)
Meant(t) ==
  CASE IsExpression(t) ->
         IF Binary(t) THEN <<Spelling[Kind(t)], Meant(t[2]), Meant(t[3])>>
         ELSE <<Spelling[Kind(t)], Meant(t[2])>>
    [] Kind(t) = "when" /\ Operands(t) = 3 -> <<"?", Meant(t[2]), Meant(t[3]), Meant(t[4])>>
    [] Kind(t) = "when" /\ Operands(t) > 3 ->
         <<"?", Meant(t[2]), Meant(t[3]), Meant(<<"when">> \o SubSeq(t, 4, Len(t)))>>
    [] Kind(t) \in {"assign"} -> <<"=", Meant(t[2]), Meant(t[3])>>
    [] ~IsExpression(t) /\ Kind(t) \notin {"when", "assign"} ->
         [i \in DOMAIN t |-> IF i = 1 THEN t[1] ELSE Meant(t[i])]

-----------------------------------------------------------------------------
Init == tree \in Trees /\ text = NotRead /\ seen = NotRead
PrintTree ==
  /\ text = NotRead
  /\ text' = Printed(tree, NotRead, 1)
  /\ UNCHANGED <<tree, seen>>
Compile ==
  /\ text # NotRead /\ seen = NotRead
  /\ LET r == ReadFrom(text, 1)
     IN seen' = IF r.rest = <<>> THEN r.tree ELSE Garbage
  /\ UNCHANGED <<tree, text>>
Next == PrintTree \/ Compile
Spec == Init /\ [][Next]_exprVars

(* Two things the table has wrong, anywhere in a tree: < and <= are not    *)
(* tighter than > and >= in C++, and a sign printed next to the same sign  *)
(* is one token with it.                                                   *)
RECURSIVE Misprinted(_)
Misprinted(t) ==
  \/ /\ Kind(t) \in {"op_gt", "op_ge"} /\ Binary(t)
     /\ Kind(t[3]) \in {"op_lt", "op_le"}
  \/ /\ Kind(t) \in {"op_plus", "op_minus", "op_ref"} /\ Operands(t) = 1
     /\ Kind(t[2]) = Kind(t) /\ Operands(t[2]) = 1
  \/ \E i \in 2 .. Len(t) : Misprinted(t[i])

(* C++ reads the tree that was printed, for every operator inside every    *)
(* other one and on either side of it, a conditional inside a conditional  *)
(* and a concatenation inside a call.                                      *)
SameTree == seen # NotRead /\ ~Misprinted(tree) => seen = Meant(tree)
===============================================================================
