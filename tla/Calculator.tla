------------------------------- MODULE Calculator -------------------------------
(***************************************************************************)
(* The module calc: !calc and its like evaluate an expression that someone *)
(* wrote on IRC.  The expression is split into symbols, which make a stack *)
(* with the first of them on top; parse_expsimple takes a value, an        *)
(* operator and a value from it and pushes the result, and calls itself    *)
(* for what is in braces and for an operator of higher priority that       *)
(* follows.  Variables and the last valid answer last until the bot ends.  *)
(*                                                                         *)
(* What the arithmetic yields is left out: a value is the tree of the      *)
(* operations that make it, so that two orders of evaluation never have    *)
(* the same value by chance.  A function has a value for every argument.   *)
(***************************************************************************)
EXTENDS Integers, Sequences, FiniteSets, FiniteSetsExt

CONSTANTS
  Numbers, Names, Consts, Funcs, \* what is written in expressions, and
  Operators,                     \* operators of them other than "="
  Priority,  \* Priority[o]: of the operators and "="
  Signs,     \* operators that may come first
  More(_, _), \* bound: whether e is continued, when k symbols were written in all
  Shown      \* integers that are written in Roman numerals

VARIABLES
  exp,   \* the expression that is being written
  vars,  \* vars[x]: the value of the variable x, or None
  ans,   \* the last valid answer
  typed, \* how many symbols were written
  roman  \* an integer and its numeral, of !calcr

calcVars == <<exp, vars, ans, typed, roman>>

None == << >>
NoOp == ""
NoVar == ""
Zero == <<"num", "0">>
Symbols == Numbers \cup Names \cup Consts \cup Funcs \cup Operators \cup {"=", "ans", "(", ")"}

Init ==
  /\ exp = << >> /\ vars = [x \in Names |-> None] /\ ans = Zero
  /\ typed = 0 /\ roman = << >>

------------------------------------------------------------------------------
(* The evaluation of an expression: a record st of the stack, the braces that  *)
(* are open, whether there was an error and whether the end was reached.       *)

Type(t) ==
  CASE t \in Numbers -> "S_NUM"
    [] t \in Operators \cup {"="} -> "S_OP"
    [] t = "(" -> "S_BRACE_L"
    [] t = ")" -> "S_BRACE_R"
    [] OTHER -> "S_ID"

Symbol(t) == [type |-> Type(t), value |-> IF t \in Numbers THEN <<"num", t>> ELSE None, id |-> t]
Value(v) == [type |-> "S_NUM", value |-> v, id |-> ""]
S_EOF == [type |-> "S_EOF", value |-> None, id |-> ""]

scan_symbols(e) == [i \in 1..Len(e) |-> Symbol(e[i])] \o <<S_EOF>>

push_symbol(st, symbol) == [st EXCEPT !.stack = <<symbol>> \o @, !.end = FALSE]
pop_symbol(st) == [st EXCEPT !.stack = Tail(@)]
TopIs(st, type) == st.stack # << >> /\ Head(st.stack).type = type
Failed(st) == [st EXCEPT !.error = TRUE, !.end = FALSE]

RECURSIVE parse_expsimple(_), Pop(_, _), Inside(_, _)

\* What is in a pair of braces, whose left one was taken.
Inside(st, old_braces) ==
  LET n == parse_expsimple(st)
  IN  IF n.error \/ n.braces = old_braces THEN n ELSE Inside(n, old_braces)

\* The value of an identifier that is not assigned.
parse_exp_id(st, id) ==
  IF id \in Funcs
  THEN IF ~TopIs(st, "S_BRACE_L") THEN Failed(st)
       ELSE LET n == Inside([pop_symbol(st) EXCEPT !.braces = @ + 1], st.braces)
            IN  IF n.error \/ ~TopIs(n, "S_NUM") THEN Failed(n)
                ELSE push_symbol(pop_symbol(n), Value(<<"fn", id, Head(n.stack).value>>))
  ELSE CASE TopIs(st, "S_BRACE_L") -> Failed(st)
         [] id = "ans" -> push_symbol(st, Value(ans))
         [] id \in Consts -> push_symbol(st, Value(<<"const", id>>))
         [] OTHER -> IF st.vars[id] = None THEN Failed(st) ELSE push_symbol(st, Value(st.vars[id]))

Assigned(st, id) == id \in Names /\ TopIs(st, "S_OP") /\ Head(st.stack).id = "="

\* An identifier that is followed by "=" is kept as the variable to assign.
Identifier(st, f, id) ==
  IF Assigned(st, id)
  THEN IF f.lvalue \/ st.error THEN Failed(st) ELSE Pop(st, [f EXCEPT !.var = id])
  ELSE LET n == parse_exp_id(st, id) IN IF n.error THEN Failed(n) ELSE Pop(n, f)

Operator(st, f, o) ==
  IF o = "="
  THEN IF f.var = NoVar THEN Failed(st) ELSE Pop(st, [f EXCEPT !.op = o])
  ELSE IF f.op # NoOp \/ (~f.lvalue /\ o \notin Signs) THEN Failed(st)
  ELSE Pop(st, [f EXCEPT !.op = o, !.lvalue = TRUE, !.d = IF f.lvalue THEN @ ELSE Zero])

Tighter_Wrong(st, o) == TopIs(st, "S_OP") /\ Priority[Head(st.stack).id] >= Priority[o]

\* Whether an operator that binds its left value before o does comes next.
Tighter(st, o) == TopIs(st, "S_OP") /\ Priority[Head(st.stack).id] > Priority[o]

\* The variable is looked for in a list.  When there are VARS_MAX the one set
\* first is to be deleted, but none is older than "-1".
Assign(st, var, d) == [st EXCEPT !.vars[var] = d]

Number(st, f, v) ==
  IF f.op = NoOp
  THEN IF f.lvalue THEN Failed(st) ELSE Pop(st, [f EXCEPT !.d = v, !.lvalue = TRUE])
  ELSE IF Tighter(st, f.op)
  THEN LET n == parse_expsimple(push_symbol(st, Value(v))) IN IF n.error THEN Failed(n) ELSE Pop(n, f)
  ELSE IF f.op = "=" THEN push_symbol(Assign(st, f.var, v), Value(v))
  ELSE push_symbol(st, Value(<<f.op, f.d, v>>))

\* An error in the braces is seen only after what follows them was taken.
BraceL(st, f) == Pop(Inside([st EXCEPT !.braces = @ + 1], st.braces), f)

BraceR(st, f) ==
  IF ~f.lvalue \/ f.op # NoOp \/ st.braces = 0 THEN Failed(st)
  ELSE push_symbol([st EXCEPT !.braces = @ - 1], Value(f.d))

End(st, f) ==
  IF ~f.lvalue \/ f.op # NoOp \/ st.braces # 0 THEN Failed(st)
  ELSE [push_symbol(st, Value(f.d)) EXCEPT !.end = TRUE]

Pop(before, f) ==
  IF before.stack = << >> THEN Failed(before)
  ELSE LET symbol == Head(before.stack)
           st == pop_symbol(before)
       IN  CASE symbol.type = "S_EOF" -> End(st, f)
             [] symbol.type = "S_OP" -> Operator(st, f, symbol.id)
             [] symbol.type = "S_NUM" -> Number(st, f, symbol.value)
             [] symbol.type = "S_BRACE_L" -> BraceL(st, f)
             [] symbol.type = "S_BRACE_R" -> BraceR(st, f)
             [] symbol.type = "S_ID" -> Identifier(st, f, symbol.id)

parse_expsimple(st) == Pop(st, [d |-> Zero, lvalue |-> FALSE, op |-> NoOp, var |-> NoVar])

RECURSIVE parse_explist(_)
parse_explist(st) ==
  IF st.error THEN st
  ELSE LET n == parse_expsimple(st)
       IN  IF ~n.end THEN parse_explist(n)
           ELSE IF TopIs(n, "S_NUM") THEN [n EXCEPT !.value = Head(n.stack).value]
           ELSE Failed(n)

calc(e) ==
  LET st == [stack |-> scan_symbols(e), braces |-> 0, error |-> FALSE, end |-> FALSE,
             value |-> Zero, vars |-> vars]
  IN  IF \E i \in DOMAIN e : e[i] \notin Symbols THEN Failed(st) ELSE parse_explist(st)

------------------------------------------------------------------------------
(* Roman numerals: each digit has its letters, and there are as many M's as    *)
(* there are thousands.                                                        *)

Letters == << <<"I", "V", "X">>, <<"X", "L", "C">>, <<"C", "D", "M">> >>

Shape_Wrong ==
  << <<1>>, <<1, 1>>, <<1, 1, 1>>, <<1, 2>>, <<2>>, <<2, 1>>, <<2, 1, 1>>, <<1, 1, 3>>, <<1, 3>> >>

Shape == << <<1>>, <<1, 1>>, <<1, 1, 1>>, <<1, 2>>, <<2>>, <<2, 1>>, <<2, 1, 1>>,
            <<2, 1, 1, 1>>, <<1, 3>> >>

Digit(d, pos) ==
  IF d = 0 THEN << >>
  ELSE IF pos = 4 THEN [i \in 1..d |-> "M"]
  ELSE [i \in DOMAIN Shape[d] |-> Letters[pos][Shape[d][i]]]

Roman(n) ==
  IF n >= 10000 THEN <<"Result too large.">>
  ELSE IF n = 0 THEN <<"(zero)">>
  ELSE Digit(n \div 1000, 4) \o Digit((n \div 100) % 10, 3) \o Digit((n \div 10) % 10, 2)
         \o Digit(n % 10, 1)

------------------------------------------------------------------------------
Write(t) ==
  /\ More(exp, typed)
  /\ exp' = Append(exp, t) /\ typed' = typed + 1 /\ roman' = << >>
  /\ UNCHANGED <<vars, ans>>

calc_cmd_calc ==
  LET result == calc(exp)
  IN  /\ exp # << >>
      /\ vars' = result.vars
      /\ ans' = IF result.error THEN ans ELSE result.value
      /\ exp' = << >> /\ roman' = << >> /\ UNCHANGED typed

calc_cmd_calcr ==
  /\ exp = << >> /\ roman = << >>
  /\ \E n \in Shown :
       roman' = <<n, IF n < 0 THEN <<"-">> \o Roman(-n) ELSE Roman(n)>>
  /\ UNCHANGED <<exp, vars, ans, typed>>

Next == (\E t \in Symbols \cup {"?"} : Write(t)) \/ calc_cmd_calc \/ calc_cmd_calcr

Spec == Init /\ [][Next]_calcVars

------------------------------------------------------------------------------
(* The expressions and their values, as one reads them: an expression is split *)
(* at the last of its operators of the lowest priority, outside of braces.     *)

Bad == [ok |-> FALSE, value |-> Zero, vars |-> vars]
Ok(v, env) == [ok |-> TRUE, value |-> v, vars |-> env]

Count(e, t, i) == Cardinality({k \in 1..i : e[k] = t})
Outside(e) == {i \in DOMAIN e : e[i] \in Operators /\ Count(e, "(", i) = Count(e, ")", i)}
Lowest(e) == {i \in Outside(e) : \A j \in Outside(e) : Priority[e[i]] <= Priority[e[j]]}
LastIn(I) == CHOOSE i \in I : \A j \in I : j <= i

\* e begins with a variable and "=".
Assigns(e) == Len(e) >= 2 /\ e[1] \in Names /\ e[2] = "="
Braced(e, k) == Len(e) > k + 1 /\ e[k] = "(" /\ e[Len(e)] = ")"

\* What is assigned in e begins with a value: not with "=", a sign, or another
\* name and "=".
Plain(e) ==
  \A k \in 1..(Len(e) - 1) :
    e[k] = "=" => e[k + 1] \notin {"="} \cup Signs /\ ~Assigns(SubSeq(e, k + 1, Len(e)))

RECURSIVE Meaning(_, _), Chain(_, _)

Single(e, env) ==
  IF Len(e) = 1
  THEN CASE e[1] \in Numbers \cup {"0"} -> Ok(<<"num", e[1]>>, env)
         [] e[1] \in Consts -> Ok(<<"const", e[1]>>, env)
         [] e[1] = "ans" -> Ok(ans, env)
         [] e[1] \in Names /\ env[e[1]] # None -> Ok(env[e[1]], env)
         [] OTHER -> Bad
  ELSE IF Braced(e, 1) THEN Meaning(SubSeq(e, 2, Len(e) - 1), env)
  ELSE IF Braced(e, 2) /\ e[1] \in Funcs
  THEN LET m == Meaning(SubSeq(e, 3, Len(e) - 1), env)
       IN  [m EXCEPT !.value = <<"fn", e[1], @>>]
  ELSE Bad

Chain(e, env) ==
  IF Outside(e) = {} THEN Single(e, env)
  ELSE LET i == LastIn(Lowest(e))
           left == Chain(SubSeq(e, 1, i - 1), env)
           right == Chain(SubSeq(e, i + 1, Len(e)), left.vars)
       IN  IF left.ok /\ right.ok THEN Ok(<<e[i], left.value, right.value>>, right.vars) ELSE Bad

\* README:453-454: a name, "=" and the expression that it stands for.
Meaning(e, env) ==
  IF Assigns(e)
  THEN LET right == Meaning(SubSeq(e, 3, Len(e)), env)
       IN  IF right.ok THEN Ok(right.value, [right.vars EXCEPT ![e[1]] = right.value]) ELSE Bad
  ELSE Chain(IF e # << >> /\ e[1] \in Signs THEN <<"0">> \o e ELSE e, env)

Worth == [I |-> 1, V |-> 5, X |-> 10, L |-> 50, C |-> 100, D |-> 500, M |-> 1000]

\* A letter before one that is worth more is subtracted.
RomanValue(s) ==
  MapThenSumSet(LAMBDA k : IF k < Len(s) /\ Worth[s[k]] < Worth[s[k + 1]]
                           THEN -Worth[s[k]] ELSE Worth[s[k]], DOMAIN s)

------------------------------------------------------------------------------
(* The calculator accepts the expression and evaluates it as it reads, or      *)
(* refuses it when it is none.                                                 *)
Agrees ==
  LET result == calc(exp)
      m == Meaning(exp, vars)
  IN  /\ result.error <=> ~m.ok
      /\ m.ok => result.value = m.value /\ result.vars = m.vars

(* Whatever variables earlier expressions have set, operators of a higher      *)
(* priority come first, equal ones from the left, braces before both, and an   *)
(* assignment when it is met, if what it assigns begins with a value (calc.cpp *)
(* parse_expsimple).                                                           *)
CalcIsRight == exp # << >> /\ Plain(exp) => Agrees

(* README:453-454: "variables: use <name>=<expression> to define them".  A     *)
(* name, "=" and an expression define the name, whatever the expression is.    *)
\* The code does not keep this promise (README, section 7).
NamesAreDefined == exp # << >> /\ Meaning(exp, vars).ok => Agrees

(* The numeral that !calcr shows is worth the integer, and has no letter but M *)
(* four times in a row.                                                        *)
RomanIsRight ==
  roman # << >> =>
    LET n == IF roman[1] < 0 THEN -roman[1] ELSE roman[1]
        s == IF roman[1] < 0 THEN Tail(roman[2]) ELSE roman[2]
    IN  n \in 1..9999 =>
          /\ RomanValue(s) = n
          /\ \A i \in 1..(Len(s) - 3) : s[i] = "M" \/ \E j \in (i + 1)..(i + 3) : s[j] # s[i]

================================================================================
