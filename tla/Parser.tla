------------------------------- MODULE Parser -------------------------------
(***************************************************************************)
(* The parser of the language (lang/src/parser/mod.rs, ast.rs) over the    *)
(* kinds of the tokens (lang/src/lexer.rs).  A token is known by its place *)
(* in toks, the current token is the one at a place i, and a parsing       *)
(* function takes that place and returns its result with the new place.    *)
(* The lexer is generated by the crate logos and external.                 *)
(***************************************************************************)
EXTENDS Integers, Sequences, SequencesExt, FiniteSetsExt

CONSTANT Sources   \* the texts, as sequences of token kinds

VARIABLES toks,        \* one of Sources
          cur,         \* the place of the current token
          functions, classes, errors,
          result       \* "none", "ok", "err" or "panic"

vars == <<toks, cur, functions, classes, errors, result>>

Operators == {"Equal", "Or", "And", "BangEqual", "EqualEqual", "Less", "LessEqual", "Greater",
              "GreaterEqual", "Plus", "Minus", "Star", "Slash", "Is"}

Literals == {"False", "True", "String", "Int", "BigInt", "Float"}   \* BigInt: an Int beyond i64

TKind == Operators \cup Literals
  \cup {"Bang", "LeftParen", "RightParen", "LeftBrace", "RightBrace", "Comma", "Colon", "Arrow",
        "Identifier", "If", "Else", "While", "Val", "Var", "Fun", "Class", "Static", "Extern", "Error"}

(* Mutant: a comparison binds like a sum and to the left. *)
infix_binding_power_left(op) == IF op \in {"Plus", "Minus"} THEN <<15, 16>> ELSE <<16, 15>>

infix_binding_power(op) ==
  CASE op = "Equal" -> <<6, 5>> [] op = "Or" -> <<10, 9>> [] op = "And" -> <<12, 11>>
    [] op \in {"BangEqual", "EqualEqual"} -> <<14, 13>>
    [] op \in {"Less", "LessEqual", "Greater", "GreaterEqual", "Plus", "Minus"} -> <<16, 15>>
    [] op \in {"Star", "Slash"} -> <<18, 17>> [] op = "Is" -> <<20, 19>>

Prefix == {"Minus", "Bang"}
prefix_binding_power == 30

-----------------------------------------------------------------------------
(* The helpers at the end of parser/mod.rs. *)

(* advance() makes up an Error token when the lexer has no more. *)
Kind(i) == IF i <= Len(toks) THEN toks[i] ELSE "Error"

is_at_end(i) == Kind(i) = "Error"

Ok(i, x) == [st |-> "ok", at |-> i, x |-> x]
Err(i) == [st |-> "err", at |-> i]
Panic(i) == [st |-> "panic", at |-> i]

(* The operator '?'. *)
Bind(r, F(_)) == IF r.st = "ok" THEN F(r) ELSE r

consume(i, kind) == IF Kind(i) = kind THEN Ok(i + 1, i) ELSE Err(i)

typ(i) == consume(i, "Identifier")

(* Mutant: back to before the name. *)
synchronize_rewinds(i) == IF Kind(i) = "Error" THEN i ELSE i - 1

(* To the token after the next Fun, or to the end. *)
synchronize(i) ==
  LET stop == Min({j \in i..Len(toks) + 2 : Kind(j) \in {"Fun", "Error"}})
  IN  IF Kind(stop) = "Fun" THEN stop + 1 ELSE stop

-----------------------------------------------------------------------------
(* Expressions. *)

RECURSIVE expression(_), binary(_, _), infix(_, _), call(_), args(_, _), exprs(_, _)

Leaf(i) == [k |-> "leaf", at |-> i]

primary(i) ==
  CASE Kind(i) = "BigInt" -> Panic(i)
    [] Kind(i) \in Literals \cup {"Identifier"} -> Ok(i + 1, Leaf(i))
    [] Kind(i) = "LeftParen" ->
         Bind(expression(i + 1), LAMBDA e : Bind(consume(e.at, "RightParen"), LAMBDA p : Ok(p.at, e.x)))
    [] OTHER -> Err(i)

(* A list from the place i on, at least one expression, with commas between. *)
args(i, done) ==
  Bind(expression(i), LAMBDA e : IF Kind(e.at) = "Comma" THEN args(e.at + 1, Append(done, e.x))
                                 ELSE Ok(e.at, Append(done, e.x)))

call(callee) ==
  IF Kind(callee.at) # "LeftParen" THEN callee
  ELSE Bind(IF Kind(callee.at + 1) = "RightParen" THEN Ok(callee.at + 1, <<>>) ELSE args(callee.at + 1, <<>>),
            LAMBDA a : Bind(consume(a.at, "RightParen"), LAMBDA p :
                            call(Ok(p.at, [k |-> "call", callee |-> callee.x, args |-> a.x]))))

unary(i) ==
  IF Kind(i) \in Prefix
  THEN Bind(binary(i + 1, prefix_binding_power), LAMBDA r : Ok(r.at, [k |-> "unary", op |-> i, right |-> r.x]))
  ELSE Bind(primary(i), call)

(* The loop of binary, with the expression so far. *)
infix(left, min) ==
  LET op == Kind(left.at)
  IN  IF op \notin Operators THEN left
      ELSE IF infix_binding_power(op)[1] < min THEN left
      ELSE Bind(binary(left.at + 1, infix_binding_power(op)[2]),
                LAMBDA r : infix(Ok(r.at, [k |-> "binary", left |-> left.x, op |-> left.at, right |-> r.x]), min))

binary(i, min) == Bind(unary(i), LAMBDA e : infix(e, min))

var_decl(i) ==
  Bind(consume(i + 1, "Identifier"), LAMBDA n : Bind(consume(n.at, "Equal"), LAMBDA e : Bind(expression(e.at),
    LAMBDA v : Ok(v.at, [k |-> "var", final_ |-> Kind(i) = "Val", name |-> n.x, value |-> v.x]))))

higher_expr(i) == IF Kind(i) \in {"Var", "Val"} THEN var_decl(i) ELSE expression(i)

(* The loop of block. *)
exprs(i, done) == IF is_at_end(i) \/ Kind(i) = "RightBrace" THEN Ok(i, done)
                  ELSE Bind(higher_expr(i), LAMBDA e : exprs(e.at, Append(done, e.x)))

block(i) == Bind(exprs(i + 1, <<>>), LAMBDA es : Bind(consume(es.at, "RightBrace"),
              LAMBDA p : Ok(p.at, [k |-> "block", exprs |-> es.x])))

(* The condition in parentheses after If and While. *)
condition(i) == Bind(consume(i + 1, "LeftParen"), LAMBDA p : Bind(expression(p.at),
                  LAMBDA c : Bind(consume(c.at, "RightParen"), LAMBDA q : Ok(q.at, c.x))))

if_expr(i) ==
  Bind(condition(i), LAMBDA c : Bind(expression(c.at), LAMBDA t :
    IF Kind(t.at) = "Else"
    THEN Bind(expression(t.at + 1),
              LAMBDA e : Ok(e.at, [k |-> "if", cond |-> c.x, then |-> t.x, els |-> <<e.x>>]))
    ELSE Ok(t.at, [k |-> "if", cond |-> c.x, then |-> t.x, els |-> <<>>])))

while_stmt(i) == Bind(condition(i), LAMBDA c : Bind(expression(c.at),
                   LAMBDA b : Ok(b.at, [k |-> "while", cond |-> c.x, body |-> b.x])))

expression(i) == CASE Kind(i) = "LeftBrace" -> block(i) [] Kind(i) = "If" -> if_expr(i)
                   [] Kind(i) = "While" -> while_stmt(i) [] OTHER -> binary(i, 0)

-----------------------------------------------------------------------------
(* Declarations. *)

RECURSIVE params(_, _), items(_, _)

(* A name, a colon and a type: a parameter or a member. *)
typed(i) == Bind(consume(i, "Identifier"), LAMBDA n : Bind(consume(n.at, "Colon"),
              LAMBDA c : Bind(typ(c.at), LAMBDA t : Ok(t.at, n.x))))

params(i, done) ==
  Bind(typed(i), LAMBDA p : IF Kind(p.at) = "Comma" THEN params(p.at + 1, Append(done, p.x))
                            ELSE Ok(p.at, Append(done, p.x)))

signature(i) ==
  Bind(consume(i, "Identifier"), LAMBDA n : Bind(consume(n.at, "LeftParen"), LAMBDA l :
    Bind(IF Kind(l.at) = "RightParen" THEN Ok(l.at, <<>>) ELSE params(l.at, <<>>), LAMBDA ps :
      Bind(consume(ps.at, "RightParen"), LAMBDA r :
        IF Kind(r.at) = "Arrow"
        THEN Bind(typ(r.at + 1), LAMBDA t : Ok(t.at, [k |-> "fun", name |-> n.x, params |-> ps.x, ret |-> TRUE]))
        ELSE Ok(r.at, [k |-> "fun", name |-> n.x, params |-> ps.x, ret |-> FALSE])))))

function(i, is_ext) ==
  Bind(signature(i), LAMBDA s : IF is_ext THEN Ok(s.at, s.x @@ [body |-> <<>>])
                                ELSE Bind(expression(s.at), LAMBDA e : Ok(e.at, s.x @@ [body |-> <<e.x>>])))

(* The loop of class; [in] says which of its three lists an item goes to. *)
items(i, done) ==
  LET add(r, in) == Bind(r, LAMBDA x : items(x.at, Append(done, [in |-> in, x |-> x.x])))
  IN  CASE Kind(i) = "RightBrace" -> Ok(i, done)
        [] Kind(i) \in {"Val", "Var"} -> add(typed(i + 1), Kind(i))
        [] Kind(i) = "Fun" -> add(function(i + 1, FALSE), "Fun")
        [] Kind(i) = "Static" /\ Kind(i + 1) = "Fun" -> add(function(i + 2, FALSE), "Static")
        [] OTHER -> Err(i + 1)

class(i) == Bind(consume(i, "Identifier"), LAMBDA n : Bind(consume(n.at, "LeftBrace"), LAMBDA l :
              Bind(items(l.at, <<>>), LAMBDA it : Bind(consume(it.at, "RightBrace"), LAMBDA r :
                Ok(r.at, [k |-> "class", name |-> n.x, items |-> it.x])))))

-----------------------------------------------------------------------------
(* Parser::new and parse: one action per turn of its loop. *)

Init == /\ toks \in Sources /\ cur = 1 /\ functions = <<>> /\ classes = <<>> /\ errors = <<>>
        /\ result = IF toks = <<>> THEN "panic" ELSE "none"

Turn == result = "none" /\ ~is_at_end(cur) /\ UNCHANGED toks

(* Mutant: the error is dropped. *)
FailedQuietly(r) == cur' = synchronize(r.at) /\ UNCHANGED <<functions, classes, errors, result>>

Failed(r) == IF r.st = "panic" THEN result' = "panic" /\ UNCHANGED <<cur, functions, classes, errors>>
             ELSE /\ errors' = Append(errors, r.at) /\ cur' = synchronize(r.at)
                  /\ UNCHANGED <<functions, classes, result>>

make_cls == /\ Turn /\ Kind(cur) = "Class"
            /\ LET r == class(cur + 1)
               IN  IF r.st # "ok" THEN Failed(r)
                   ELSE classes' = Append(classes, r.x) /\ cur' = r.at /\ UNCHANGED <<functions, errors, result>>

IsExtern == Kind(cur) = "Extern" /\ Kind(cur + 1) = "Fun"

make_fn(is_ext) ==
  /\ Turn /\ IF is_ext THEN IsExtern ELSE Kind(cur) = "Fun"
  /\ LET r == function(IF is_ext THEN cur + 2 ELSE cur + 1, is_ext)
     IN  IF r.st # "ok" THEN Failed(r)
         ELSE functions' = Append(functions, r.x) /\ cur' = r.at /\ UNCHANGED <<classes, errors, result>>

NoDeclaration == Turn /\ Kind(cur) \notin {"Class", "Fun"} /\ ~IsExtern /\ Failed(Err(cur + 1))

Return == /\ result = "none" /\ is_at_end(cur)
          /\ result' = IF errors = <<>> THEN "ok" ELSE "err"
          /\ UNCHANGED <<toks, cur, functions, classes, errors>>

Returned == result # "none" /\ UNCHANGED vars

Next == make_cls \/ make_fn(FALSE) \/ make_fn(TRUE) \/ NoDeclaration \/ Return \/ Returned

Spec == Init /\ [][Next]_vars

-----------------------------------------------------------------------------
(* Properties. *)

Join(lists, sep) == IF lists = <<>> THEN <<>>
                    ELSE FoldLeft(LAMBDA a, b : a \o sep \o b, Head(lists), Tail(lists))

(* What a tree says, as tokens, without parentheses. *)
RECURSIVE Says(_)
Says(t) ==
  LET all(ts) == [i \in DOMAIN ts |-> Says(ts[i])]
  IN  CASE t.k = "leaf" -> <<toks[t.at]>>
        [] t.k = "unary" -> <<toks[t.op]>> \o Says(t.right)
        [] t.k = "binary" -> Says(t.left) \o <<toks[t.op]>> \o Says(t.right)
        [] t.k = "call" -> Says(t.callee) \o Join(all(t.args), <<"Comma">>)
        [] t.k = "block" -> <<"LeftBrace">> \o Join(all(t.exprs), <<>>) \o <<"RightBrace">>
        [] t.k = "var" -> <<IF t.final_ THEN "Val" ELSE "Var", toks[t.name], "Equal">> \o Says(t.value)
        [] t.k = "if" -> <<"If">> \o Says(t.cond) \o Says(t.then)
                           \o (IF t.els = <<>> THEN <<>> ELSE <<"Else">> \o Says(t.els[1]))
        [] t.k = "while" -> <<"While">> \o Says(t.cond) \o Says(t.body)
        [] t.k = "fun" -> <<"Identifier">>
                            \o Join([i \in DOMAIN t.params |-> <<"Identifier", "Colon", "Identifier">>], <<"Comma">>)
                            \o (IF t.ret THEN <<"Arrow", "Identifier">> ELSE <<>>)
                            \o (IF t.body = <<>> THEN <<>> ELSE Says(t.body[1]))

SaysItem(m) == CASE m.in \in {"Val", "Var"} -> <<m.in, "Identifier", "Colon", "Identifier">>
                 [] m.in = "Fun" -> <<"Fun">> \o Says(m.x)
                 [] m.in = "Static" -> <<"Static", "Fun">> \o Says(m.x)

SaysDeclaration(d) ==
  IF d.k = "class"
  THEN <<"Class", "Identifier", "LeftBrace">>
         \o Join([i \in DOMAIN d.items |-> SaysItem(d.items[i])], <<>>) \o <<"RightBrace">>
  ELSE (IF d.body = <<>> THEN <<"Extern", "Fun">> ELSE <<"Fun">>) \o Says(d)

(* The text the parser went through, up to the end or an Error token. *)
Read == SelectSeq(SubSeq(toks, 1, cur - 1), LAMBDA k : k \notin {"LeftParen", "RightParen"})

(* A module that parses says all that was read, in order, but for parentheses: recovery
   after an error never drops a piece of the text without an error, and no list or
   loop loses or repeats a token. *)
SaysWhatWasRead ==
  result = "ok" =>
    LET byName == SetToSortSeq(ToSet(functions) \cup ToSet(classes), LAMBDA a, b : a.name < b.name)
    IN  Join([i \in DOMAIN byName |-> SaysDeclaration(byName[i])], <<>>) = Read

(* An operator expression between the places lo and hi. *)
Flat(lo, hi) == \A i \in lo..hi : toks[i] \in Operators \cup {"Bang", "Identifier", "Int"}

Binds(i) == infix_binding_power(toks[i])[1]

IsInfix(lo, i) == toks[i] \in Operators /\ i > lo /\ toks[i - 1] \in {"Identifier", "Int"}

(* Reference: an operator expression is split at the first of its weakest operators. *)
RECURSIVE Split(_, _)
Split(lo, hi) ==
  LET ops == {i \in lo..hi : IsInfix(lo, i)}
      root == Min({i \in ops : \A j \in ops : Binds(i) <= Binds(j)})
  IN  CASE ops # {} -> [k |-> "binary", left |-> Split(lo, root - 1), op |-> root, right |-> Split(root + 1, hi)]
        [] lo < hi -> [k |-> "unary", op |-> lo, right |-> Split(lo + 1, hi)]
        [] OTHER -> Leaf(lo)

(* The trees of operator expressions are the ones the binding powers ask for: all
   operators group to the right, a prefix operator holds only its operand. *)
GroupsByPower ==
  result = "ok" /\ Len(functions) = 1 /\ functions[1].body # <<>> =>
    LET lo == functions[1].name + 3
    IN  Flat(lo, Len(toks)) => functions[1].body = <<Split(lo, Len(toks))>>

(* Every turn of the loop consumes a token of the text, recovery included, so parsing
   ends after at most as many turns as there are tokens. *)
EveryTurnAdvances == [][result' = "none" => cur' > cur /\ cur <= Len(toks)]_vars

(* lexer.rs:39 calls Error "a special token signifying a syntax error": a text that
   parses has none. *)
ErrorTokensAreErrors == result = "ok" => "Error" \notin ToSet(toks)
=============================================================================
