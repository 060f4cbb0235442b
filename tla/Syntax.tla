------------------------------- MODULE Syntax --------------------------------
(* The MDX subset: tokens, the syntax tree and the recursive descent           *)
(* (mdx/lexer.rs, mdx/ast.rs, mdx/frontend.rs). A token is a pair of its kind  *)
(* and its text, words in capitals and numbers as numbers; a node of the tree  *)
(* has a kind, a name, the parts and the key of a member, and its children.   *)
EXTENDS Integers, Sequences, TLC, Once

Token(kind, text) == <<kind, text>>
Word(w) == Token("word", w)
Mark(c) == Token(c, "")

Node(k, name, kids) == [k |-> k, name |-> name, parts |-> <<>>, key |-> <<>>, kids |-> kids]
Reference(parts, key) ==
    [k |-> "member", name |-> "", parts |-> parts, key |-> key, kids |-> <<>>]
MeasureRef(m) == Node("measure", m, <<>>)
Text(s) == Node("text", s, <<>>)
Number(n) == Node("number", n, <<>>)
SetOf(items) == Node("set", "", items)
ParenOf(items) == Node("tuple", "", items)
Call(f, args) == Node("call", f, args)
RangeOf(a, b) == Node("range", "", <<a, b>>)
Compare(op, a, b) == Node("binary", op, <<a, b>>)
Members(e) == Node("members", "", <<e>>)
Children(e) == Node("children", "", <<e>>)
Exclude(e) == Node("exclude", "", <<e>>)

Comparison == {">", ">=", "<", "<=", "=", "<>"}
MemberWords == {"MEMBERS", "ALLMEMBERS", "ALL"}
PostfixWords == MemberWords \union {"CHILDREN"}

------------------------------------------------------------------------------
(* Expressions. A parse is the thing read and the position after it.          *)

Malformed == [ok |-> FALSE, it |-> <<>>, at |-> 0]
Read(it, i) == [ok |-> TRUE, it |-> it, at |-> i]
At(toks, i) == IF i \in DOMAIN toks THEN toks[i] ELSE Mark("end")
Is(toks, i, kind) == At(toks, i)[1] = kind
Says(toks, i, w) == At(toks, i) = Word(w)

RECURSIVE Keys(_, _, _), MemberRef(_, _, _, _), Postfix(_, _, _), Parse(_, _, _, _)

Keys(toks, i, key) == IF Is(toks, i, "key") THEN Keys(toks, i + 1, Append(key, toks[i][2])) ELSE Read(key, i)
\* From the mark after a part: names and words are parts, a postfix stays for the caller.
MemberRef(toks, i, parts, key) ==
    LET next == At(toks, i + 1)
        postfix == next[1] = "word" /\ next[2] \in PostfixWords
        keyed == Keys(toks, i + 1, key)
    IN CASE ~Is(toks, i, ".") \/ postfix ->
                Read(IF parts[1] = "Measures" /\ Len(parts) > 1 THEN MeasureRef(parts[2])
                     ELSE Reference(parts, key), i)
         [] Is(toks, i, ".") /\ next[1] = "key" -> MemberRef(toks, keyed.at, parts, keyed.it)
         [] Is(toks, i, ".") /\ next[1] \in {"name", "word"} /\ ~postfix ->
                MemberRef(toks, i + 2, Append(parts, next[2]), key)
         [] OTHER -> Malformed

Postfix(toks, i, e) ==
    CASE ~Is(toks, i, ".") -> Read(e, i)
      [] Is(toks, i, ".") /\ Is(toks, i + 1, "word") /\ toks[i + 1][2] \in MemberWords ->
            Postfix(toks, i + 2, Members(e))
      [] Is(toks, i, ".") /\ Says(toks, i + 1, "CHILDREN") -> Postfix(toks, i + 2, Children(e))
      [] OTHER -> Malformed

\* Of VBA only the date is known.
IsVba(toks, i) == Says(toks, i, "VBA") /\ Is(toks, i + 1, "!")
VbaDate(toks, i) ==
    /\ At(toks, i + 2) = Token("name", "Date") /\ Is(toks, i + 3, "(") /\ Is(toks, i + 4, ")")

\* What stands at a position, from what is read there and after it: expressions with commas
\* between them; the arguments of a call, whose commas may be missing, doubled or trailing;
\* a primary, where a word with arguments is a call and alone a text; an expression.
Parse(rule, toks, i, items) ==
    LET first == Parse("expression", toks, i, <<>>)
        more == Append(items, first.it)
        list ==
            CASE ~first.ok -> Malformed
              [] first.ok /\ Is(toks, first.at, ",") -> Parse("list", toks, first.at + 1, more)
              [] OTHER -> Read(more, first.at)
        arguments ==
            CASE Is(toks, i, ")") -> Read(items, i + 1)
              [] Is(toks, i, ",") -> Parse("arguments", toks, i + 1, items)
              [] OTHER -> IF first.ok THEN Parse("arguments", toks, first.at, more) ELSE Malformed
        inside == Parse("list", toks, i + 1, <<>>)
        kind == IF Is(toks, i, "{") THEN "set" ELSE "tuple"
        close == IF Is(toks, i, "{") THEN "}" ELSE ")"
        bracketed ==
            CASE Is(toks, i + 1, close) -> Read(Node(kind, "", <<>>), i + 2)
              [] ~Is(toks, i + 1, close) /\ inside.ok /\ Is(toks, inside.at, close) ->
                    Read(Node(kind, "", inside.it), inside.at + 1)
              [] OTHER -> Malformed
        args == Parse("arguments", toks, i + 2, <<>>)
        word ==
            CASE ~Is(toks, i + 1, "(") -> Read(Text(toks[i][2]), i + 1)
              [] Is(toks, i + 1, "(") /\ args.ok -> Read(Call(toks[i][2], args.it), args.at)
              [] OTHER -> Malformed
        base ==
            CASE At(toks, i)[1] \in {"{", "("} -> bracketed
              [] Is(toks, i, "name") -> MemberRef(toks, i + 1, <<toks[i][2]>>, <<>>)
              [] Is(toks, i, "text") -> Read(Text(toks[i][2]), i + 1)
              [] Is(toks, i, "number") -> Read(Number(toks[i][2]), i + 1)
              [] Is(toks, i, "word") -> word
              [] OTHER -> Malformed
        next == Parse("primary", toks, i + 1, <<>>)
        primary ==
            CASE Is(toks, i, "-") -> IF next.ok THEN Read(Exclude(next.it), next.at) ELSE Malformed
              [] IsVba(toks, i) -> IF VbaDate(toks, i) THEN Read(Call("VBA_DATE", <<>>), i + 5) ELSE Malformed
              [] OTHER -> IF base.ok THEN Postfix(toks, base.at, base.it) ELSE Malformed
        a == Parse("primary", toks, i, <<>>)
        mark == At(toks, a.at)[1]
        b == Parse("primary", toks, a.at + 1, <<>>)
        expression ==
            CASE ~a.ok \/ (mark \in Comparison \union {":"} /\ ~b.ok) -> Malformed
              [] a.ok /\ mark = ":" /\ b.ok -> Read(RangeOf(a.it, b.it), b.at)
              [] a.ok /\ mark \in Comparison /\ b.ok -> Read(Compare(mark, a.it, b.it), b.at)
              [] OTHER -> a
    IN CASE rule = "list" -> list [] rule = "arguments" -> arguments
         [] rule = "primary" -> primary [] rule = "expression" -> expression
Expression(toks, i) == Parse("expression", toks, i, <<>>)
Separated(toks, i) == Parse("list", toks, i, <<>>)

------------------------------------------------------------------------------
(* Statements: the sets and members they define, the axes in written order,    *)
(* the cube, a subselect in place of the cube (none or one), the slicer (none  *)
(* or one). What follows the last clause is not looked at.                    *)

Statement(withs, axes, cube, sub, slicer) ==
    [withs |-> withs, axes |-> axes, cube |-> cube, sub |-> sub, slicer |-> slicer]
EmptyStatement == Statement(<<>>, <<>>, "", <<>>, <<>>)
Axis(ordinal, nonEmpty, exprs) == [ordinal |-> ordinal, nonEmpty |-> nonEmpty, exprs |-> exprs]
Ordinal == "COLUMNS" :> 0 @@ "ROWS" :> 1

RECURSIVE Properties(_, _), Clause(_, _, _, _)

\* A list of properties ends at a word of the next clause or at any other mark.
Properties(toks, i) ==
    IF \/ At(toks, i)[1] \in {"name", ".", ","}
       \/ Is(toks, i, "word") /\ toks[i][2] \notin {"ON", "FROM", "WHERE", "CELL"}
    THEN Properties(toks, i + 1) ELSE i

\* WITH SET name AS set, WITH MEMBER member AS expression.
Defined(toks, i) ==
    LET isSet == Says(toks, i, "SET")
        names == {"name"} \union (IF isSet THEN {"word"} ELSE {})
        named == IF isSet THEN Read(Reference(<<At(toks, i + 1)[2]>>, <<>>), i + 2)
                 ELSE MemberRef(toks, i + 2, <<At(toks, i + 1)[2]>>, <<>>)
        as(name, body) ==
            IF name.ok /\ Says(toks, name.at, "AS") /\ body.ok
            THEN Read([set |-> isSet, name |-> name.it, body |-> body.it], body.at) ELSE Malformed
    IN IF (isSet \/ Says(toks, i, "MEMBER")) /\ At(toks, i + 1)[1] \in names
       THEN Once(LAMBDA name : Once(LAMBDA body : as(name, body), Expression(toks, name.at + 1)), named)
       ELSE Malformed

\* The ordinal after the ON of an axis, -1 if it has none that is known.
OrdinalAt(place) ==
    CASE place[1] = "number" -> IF place[2] \in 0..2 THEN place[2] ELSE -1
      [] place[1] = "word" -> IF place[2] \in DOMAIN Ordinal THEN Ordinal[place[2]] ELSE -1
      [] OTHER -> -1

\* One axis: its expressions, its properties and its ordinal, which only a sole axis may
\* leave out.
AxisAt(toks, i, sole) ==
    LET nonEmpty == Says(toks, i, "NON")
        after(exprs) == IF Says(toks, exprs.at, "DIMENSION") /\ Says(toks, exprs.at + 1, "PROPERTIES")
                        THEN Properties(toks, exprs.at + 2) ELSE exprs.at
        placed(exprs, on) ==
            LET ordinal == OrdinalAt(At(toks, on + 1))
            IN CASE Says(toks, on, "ON") /\ ordinal >= 0 -> Read(Axis(ordinal, nonEmpty, exprs.it), on + 2)
                 [] ~Says(toks, on, "ON") /\ sole /\ Len(exprs.it) = 1 -> Read(Axis(0, nonEmpty, exprs.it), on)
                 [] OTHER -> Malformed
        from(exprs) ==
            IF exprs.ok /\ (nonEmpty => Says(toks, i + 1, "EMPTY"))
            THEN Once(LAMBDA on : placed(exprs, on), after(exprs)) ELSE Malformed
    IN Once(from, Separated(toks, IF nonEmpty THEN i + 2 ELSE i))

\* The clauses from a position on, and the statement they complete: definitions in any
\* number and order; axes; the cube or a subselect; the slicer; properties of the cells.
Clause(clause, toks, i, s) ==
    LET with == IF Says(toks, i, "WITH") THEN Clause("definitions", toks, i + 1, s)
                ELSE IF Says(toks, i, "SELECT") THEN Clause("axes", toks, i + 1, s) ELSE Malformed
        defined == Defined(toks, i)
        definitions ==
            CASE Says(toks, i, "SELECT") -> Clause("axes", toks, i + 1, s)
              [] ~Says(toks, i, "SELECT") /\ defined.ok ->
                    Clause("definitions", toks, defined.at, [s EXCEPT !.withs = Append(s.withs, defined.it)])
              [] OTHER -> Malformed
        axisRead(axis) ==
            CASE axis.ok /\ Is(toks, axis.at, ",") ->
                    Clause("axes", toks, axis.at + 1, [s EXCEPT !.axes = Append(s.axes, axis.it)])
              [] axis.ok /\ Says(toks, axis.at, "FROM") ->
                    Clause("from", toks, axis.at + 1, [s EXCEPT !.axes = Append(s.axes, axis.it)])
              [] OTHER -> Malformed
        axes == IF Says(toks, i, "FROM") THEN Clause("from", toks, i + 1, s)
                ELSE Once(axisRead, AxisAt(toks, i, s.axes = <<>>))
        inner == Clause("with", toks, i + 1, EmptyStatement)
        from ==
            CASE Is(toks, i, "name") -> Clause("where", toks, i + 1, [s EXCEPT !.cube = toks[i][2]])
              [] Is(toks, i, "(") ->
                    IF inner.ok /\ Is(toks, inner.at, ")")
                    THEN Clause("where", toks, inner.at + 1, [s EXCEPT !.sub = <<inner.it>>, !.cube = inner.it.cube])
                    ELSE Malformed
              [] OTHER -> Clause("where", toks, i, s)
        slicer == Expression(toks, i + 1)
        where ==
            CASE ~Says(toks, i, "WHERE") -> Clause("cells", toks, i, s)
              [] Says(toks, i, "WHERE") /\ slicer.ok ->
                    Clause("cells", toks, slicer.at, [s EXCEPT !.slicer = <<slicer.it>>])
              [] OTHER -> Malformed
        cells ==
            CASE ~Says(toks, i, "CELL") -> Read(s, i)
              [] Says(toks, i, "CELL") /\ Says(toks, i + 1, "PROPERTIES") -> Read(s, Properties(toks, i + 2))
              [] OTHER -> Malformed
    IN CASE clause = "with" -> with [] clause = "definitions" -> definitions [] clause = "axes" -> axes
         [] clause = "from" -> from [] clause = "where" -> where [] clause = "cells" -> cells
ParseSelect(toks) == Clause("with", toks, 1, EmptyStatement)
=============================================================================
