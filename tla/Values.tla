-------------------------------- MODULE Values --------------------------------
(* The values of the language as far as the compiler tells them apart.        *)
(* Plain types (tuples, records, pairs, exceptions) have fields in the order  *)
(* of their offsets (eth_field.offs); a symbol's number orders the fields of  *)
(* records that are built or updated.                                         *)
EXTENDS Integers, Sequences, SequencesExt

CONSTANTS
    SymbolId    \* the number of each name that is used as a field

Num(n) == [kind |-> "num", n |-> n]
Sym(s) == [kind |-> "sym", sym |-> s]
Nil == [kind |-> "nil"]
True == [kind |-> "true"]
False == [kind |-> "false"]
Boolean(p) == IF p THEN True ELSE False

Pair == [class |-> "tuple", fields |-> <<"car", "cdr">>]
Exception == [class |-> "exception", fields |-> <<"what">>]
RecordType(fields) == [class |-> "record", fields |-> fields]

Tup(type, vals) == [kind |-> "tup", type |-> type, vals |-> vals]
Exn(what) == Tup(Exception, <<what>>)
TypeError == Exn(Sym("type_error"))
AssertionFailed == Exn(Sym("assertion_failed"))
UpdateError == Exn(Sym("update_error"))
ExitType == [class |-> "exit", fields |-> <<>>]
ExitObject == Tup(ExitType, <<>>)

IsPlain(v) == v.kind = "tup"
IsRecord(v) == IsPlain(v) /\ v.type.class = "record"
HasField(v, f) == IsPlain(v) /\ f \in ToSet(v.type.fields)
FieldIdx(type, f) == SelectInSeq(type.fields, LAMBDA g : g = f)
FieldOf(v, f) == v.vals[FieldIdx(v.type, f)]

\* Positions of names, ordered by number (qsort by symbol).
BySymbol(names) ==
    SetToSortSeq(DOMAIN names, LAMBDA i, j : SymbolId[names[i]] < SymbolId[names[j]])
Permute(s, order) == [i \in DOMAIN order |-> s[order[i]]]

Truth(v) == v # False

\* Anything but a number is a number's operand only by mistake.
Arithmetic == {"+", "<", "!="}
Compute(op, x, y) ==
    CASE op = "+" -> Num(x.n + y.n)
      [] op = "<" -> IF x.n < y.n THEN y ELSE False
      [] op = "!=" -> Boolean(x.n # y.n)
      [] op = "eq" -> Boolean(x = y)
      [] op = "::" -> Tup(Pair, <<x, y>>)
BadOperands(op, x, y) == op \in Arithmetic /\ {x.kind, y.kind} # {"num"}
===============================================================================
