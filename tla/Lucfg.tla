------------------------------- MODULE Lucfg -------------------------------
(***************************************************************************)
(* The configuration library (third_party/lucfg/src/lucfg.c) as its users  *)
(* see it: what lucfg_open makes of a file and what the typed getters      *)
(* return.  A file is a function from its keys (section and name are one   *)
(* key, the last line of a key counts) to values; the text of a value is   *)
(* abstracted to its kind and, for a number, to the number.                *)
(***************************************************************************)
EXTENDS Integers

ValueKinds == {"number", "on", "off", "text", "quoted"}
Value(kind, n) == [kind |-> kind, n |-> n]
Number(n) == Value("number", n)
Text == Value("text", 0)

\* What parse_value leaves of a value: an expression (has_expr, which every
\* number is), an integer or a string.  A double that is no expression is
\* read like a string.
Entry(form, value) == [form |-> form, n |-> value.n, string |-> value.kind]

\* A quoted value is copied from memory that was freed just before, so it may
\* read as anything: other text, a number, or nothing, which strtol takes for
\* the integer 0.
ParseValue(v) ==
    CASE v.kind = "number" -> {Entry("expr", v)}
      [] v.kind = "quoted" -> {Entry("str", Text), Entry("int", Number(0)),
                               Entry("expr", Number(0)), Entry("expr", Number(1))}
      [] OTHER -> {Entry("str", v)}

Unreadable == [key \in {"unreadable"} |-> Text]
NoHandle == [open |-> FALSE]
Handle(table) == [open |-> TRUE, table |-> table]

\* lucfg_open.  load_file tests a byte of its line buffer that no line may
\* have written, so a readable file can be rejected as well.
Open(file) ==
    {NoHandle} \cup
    {Handle(t) : t \in {t \in [DOMAIN file -> UNION {ParseValue(file[k]) : k \in DOMAIN file}] :
                          file # Unreadable /\ \A k \in DOMAIN file : t[k] \in ParseValue(file[k])}}
-----------------------------------------------------------------------------
Ok(out) == [rc |-> "OK", out |-> out]
Err(rc) == [rc |-> rc, out |-> 0]

CheckRange(n, lo, hi) == IF n \in lo..hi THEN Ok(n) ELSE Err("ERR_RANGE")

\* lucfg_get_int32 and lucfg_get_uint16.  The break of CHECK_RANGE_EXPR only
\* leaves the loop of the macro, and for an expression the getter goes on to
\* the test of the type, which fails.
GetNarrow(h, key, lo, hi) ==
    IF key \notin DOMAIN h.table THEN Err("ERR_NOKEY")
    ELSE LET e == h.table[key]
         IN  IF e.form = "int" THEN CheckRange(e.n, lo, hi) ELSE Err("ERR_TYPE")

GetInt32(h, key) == GetNarrow(h, key, -2147483647 - 1, 2147483647)
GetUint16(h, key) == GetNarrow(h, key, 0, 65535)

GetBool(h, key) ==
    IF key \notin DOMAIN h.table THEN Err("ERR_NOKEY")
    ELSE LET e == h.table[key]
         IN  CASE e.form = "expr" -> Ok(IF e.n # 0 THEN 1 ELSE 0)
               [] e.form = "int" -> CheckRange(e.n, 0, 1)
               [] e.string = "on" -> Ok(1)
               [] e.string = "off" -> Ok(0)
               [] OTHER -> Err("ERR_TYPE")

GetString(h, key) ==
    IF key \notin DOMAIN h.table THEN Err("ERR_NOKEY") ELSE Ok(h.table[key].string)
=============================================================================
