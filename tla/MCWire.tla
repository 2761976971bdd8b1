------------------------------- MODULE MCWire -------------------------------
(* Small messages of every type for TLC. *)
EXTENDS Wire

\* Fields of two values, or of a default and some messages.
RECURSIVE Some(_)
Values(f) ==
    CASE f.kind = "varint" -> {0, 2}
      [] f.kind = "double" -> {DefaultOf("double"), <<0, 0, 0, 0, 0, 0, 0, 64>>}
      [] f.kind = "bytes" -> {<<>>, <<65>>}
      [] f.kind = "message" -> {<<>>} \cup {<<m>> : m \in Some(f.of)}
      [] f.kind = "repeated" ->
            LET S == Some(f.of) IN {<<>>} \cup {<<m>> : m \in S} \cup {<<m, n>> : m, n \in S}

Tuples(sets) == FoldLeft(LAMBDA T, S : {Append(t, v) : t \in T, v \in S}, {<<>>}, sets)

\* Every message of a type, and those whose plain fields are all set, all
\* default or alternate.
All(type) == Tuples([i \in DOMAIN Fields[type] |-> Values(Fields[type][i])])

Some(type) ==
    LET Pattern(set) ==
            Tuples([i \in DOMAIN Fields[type] |->
                LET f == Fields[type][i]
                IN IF f.kind \in {"message", "repeated"} THEN Values(f)
                   ELSE IF i \in set THEN Values(f) \ {DefaultOf(f.kind)}
                   ELSE {DefaultOf(f.kind)}])
        n == Len(Fields[type])
    IN UNION {Pattern(set) : set \in {{}, 1..n, {i \in 1..n : i % 2 = 0},
                                      {i \in 1..n : i % 2 = 1}}}

\* The body of a failed reply, with and without a message and a stacktrace.
Errors == {<<type, message, trace>> : type \in FailureTypes,
                                      message \in {<<>>, <<78, 111, 46>>},
                                      trace \in {<<>>, <<97, 116>>}}

Readers == {"ts", "cs"}
Read(readers, as, of, parts) ==
    {[reader |-> r, as |-> a, of |-> of, parts |-> p] : r \in readers, a \in as, p \in parts}

MCInputs ==
    UNION {   Read(Readers, {t}, t, {<<m>> : m \in All(t)})
         \cup Read(Readers, {t}, t, {<<m, n>> : m, n \in Some(t)}) : t \in Types \ Lists}
    \cup UNION {Read(Readers, {t}, t, {<<m>> : m \in Some(t)}) : t \in Lists}
    \cup Read(Readers, Types, "Error", {<<e>> : e \in Errors})
    \cup UNION {Read(Readers, Types, t, {<<m>> : m \in Some(t)}) : t \in Types \ Lists}
=============================================================================
