----------------------------- MODULE TextFormat -----------------------------
(***************************************************************************)
(* What a row goes through between the cursor and the staging table: the   *)
(* csv writer of StagePostgresToHiveOperator.execute makes text of it, and *)
(* Hive reads that text as the table load_file declares (ROW FORMAT        *)
(* DELIMITED, no escape character, STORED AS textfile).  A value is a      *)
(* sequence of tokens or NULL; only three tokens mean something to either. *)
(***************************************************************************)
EXTENDS Naturals, FiniteSets, SequencesExt

CONSTANTS
    Token,      \* what values are made of
    Quote,      \* the writer's quote character
    Delim,      \* the field delimiter, chr(1) for both sides
    Break,      \* CR, LF or both: the end of a line for both sides
    Null        \* NULL

\* A value without a token that would end a field.
Plain(v) == v # Null => \A i \in DOMAIN v : v[i] \notin {Delim, Break}

\* csv's default quoting: a field with a special character is put between
\* quotes, a quote in it is doubled.
Special(v) == \E i \in DOMAIN v : v[i] \in {Quote, Delim, Break}
Doubled(v) ==
    FlattenSeq([i \in DOMAIN v |-> IF v[i] = Quote THEN <<Quote, Quote>> ELSE <<v[i]>>])

\* Mutant: every field is quoted.
Written_Quoted(v) == IF v = Null THEN <<>> ELSE <<Quote>> \o Doubled(v) \o <<Quote>>

\* NULL is written as nothing.
Written(v) ==
    IF v = Null THEN <<>>
    ELSE IF Special(v) THEN <<Quote>> \o Doubled(v) \o <<Quote>>
    ELSE v

\* A row of the file and the whole file.
Line(row) ==
    FlattenSeq([i \in DOMAIN row |->
        Written(row[i]) \o IF i = Len(row) THEN <<Break>> ELSE <<Delim>>])
Text(rows) == FlattenSeq([i \in DOMAIN rows |-> Line(rows[i])])

\* The pieces of s before, between and after its tokens d; Cut(k) is the
\* position of the k-th d, or the end.
Split(s, d) ==
    LET at == {i \in DOMAIN s : s[i] = d}
        Cut(k) == IF k = 0 THEN 0
                  ELSE IF k > Cardinality(at) THEN Len(s) + 1
                  ELSE CHOOSE i \in at : Cardinality({j \in at : j <= i}) = k
    IN  [k \in 1 .. Cardinality(at) + 1 |-> SubSeq(s, Cut(k - 1) + 1, Cut(k) - 1)]

\* Hive takes each line for a row, quoted or not, leaves out fields beyond
\* the declared columns and takes missing ones for NULL.
Fitted(fields, columns) ==
    SubSeq(fields \o [i \in 1 .. columns |-> Null], 1, columns)
HiveRows(text, columns) ==
    LET lines == Front(Split(text, Break))
    IN  [i \in DOMAIN lines |-> Fitted(Split(lines[i], Delim), columns)]
=============================================================================
