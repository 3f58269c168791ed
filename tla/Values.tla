------------------------------- MODULE Values -------------------------------
(***************************************************************************)
(* Two computations on values, each beside what it is meant to compute:    *)
(* the default classifier of RwSplit (routing.rs: default_is_read and      *)
(* strip_comments) beside PostgreSQL's reading of comments and words, and  *)
(* the edit of a DataRow in place (intercept.rs: DataRowMut) beside the    *)
(* encoding of the edited values.                                          *)
(*                                                                         *)
(* A behaviour is one job.  A text grows symbol by symbol: "nl" and "cr"   *)
(* are the ends of lines, "sp" any other white space, "SELECT" any of the  *)
(* words taken for a read, "other" any other word or part of one, and "*"  *)
(* any other character that ends a word for PostgreSQL: an asterisk, a     *)
(* semicolon, a quote, a comma.  A row of Columns columns is parsed,       *)
(* edited by on_row and applied; its data is a sequence of bytes, lengths  *)
(* in four of them.                                                        *)
(***************************************************************************)
EXTENDS Integers, Sequences, SequencesExt, FiniteSets

CONSTANTS
    Jobs,          \* the computations of a run, among "sql" and "row"
    MaxSymbols,    \* bound: symbols of a text
    Columns,       \* columns of a row
    Value,         \* the values of its columns: sequences of bytes
    MaxEdits       \* bound: edits of a row

Null == <<-1>>

ASSUME ValuesAssumption ==
    /\ Jobs \subseteq {"sql", "row"} /\ MaxSymbols \in Nat /\ Columns \in Nat /\ MaxEdits \in Nat
    /\ \A v \in Value : v \in Seq(0..255) /\ Len(v) < 256

VARIABLES
    job,
    sql,     \* the text
    cells,   \* what the row is meant to hold
    row,     \* DataRow: its bytes and its number of fields
    view,    \* DataRowMut: the slots, whether one was rewritten, and the calls made
    phase    \* of the row: "raw", "edit", "sent"

vars == <<job, sql, cells, row, view, phase>>

-----------------------------------------------------------------------------
(* The classifier.                                                         *)

Symbol == {"--", "/*", "*/", "nl", "cr", "sp", "(", "*", "SELECT", "other"}
Space == {"nl", "cr", "sp"}

\* The text without the leading symbols of a set, and after the first x in it.
Without(s, set) ==
    SubSeq(s, 1 + Max({0} \cup {i \in 1..Len(s) : \A j \in 1..i : s[j] \in set}), Len(s))
After(s, x) ==
    IF \E i \in DOMAIN s : s[i] = x
    THEN SubSeq(s, 1 + Min({i \in DOMAIN s : s[i] = x}), Len(s)) ELSE <<>>

\* strip_comments: a comment only if it starts where the last one ended.
RECURSIVE StripComments(_)
StripComments(s) ==
    CASE s # <<>> /\ Head(s) = "--" -> StripComments(After(Tail(s), "nl"))
      [] s # <<>> /\ Head(s) = "/*" -> StripComments(After(Tail(s), "*/"))
      [] OTHER -> s

\* The first piece between white space and parentheses.
FirstPiece(s) ==
    LET t == Without(s, Space \cup {"("})
        ends == {i \in DOMAIN t : t[i] \in Space \cup {"("}}
    IN IF ends = {} THEN t ELSE SubSeq(t, 1, Min(ends) - 1)

\* Fault: the first piece need only begin with a word of a read.
DefaultIsReadLoose(s) ==
    LET first == FirstPiece(StripComments(Without(s, Space))) IN first # <<>> /\ Head(first) = "SELECT"

DefaultIsRead(s) == FirstPiece(StripComments(Without(s, Space))) = <<"SELECT">>

\* PostgreSQL: block comments nest, line comments end with either end of line, and
\* white space, comments and parentheses may come in any order before the first word.
RECURSIVE Significant(_, _)
Significant(s, depth) ==
    CASE s = <<>> -> s
      [] depth > 0 ->
            Significant(Tail(s), CASE Head(s) = "/*" -> depth + 1
                                   [] Head(s) = "*/" -> depth - 1
                                   [] OTHER -> depth)
      [] Head(s) = "/*" -> Significant(Tail(s), 1)
      [] Head(s) = "--" ->
            Significant(Without(Tail(s), Symbol \ {"nl", "cr"}), 0)
      [] Head(s) \in Space \cup {"("} -> Significant(Tail(s), 0)
      [] OTHER -> s

IsRead(s) ==
    LET t == Significant(s, 0) IN
    /\ t # <<>> /\ t[1] = "SELECT"
    /\ Len(t) > 1 => t[2] \notin {"SELECT", "other"}

-----------------------------------------------------------------------------
(* DataRowMut.                                                             *)

I32(n) == IF n < 0 THEN <<255, 255, 255, 255>> ELSE <<0, 0, 0, n>>
GetI32(b) == IF b[1] = 255 THEN -1 ELSE b[4]

EncodeCell(v) == IF v = Null THEN I32(-1) ELSE I32(Len(v)) \o v
Encode(vs) == FlattenSeq([i \in DOMAIN vs |-> EncodeCell(vs[i])])

Range1(offset, len) == [k |-> "range", offset |-> offset, len |-> len]
Owned(v) == [k |-> "owned", bytes |-> v]
NullSlot == [k |-> "null"]

\* The slots of n fields from the cursor on, or Failed where the data ends too soon.
Failed == <<[k |-> "failed"]>>
RECURSIVE Slots(_, _, _)
Slots(data, cursor, n) ==
    IF n = 0 THEN <<>>
    ELSE IF Len(data) - cursor < 4 THEN Failed
    ELSE LET len == GetI32(SubSeq(data, cursor + 1, cursor + 4))
             offset == cursor + 4
             rest == Slots(data, IF len < 0 THEN offset ELSE offset + len, n - 1)
         IN IF len >= 0 /\ Len(data) - offset < len THEN Failed
            ELSE IF rest = Failed THEN Failed
            ELSE <<IF len < 0 THEN NullSlot ELSE Range1(offset, len)>> \o rest

SlotBytes(data, s) == IF s.k = "owned" THEN s.bytes ELSE SubSeq(data, s.offset + 1, s.offset + s.len)

\* The data DataRowMut::apply writes.
Rebuilt(data, slots) ==
    FlattenSeq([i \in DOMAIN slots |->
        IF slots[i].k = "null" THEN I32(-1)
        ELSE I32(Len(SlotBytes(data, slots[i]))) \o SlotBytes(data, slots[i])])

-----------------------------------------------------------------------------
Cell == Value \cup {Null}

\* A row that promises a column more than it holds fails to parse.
Init ==
    /\ job \in Jobs
    /\ sql = <<>>
    /\ cells \in IF job = "row" THEN [1..Columns -> Cell] ELSE {<<>>}
    /\ \E fields \in IF job = "row" THEN {Columns, Columns + 1} ELSE {0} :
          row = [data |-> Encode(cells), fields |-> fields]
    /\ view = [slots |-> <<>>, modified |-> FALSE, calls |-> 0]
    /\ phase = "raw"

Write(symbol) ==
    /\ job = "sql" /\ Len(sql) < MaxSymbols
    /\ sql' = Append(sql, symbol)
    /\ UNCHANGED <<job, cells, row, view, phase>>

\* A row that fails to parse goes out as it came.
Parse ==
    /\ job = "row" /\ phase = "raw"
    /\ LET slots == Slots(row.data, 0, row.fields) IN
       IF slots = Failed THEN phase' = "sent" /\ UNCHANGED view
       ELSE phase' = "edit" /\ view' = [view EXCEPT !.slots = slots]
    /\ UNCHANGED <<job, sql, cells, row>>

\* An edit of a column the row has not is an error and changes nothing.
Edit(i, slot, v) ==
    /\ job = "row" /\ phase = "edit" /\ view.calls < MaxEdits
    /\ IF i > Len(view.slots)
       THEN view' = [view EXCEPT !.calls = @ + 1] /\ UNCHANGED cells
       ELSE /\ view' = [view EXCEPT !.slots[i] = slot, !.modified = TRUE, !.calls = @ + 1]
            /\ cells' = [cells EXCEPT ![i] = v]
    /\ UNCHANGED <<job, sql, row, phase>>

\* Fault: a column set to null does not mark the row as rewritten.
SetNullQuiet(i) ==
    /\ job = "row" /\ phase = "edit" /\ view.calls < MaxEdits /\ i <= Len(view.slots)
    /\ view' = [view EXCEPT !.slots[i] = NullSlot, !.calls = @ + 1]
    /\ cells' = [cells EXCEPT ![i] = Null]
    /\ UNCHANGED <<job, sql, row, phase>>

SetNull(i) == Edit(i, NullSlot, Null)
SetText(i, v) == Edit(i, Owned(v), v)

\* A row nobody rewrote keeps its bytes.
Apply ==
    /\ job = "row" /\ phase = "edit"
    /\ row' = IF view.modified THEN [row EXCEPT !.data = Rebuilt(row.data, view.slots)] ELSE row
    /\ phase' = "sent"
    /\ UNCHANGED <<job, sql, cells, view>>

Next ==
    \/ \E symbol \in Symbol : Write(symbol)
    \/ Parse \/ Apply
    \/ \E i \in 1..(Columns + 1) : SetNull(i) \/ \E v \in Value : SetText(i, v)

Spec == Init /\ [][Next]_vars

-----------------------------------------------------------------------------
(* Properties.                                                             *)

\* The text, the row and its view keep their types (DataRowMut).
TypeOK ==
    /\ job \in Jobs /\ sql \in Seq(Symbol) /\ Len(sql) <= MaxSymbols
    /\ cells \in Seq(Cell) /\ row.data \in Seq(0..255)
    /\ view.modified \in BOOLEAN /\ view.calls \in 0..MaxEdits
    /\ phase \in {"raw", "edit", "sent"}

\* A block comment is opened within one that is still open.
Nests(s) ==
    \E i, j \in DOMAIN s : i < j /\ s[i] = "/*" /\ s[j] = "/*" /\ \A k \in i..j : s[k] # "*/"

\* The first word of a text ends where default_is_read looks for its end.
Delimited(s) == LET t == Significant(s, 0) IN Len(t) > 1 => t[2] \notin {"*", "--", "/*", "*/"}

\* RwSplit (default_is_read) takes a text for a read only if the first word PostgreSQL
\* sees in it is one of the words of a read, whatever comments, white space and
\* parentheses come before it; and finds every read without comments whose first word
\* is followed by white space, a parenthesis or the end of the text.
\* Left out: nested block comments and line comments ended by a carriage return.
ReadsAreReads ==
    /\ ~Nests(sql) /\ "cr" \notin ToSet(sql) => (DefaultIsRead(sql) => IsRead(sql))
    /\ ToSet(sql) \cap {"--", "/*", "*/"} = {} /\ Delimited(sql) => DefaultIsRead(sql) = IsRead(sql)

\* The same without the exception.
ReadsAreAlwaysReads == DefaultIsRead(sql) => IsRead(sql)

\* "treats leading SELECT/SHOW (optionally wrapped in whitespace/comments) as reads"
WrappedReadsAreReads == ~Nests(sql) /\ Delimited(sql) /\ IsRead(sql) => DefaultIsRead(sql)

\* "treats leading SELECT/SHOW ... as reads": of a text without comments.
LeadingReadsAreReads ==
    ToSet(sql) \cap {"--", "/*", "*/"} = {} /\ IsRead(sql) => DefaultIsRead(sql)

\* The value DataRowMut::text and is_null give for column i.
TextAt(i) == IF view.slots[i].k = "null" THEN Null ELSE SlotBytes(row.data, view.slots[i])

\* DataRowMut: while on_row edits a row every column reads as what it was or was last
\* set to, and the row that is sent is the encoding of just these values: an edit moves
\* or changes no other column, whatever the lengths, nulls and empty values around it.
RowEditsAreLocal ==
    /\ phase = "edit" => \A i \in DOMAIN cells : TextAt(i) = cells[i]
    /\ phase = "sent" => row.data = Encode(cells)
=============================================================================
