------------------------------ MODULE TaskMacro -------------------------------
(***************************************************************************)
(* The expansion of `task!` (tasks/macros): the rows `field: value` of the *)
(* call are read into a TaskBuilder, the paths `Enum::Variant` of the same *)
(* tokens are copied into the code of the expansion, where the compiler    *)
(* checks them, and the task is built.  A panic is a compile error.        *)
(***************************************************************************)
EXTENDS Integers, Sequences

CONSTANTS Unset,
          Spellings,      \* the texts of tokens
          TypedRows,  \* the rows a programmer types, right or wrong, without their comma
          MaxRows     \* bound: rows of a call

VARIABLES tokens,   \* the tokens of the call that were read so far
          rows,     \* their rows
          builder,  \* TaskBuilder: field -> value or Unset
          verdict   \* "reading", "built" or "panicked"

macroVars == <<tokens, rows, builder, verdict>>

\* Tokens.  The text of a string literal is what stands between its quotes.
Token    == [kind : {"ident", "punct", "literal", "group"}, text : Spellings]
Punct(c) == [kind |-> "punct", text |-> c]
Colon    == Punct(":")
Comma    == Punct(",")
IsIdent(token) == token.kind = "ident"

MacroAssumption == TypedRows \subseteq Seq(Token) /\ {":", ",", "__incomplete"} \subseteq Spellings

\* The enums of tasks_args, with the spellings of their variants and names that differ
\* in case only.
Enums == [TaskPriority |-> {"Urgent", "High", "Normal", "Low", "Bonus"},
          TaskType     |-> {"Refactor", "Implement", "Others"},
          TaskStatus   |-> {"Todo", "Doing", "Blocked", "Done"},
          TaskEffort   |-> {"Quick", "Normal", "Long"}]
Lower == [x \in {"high", "HIGH"} |-> "High"]
SameButCase(s, t) == s = t \/ (s \in DOMAIN Lower /\ Lower[s] = t)
NameIs(s, enum) == s = enum \/ (s = "taskpriority" /\ enum = "TaskPriority")

EnumOf == [prio |-> "TaskPriority", task_type |-> "TaskType",
           status |-> "TaskStatus", effort |-> "TaskEffort"]
LiteralFields == {"name", "desc", "blocked_by"}
Required == DOMAIN EnumOf \cup {"name", "panic"}
TaskFields   == Required \cup LiteralFields

----------------------------------------------------------------------------
(* The values of a row; Unset is a panic                                   *)

\* `Enum::Variant`, `::` being two tokens, and nothing behind it.
BuildEnum(value, enum) ==
    LET found == {v \in Enums[enum] : SameButCase(value[4].text, v)}
    IN  IF /\ Len(value) = 4 /\ IsIdent(value[1]) /\ NameIs(value[1].text, enum)
           /\ value[2] = Colon /\ value[3] = Colon /\ IsIdent(value[4]) /\ found # {}
        THEN CHOOSE v \in found : TRUE ELSE Unset

\* One literal, in quotes: a number has none.
Strings == {"a", "", "..", "a/b"}
BuildLiteral(value) ==
    IF Len(value) = 1 /\ value[1].kind = "literal" /\ value[1].text \in Strings
    THEN value[1].text ELSE Unset

BuildBool(value) ==
    IF Len(value) = 1 /\ IsIdent(value[1]) /\ value[1].text \in {"true", "false"}
    THEN value[1].text ELSE Unset

BuildValue(field, value) ==
    CASE field \in DOMAIN EnumOf  -> BuildEnum(value, EnumOf[field])
      [] field \in LiteralFields  -> BuildLiteral(value)
      [] field = "panic"          -> BuildBool(value)

Value(row) == SubSeq(row, 3, Len(row))

\* build_task's peek, and process_row: an identifier that names a field, a colon, a value.
RowIsFine(row) ==
    /\ row # <<>> /\ IsIdent(row[1]) /\ row[1].text \in TaskFields
    /\ Len(row) >= 2 /\ row[2] = Colon
    /\ BuildValue(row[1].text, Value(row)) # Unset

\* validate_name: the name is one component of a path.
ValidName(name) == name \notin {"", ".", "..", "a/b"}

----------------------------------------------------------------------------
EmptyTask == [f \in TaskFields |-> Unset]

MacroInit == tokens = <<>> /\ rows = <<>> /\ builder = EmptyTask /\ verdict = "reading"

Panic == verdict' = "panicked" /\ tokens' = <<>> /\ rows' = <<>> /\ builder' = EmptyTask

\* parse_attribute and process_row, for the tokens up to the next comma; the last row may
\* have none.
ReadRow(row, end) ==
    /\ verdict = "reading" /\ Len(rows) < MaxRows
    /\ tokens # <<>> => tokens[Len(tokens)] = Comma
    /\ \/ /\ RowIsFine(row)
          /\ builder' = [builder EXCEPT ![row[1].text] = BuildValue(row[1].text, Value(row))]
          /\ tokens' = tokens \o (row \o end)
          /\ rows' = Append(rows, row)
          /\ UNCHANGED verdict
       \/ ~RowIsFine(row) /\ Panic

\* TaskBuilder::build
Build ==
    /\ verdict = "reading"
    /\ IF (\A f \in Required : builder[f] # Unset) /\ ValidName(builder["name"])
       THEN verdict' = "built" /\ UNCHANGED <<tokens, rows, builder>>
       ELSE Panic

MacroNext == (\E row \in TypedRows, end \in {<<>>, <<Comma>>} : ReadRow(row, end)) \/ Build

MacroSpec == MacroInit /\ [][MacroNext]_macroVars

----------------------------------------------------------------------------
(* collect_enum_paths: what the compiler is shown of the call's tokens     *)

IsColon(ts, i) == i <= Len(ts) /\ ts[i] = Colon

\* Broken: one colon is enough.
IsPathHeadOneColon(ts, i) == IsIdent(ts[i]) /\ IsColon(ts, i + 1)

IsPathHead(ts, i) == IsIdent(ts[i]) /\ IsColon(ts, i + 1) /\ IsColon(ts, i + 2)

HasVariant(ts, i) == i + 3 <= Len(ts) /\ IsIdent(ts[i + 3])

CollectEnumPaths(ts) ==
    LET from[i \in 1 .. Len(ts) + 4] ==
            IF i > Len(ts) THEN <<>>
            ELSE IF ~IsPathHead(ts, i) THEN from[i + 1]
            ELSE IF HasVariant(ts, i) THEN << <<ts[i].text, ts[i + 3].text>> >> \o from[i + 4]
            ELSE << <<ts[i].text, "__incomplete">> >> \o from[i + 3]
    IN  from[1]

----------------------------------------------------------------------------
(* Properties                                                              *)

\* The path in a row, if its field is an enum.
PathOf(row) ==
    IF row[1].text \in DOMAIN EnumOf
    THEN << <<Value(row)[1].text, Value(row)[4].text>> >> ELSE <<>>

ShownPaths(rs) ==
    LET of[i \in 0 .. Len(rs)] == IF i = 0 THEN <<>> ELSE of[i - 1] \o PathOf(rs[i])
    IN  of[Len(rs)]

\* The two passes over the tokens agree: what the compiler is shown of a call that
\* builds is the path of each of its enum rows, in order, and nothing else
\* (main_macro.rs:15, :34-63 against core.rs:200-232).
HintsAreTheEnums == verdict = "built" => CollectEnumPaths(tokens) = ShownPaths(rows)

\* A task that is built says what its rows say, the last one where a field is repeated,
\* and nothing that no row says.
TaskIsItsRows ==
    \A f \in TaskFields :
        LET says == {i \in DOMAIN rows : rows[i][1].text = f}
        IN  \/ says = {} /\ builder[f] = Unset
            \/ \E i \in says : /\ \A j \in says : j <= i
                              /\ builder[f] = BuildValue(f, Value(rows[i]))

\* Nothing of a call is lost, made up or read in two ways.
CallIsExact == HintsAreTheEnums /\ TaskIsItsRows
==============================================================================
