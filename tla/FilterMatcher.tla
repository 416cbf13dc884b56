---------------------------- MODULE FilterMatcher ----------------------------
(***************************************************************************)
(* What a watcher's filters say of a message (src/internal/usecase/         *)
(* matcher.go), as they were stored by the owner (watcher_usecase.go).      *)
(* Texts are short sequences of letters; a watcher's filters are about one  *)
(* field at a time, which is enough to tell the two match modes apart.      *)
(***************************************************************************)
EXTENDS Integers, Sequences, SequencesExt

CONSTANTS
    Texts,          \* what a message may say in a field
    Wants,          \* what an owner may ask of a text
    MaxFilters,     \* bound: filters of a watcher
    MaxParts,       \* bound: parts of a body
    MaxLines,       \* bound: lines of a header
    HeaderCap       \* the lines of a header that are read: 60 in the code

VARIABLES
    field,      \* the field the filters are about
    filters,    \* the watcher_filters rows, in order
    mode,       \* match_mode
    message     \* the values each message received has for the field

filterVars == <<field, filters, mode, message>>

-----------------------------------------------------------------------------
(* Texts, patterns and numbers.  Of the letters, one has a capital. *)

Letters == {"a", "A", "b"}
Lower(s) == [i \in DOMAIN s |-> IF s[i] = "A" THEN "a" ELSE s[i]]
StartsWith(s, v) == Len(v) <= Len(s) /\ SubSeq(s, 1, Len(v)) = v
EndsWith(s, v) == Len(v) <= Len(s) /\ SubSeq(s, Len(s) - Len(v) + 1, Len(s)) = v
Includes(s, v) == \E i \in 0..Len(s) : StartsWith(SubSeq(s, i + 1, Len(s)), v)

(* Three patterns: "a" reads the same in lower case; "\pL", a letter, does   *)
(* not compile in lower case; "(" does not compile at all.                   *)
Patterns == {"a", "\\pL", "("}
Compile(pattern, caseSensitive) ==
    CASE pattern = "a" -> {s \in Texts : Includes(s, <<"a">>)}
      [] pattern = "\\pL" /\ caseSensitive -> Texts \ {<<>>}
      [] OTHER -> {}

-----------------------------------------------------------------------------

(* Mutant: only the message is folded to lower case. *)
compareFolded(operator, text, value, caseSensitive) ==
    LET s == IF caseSensitive THEN text ELSE Lower(text) IN
    CASE operator = "contains" -> Includes(s, value)
      [] operator = "not_contains" -> ~Includes(s, value)
      [] operator = "equals" -> s = value
      [] operator = "starts_with" -> StartsWith(s, value)
      [] operator = "ends_with" -> EndsWith(s, value)
      [] operator = "exists" -> s # <<>>

compareStrings(operator, text, value, caseSensitive) ==
    LET s == IF caseSensitive THEN text ELSE Lower(text)
        v == IF caseSensitive THEN value ELSE Lower(value)
    IN
    CASE operator = "contains" -> Includes(s, v)
      [] operator = "not_contains" -> ~Includes(s, v)
      [] operator = "equals" -> s = v
      [] operator = "starts_with" -> StartsWith(s, v)
      [] operator = "ends_with" -> EndsWith(s, v)
      [] operator = "exists" -> s # <<>>

matchRegex(text, pattern, caseSensitive) ==
    (IF caseSensitive THEN text ELSE Lower(text)) \in Compile(pattern, caseSensitive)

(* The value parses to one number or to none. *)
compareNumbers(operator, n, parsed) ==
    \E want \in parsed :
        CASE operator = "gt" -> n > want
          [] operator = "lt" -> n < want
          [] operator = "equals" -> n = want

(* One value of the message that passes will do: a recipient, an attachment, *)
(* the sender's address or name.  A header that is missing has no value.     *)
matchFilter(filter, values) ==
    CASE field = "has_attachment" -> filter.value \in values
      [] field = "size" -> \E n \in values : compareNumbers(filter.operator, n, filter.value)
      [] field = "header" /\ filter.operator = "exists" -> values # {}
      [] filter.operator = "regex" -> \E s \in values : matchRegex(s, filter.value, filter.caseSensitive)
      [] OTHER -> \E s \in values : compareStrings(filter.operator, s, filter.value, filter.caseSensitive)

EvaluateFilters(fs, values) ==
    LET passed == {i \in DOMAIN fs : matchFilter(fs[i], values)} IN
    \/ fs = <<>>
    \/ IF mode = "any" THEN passed # {} ELSE passed = DOMAIN fs

-----------------------------------------------------------------------------
(* What there is to store and to receive. *)

Operators == {"contains", "not_contains", "equals", "starts_with", "ends_with", "exists"}
Filter ==
    CASE field = "has_attachment" -> [operator : {"exists"}, value : BOOLEAN, caseSensitive : {FALSE}]
      [] field = "size" -> [operator : {"gt", "lt", "equals"}, value : {{1}, {}}, caseSensitive : {FALSE}]
      [] OTHER -> [operator : Operators, value : Wants, caseSensitive : BOOLEAN]
                  \cup [operator : {"regex"}, value : Patterns, caseSensitive : BOOLEAN]

Parts == [kind : {"plain", "html"}, text : Texts] \cup [kind : {"attachment", "broken"}, text : {<<>>}]

(* Of the plain texts, or else of the HTML ones, the first that is not empty  *)
(* is the body, and a file is an attachment; a part that does not parse ends  *)
(* the reading, with the attachments seen so far and without a body.          *)
readBody(parts) ==
    LET broken == SelectInSeq(parts, LAMBDA p : p.kind = "broken")
        read == SubSeq(parts, 1, IF broken = 0 THEN Len(parts) ELSE broken - 1)
        first(kind) == SelectInSeq(read, LAMBDA p : p.kind = kind /\ p.text # <<>>)
        text(kind) == IF broken # 0 \/ first(kind) = 0 THEN <<>> ELSE read[first(kind)].text
    IN
    [text |-> IF text("plain") = <<>> THEN text("html") ELSE text("plain"),
     attached |-> \E i \in DOMAIN read : read[i].kind = "attachment"]

(* A header line: of the header asked for, {text}, or of another one, {}.     *)
(* Only the first lines are read, and the last of a name counts.              *)
Lines == {{}} \cup {{s} : s \in Texts}
headerFields(lines) ==
    LET named == {i \in DOMAIN lines : i <= HeaderCap /\ lines[i] # {}}
    IN IF named = {} THEN {} ELSE lines[Max(named)]

Values ==
    CASE field = "has_attachment" -> {{readBody(parts).attached} : parts \in SeqOf(Parts, MaxParts)}
      [] field = "body" -> {{readBody(parts).text} : parts \in SeqOf(Parts, MaxParts)}
      [] field = "size" -> {{n} : n \in 0..2}
      [] field = "subject" -> {{s} : s \in Texts}
      [] field = "header" -> {headerFields(lines) : lines \in SeqOf(Lines, MaxLines)}
      [] field = "to" -> {{}} \cup {{s, t} : s, t \in Texts}

Init ==
    /\ field \in {"has_attachment", "size", "subject", "body", "header", "to"}
    /\ filters = <<>> /\ mode \in {"all", "any"}
    /\ message = <<>>

(* writeFilters stores the filters as they came: a pattern is not compiled. *)
writeFilters(fs) ==
    /\ message = <<>> /\ filters = <<>>
    /\ filters' = fs
    /\ UNCHANGED <<field, mode, message>>

Receive(values) ==
    /\ message = <<>>                   \* bound: one message
    /\ message' = <<values>>
    /\ UNCHANGED <<field, filters, mode>>

Next ==
    \/ \E n \in 1..MaxFilters : \E fs \in [1..n -> Filter] : writeFilters(fs)
    \/ \E values \in Values : Receive(values)

-----------------------------------------------------------------------------
(* Filters that only ask for something keep a match when case no longer      *)
(* counts; a further recipient never loses one; and of "contains" and        *)
(* "not contains" exactly one is true of a subject (matcher.go 24-133).      *)
Positive(filter) == filter.operator \notin {"not_contains", "regex"}
Loose(fs) == [i \in DOMAIN fs |-> [fs[i] EXCEPT !.caseSensitive = FALSE]]

MatchingIsMonotone ==
    \A n \in DOMAIN message :
        LET values == message[n] IN
        /\ EvaluateFilters(filters, values) =>
            /\ (\A i \in DOMAIN filters : Positive(filters[i])) => EvaluateFilters(Loose(filters), values)
            /\ field = "to" => \A s \in Texts : EvaluateFilters(filters, values \cup {s})
        /\ field = "subject" => \A i \in DOMAIN filters :
            filters[i].operator = "contains" =>
                matchFilter(filters[i], values)
                    # matchFilter([filters[i] EXCEPT !.operator = "not_contains"], values)
=============================================================================
