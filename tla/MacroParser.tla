----------------------------- MODULE MacroParser -----------------------------
(***************************************************************************)
(* The macro compiler: macro_parser_v2.c over macro_keymap_us.c and        *)
(* macro_keymap_us_v2.c.  One step per token, as in the loop of            *)
(* macro_compile_v2(); a whole [...] group is one token.                   *)
(*                                                                         *)
(* A source is a sequence of characters, each a string.  The spelling of   *)
(* the directive names is abstracted: NameOf says which character          *)
(* sequences spell a name of the tables below.                             *)
(***************************************************************************)
EXTENDS Naturals, Sequences, FiniteSets

CONSTANTS
    Sources,         \* the sources to compile
    NameOf,          \* the spelled directive names: sequences of characters to names
    DelayPrefix,     \* the spelling of "DELAY:"
    Options,         \* the timings a client may ask for
    SourceMaxBytes,  \* APP_V2_MACRO_SOURCE_MAX_BYTES
    ActionsMax,      \* APP_V2_COMPILED_ACTIONS_MAX
    DurationMax,     \* APP_V2_ESTIMATED_DURATION_MAX_MS
    TimingMax,       \* APP_V2_KEY_PRESS_MAX_MS, APP_V2_INTER_KEY_MAX_MS
    DelayMax,        \* APP_V2_DELAY_DIRECTIVE_MAX_MS
    UintMax,         \* UINT32_MAX
    UsagesMax,       \* MACRO_ACTION_USAGES_MAX
    DirectiveBytes   \* V2_DIRECTIVE_BUFFER_BYTES

ASSUME InputAssumption ==
    /\ Sources \subseteq Seq(STRING)
    /\ Options \subseteq [keyPress : Nat, interKey : Nat]

ASSUME LimitAssumption ==
    /\ SourceMaxBytes \in Nat /\ ActionsMax \in Nat /\ DurationMax \in Nat
    /\ TimingMax \in Nat /\ DelayMax \in Nat /\ UintMax \in Nat
    /\ UsagesMax \in Nat \ {0} /\ DirectiveBytes \in Nat
    /\ 2 * TimingMax <= UintMax /\ DurationMax + DelayMax <= UintMax

-----------------------------------------------------------------------------
(* The US keyboard. *)

Key(modifiers, usage) == [modifiers |-> modifiers, usage |-> usage]

\* The characters in the order of their usages, from 0x04 and from 0x2c on; the
\* usage 0x32 has none.  Some are named in words: "lbrace" and "rbrace" are the
\* braces, "grave" is the backquote.
PlainKeys   == <<"a","b","c","d","e","f","g","h","i","j","k","l","m","n","o","p","q","r",
                 "s","t","u","v","w","x","y","z","1","2","3","4","5","6","7","8","9","0">>
ShiftedKeys == <<"A","B","C","D","E","F","G","H","I","J","K","L","M","N","O","P","Q","R",
                 "S","T","U","V","W","X","Y","Z","!","@","#","$","%","^","&","*","(",")">>
PlainMarks   == <<"space", "-", "=", "[", "]", "\\", "gap", "semicolon", "'", "grave",
                  "comma", ".", "/">>
ShiftedMarks == <<"gap", "underscore", "+", "lbrace", "rbrace", "|", "gap", ":", "quote", "~",
                  "<", ">", "?">>

Rows == {[keys |-> PlainKeys,    first |-> 4,  modifiers |-> {}],
         [keys |-> ShiftedKeys,  first |-> 4,  modifiers |-> {"SHIFT"}],
         [keys |-> PlainMarks,   first |-> 44, modifiers |-> {}],
         [keys |-> ShiftedMarks, first |-> 44, modifiers |-> {"SHIFT"}]}

Characters(row)  == {row[i] : i \in DOMAIN row} \ {"gap"}
Place(row, c)    == CHOOSE i \in DOMAIN row : row[i] = c

\* macro_keymap_us_printable()
Printable ==
    [c \in UNION {Characters(row.keys) : row \in Rows} |->
        LET row == CHOOSE row \in Rows : c \in Characters(row.keys)
        IN  Key(row.modifiers, row.first - 1 + Place(row.keys, c))]

\* macro_keymap_us_named(), for the names of more than one character
NamedKeys ==
    [ENTER |-> 40, ESC |-> 41, BACKSPACE |-> 42, TAB |-> 43, SPACE |-> 44,
     INSERT |-> 73, HOME |-> 74, PAGEUP |-> 75, DELETE |-> 76, END |-> 77, PAGEDOWN |-> 78,
     RIGHT |-> 79, LEFT |-> 80, DOWN |-> 81, UP |-> 82,
     F1 |-> 58, F2 |-> 59, F3 |-> 60, F4 |-> 61, F5 |-> 62, F6 |-> 63, F7 |-> 64, F8 |-> 65,
     F9 |-> 66, F10 |-> 67, F11 |-> 68, F12 |-> 69]

\* macro_keymap_us_modifier()
Modifiers == {"CTRL", "SHIFT", "ALT", "GUI"}

\* macro_keymap_us_v2_named_directive()
NamedDirective(name) ==
    IF name \in Modifiers THEN Key({name}, 0) ELSE Key({}, NamedKeys[name])

InvalidInDirective(c) == c \notin DOMAIN Printable \/ c \in {"space", "lbrace", "rbrace"}

StartsWith(text, prefix) ==
    Len(text) >= Len(prefix) /\ SubSeq(text, 1, Len(prefix)) = prefix

\* The names of the tables, and "DELAY:", are spelled with characters a directive
\* may have and fit the buffer; no name begins like a delay.
ASSUME NameAssumption ==
    /\ DOMAIN NameOf \subseteq Seq(STRING) /\ DelayPrefix \in Seq(STRING)
    /\ \A i \in DOMAIN DelayPrefix : ~InvalidInDirective(DelayPrefix[i])
    /\ \A text \in DOMAIN NameOf :
          /\ NameOf[text] \in Modifiers \cup DOMAIN NamedKeys
          /\ Len(text) \in 1 .. DirectiveBytes - 1 /\ ~StartsWith(text, DelayPrefix)
          /\ \A i \in DOMAIN text : ~InvalidInDirective(text[i])

-----------------------------------------------------------------------------
(* One token.                                                               *)

TenDigits == <<"0", "1", "2", "3", "4", "5", "6", "7", "8", "9">>
Digits    == [d \in Characters(TenDigits) |-> Place(TenDigits, d) - 1]
NoAction == [type |-> "none", modifiers |-> {}, usages |-> <<>>, delay |-> 0]

Ok(action, consumed) == [error |-> "NONE", action |-> action, consumed |-> consumed]
Fail(code)           == [error |-> code, action |-> NoAction, consumed |-> 0]

\* v2_key_action(): a modifier alone has no usage.
KeyAction(key) ==
    [type |-> "key", modifiers |-> key.modifiers,
     usages |-> IF key.usage = 0 THEN <<>> ELSE <<key.usage>>, delay |-> 0]

Doubled(s, i) == i < Len(s) /\ s[i + 1] = s[i]

TooLarge == UintMax + 1
NoNumber == UintMax + 2

\* MUTANT of DelayValue: the multiplication is not guarded and wraps.
DelayValueWraps(digits) ==
    LET after[n \in 0 .. Len(digits)] ==
          IF n = 0 THEN 0
          ELSE IF digits[n] \notin DOMAIN Digits \/ after[n - 1] = NoNumber THEN NoNumber
          ELSE (after[n - 1] * 10 + Digits[digits[n]]) % (UintMax + 1)
    IN  after[Len(digits)]

\* One turn of the loop of v2_parse_delay(): a value that is too large stays.
NextValue(value, d) ==
    CASE value > UintMax -> value
      [] value <= UintMax /\ d \notin DOMAIN Digits -> NoNumber
      [] value <= UintMax /\ d \in DOMAIN Digits ->
            IF value > (UintMax - Digits[d]) \div 10 THEN TooLarge ELSE value * 10 + Digits[d]

DelayValues(digits) ==
    LET after[n \in 0 .. Len(digits)] ==
          IF n = 0 THEN 0 ELSE NextValue(after[n - 1], digits[n])
    IN  after

\* The value of all digits, or why the loop is left.
DelayValue(digits) == DelayValues(digits)[Len(digits)]

\* v2_parse_delay()
ParseDelay(digits, consumed) ==
    LET value == DelayValue(digits)
    IN  CASE digits = <<>> \/ value = NoNumber -> Fail("MACRO_SYNTAX")
          [] digits # <<>> /\ value # NoNumber /\ value \notin 1 .. DelayMax ->
                Fail("MACRO_LIMIT")
          [] OTHER -> Ok([NoAction EXCEPT !.type = "delay", !.delay = value], consumed)

\* v2_parse_directive(): the text between the braces.
ParseDirective(text, consumed) ==
    IF \/ text = <<>> \/ Len(text) >= DirectiveBytes
       \/ \E i \in DOMAIN text : InvalidInDirective(text[i])
    THEN Fail("MACRO_SYNTAX")
    ELSE IF StartsWith(text, DelayPrefix)
    THEN ParseDelay(SubSeq(text, Len(DelayPrefix) + 1, Len(text)), consumed)
    ELSE IF text \in DOMAIN NameOf
    THEN Ok(KeyAction(NamedDirective(NameOf[text])), consumed)
    ELSE Fail("MACRO_SYNTAX")

\* MUTANT of OpenBrace: the closing brace is looked for from the end.
OpenBraceLast(s, i) ==
    LET closings == {j \in i + 1 .. Len(s) : s[j] = "rbrace"}
        closing  == CHOOSE j \in closings : \A k \in closings : j >= k
    IN  IF Doubled(s, i) THEN Ok(KeyAction(Printable["lbrace"]), 2)
        ELSE IF closings = {} THEN Fail("MACRO_SYNTAX")
        ELSE ParseDirective(SubSeq(s, i + 1, closing - 1), closing - i + 1)

\* v2_parse_open_brace(): a literal brace, or a directive up to the next closing brace.
OpenBrace(s, i) ==
    LET closings == {j \in i + 1 .. Len(s) : s[j] = "rbrace"}
        closing  == CHOOSE j \in closings : \A k \in closings : j <= k
    IN  IF Doubled(s, i) THEN Ok(KeyAction(Printable["lbrace"]), 2)
        ELSE IF closings = {} THEN Fail("MACRO_SYNTAX")
        ELSE ParseDirective(SubSeq(s, i + 1, closing - 1), closing - i + 1)

\* v2_parse_non_bracket_token()
NonBracketToken(s, i) ==
    LET c == s[i]
    IN  CASE c = "\r" -> IF i < Len(s) /\ s[i + 1] = "\n"
                         THEN Ok(KeyAction(Key({}, NamedKeys.ENTER)), 2)
                         ELSE Fail("MACRO_SYNTAX")
          [] c = "\n" -> Ok(KeyAction(Key({}, NamedKeys.ENTER)), 1)
          [] c = "\t" -> Ok(KeyAction(Key({}, NamedKeys.TAB)), 1)
          [] c = "lbrace"  -> OpenBrace(s, i)
          [] c = "rbrace"  -> IF Doubled(s, i) THEN Ok(KeyAction(Printable["rbrace"]), 2)
                         ELSE Fail("MACRO_SYNTAX")
          [] c \in DOMAIN Printable \ {"lbrace", "rbrace"} -> Ok(KeyAction(Printable[c]), 1)
          [] c \notin DOMAIN Printable \cup {"\r", "\n", "\t"} -> Fail("MACRO_SYNTAX")

Elements(seq) == {seq[i] : i \in DOMAIN seq}

\* v2_merge_group_member(): each modifier and key once, and no more keys than a
\* report has room for.
MergeMember(group, member) ==
    [group EXCEPT !.modifiers = @ \cup member.modifiers,
                  !.usages = @ \o member.usages,
                  !.error =
        IF \/ group.modifiers \cap member.modifiers # {}
           \/ Elements(group.usages) \cap Elements(member.usages) # {}
        THEN "MACRO_SYNTAX"
        ELSE IF Len(group.usages \o member.usages) > UsagesMax THEN "MACRO_LIMIT"
        ELSE "NONE"]

\* v2_scan_group_step(): a doubled bracket is a member, a "]" ends the group,
\* anything else is a member that is not a delay.
GroupStep(s, group) ==
    LET i == group.at
        token == NonBracketToken(s, i)
        Refused(code) == [group EXCEPT !.error = code]
        Member(action, consumed) == [MergeMember(group, action) EXCEPT !.at = i + consumed]
    IN  CASE i > Len(s) -> Refused("MACRO_SYNTAX")
          [] i <= Len(s) /\ s[i] \in {"[", "]"} /\ Doubled(s, i) ->
                Member(KeyAction(Printable[s[i]]), 2)
          [] i <= Len(s) /\ s[i] = "[" /\ ~Doubled(s, i) -> Refused("MACRO_SYNTAX")
          [] i <= Len(s) /\ s[i] = "]" /\ ~Doubled(s, i) ->
                IF group.usages = <<>> /\ group.modifiers = {}
                THEN Refused("MACRO_SYNTAX") ELSE [group EXCEPT !.done = TRUE]
          [] i <= Len(s) /\ s[i] \notin {"[", "]"} ->
                CASE token.error # "NONE" -> Refused(token.error)
                  [] token.error = "NONE" /\ token.action.type = "delay" ->
                        Refused("MACRO_SYNTAX")
                  [] OTHER -> Member(token.action, token.consumed)

\* A step of the loop, unless the group is over.
NextGroup(s, group) ==
    IF group.done \/ group.error # "NONE" THEN group ELSE GroupStep(s, group)

\* The loop of v2_scan_group_content(), from the "[" at i: the group after n steps.
GroupScan(s, i) ==
    LET after[n \in 0 .. Len(s)] ==
          IF n = 0 THEN [at |-> i + 1, modifiers |-> {}, usages |-> <<>>, done |-> FALSE,
                         error |-> "NONE"]
          ELSE NextGroup(s, after[n - 1])
    IN  after

\* v2_scan_group_content(): it ends or fails within Len(s) steps.
GroupContent(s, i) == GroupScan(s, i)[Len(s)]

\* v2_parse_next_token()
NextToken(s, i) ==
    LET group == GroupContent(s, i)
    IN  CASE s[i] \in {"[", "]"} /\ Doubled(s, i) -> Ok(KeyAction(Printable[s[i]]), 2)
          [] s[i] = "]" /\ ~Doubled(s, i) -> Fail("MACRO_SYNTAX")
          [] s[i] = "[" /\ ~Doubled(s, i) ->
                IF group.error # "NONE" THEN Fail(group.error)
                ELSE Ok([type |-> "chord", modifiers |-> group.modifiers,
                         usages |-> group.usages, delay |-> 0], group.at + 1 - i)
          [] OTHER -> NonBracketToken(s, i)

-----------------------------------------------------------------------------
(* The compiler.                                                            *)

VARIABLES
    source, options, \* what is compiled
    offset,          \* the next character
    working,         \* the plan so far: actions, duration
    result           \* "none", or the error code returned
vars == <<source, options, offset, working, result>>

Init ==
    /\ source \in Sources /\ options \in Options
    /\ offset = 1 /\ working = [actions |-> <<>>, duration |-> 0] /\ result = "none"

Return(code) == result' = code /\ UNCHANGED <<source, options, offset, working>>

\* The checks before the loop: an empty source is a plan without actions.
Refused == \/ options.keyPress > TimingMax \/ options.interKey > TimingMax
           \/ Len(source) > SourceMaxBytes

Refuse ==
    /\ result = "none" /\ Refused
    /\ Return(IF options.keyPress > TimingMax \/ options.interKey > TimingMax
              THEN "INVALID_ARGUMENT" ELSE "MACRO_LIMIT")

\* calloc() of the plan may fail.
NoMemory ==
    /\ result = "none" /\ ~Refused /\ offset = 1 /\ source # <<>>
    /\ Return("INTERNAL")

Duration(timing, action) ==
    IF action.type = "delay" THEN action.delay ELSE timing.keyPress + timing.interKey

\* MUTANT of Fits: the limit is tested before the new action is counted.
FitsBefore(plan, action) ==
    /\ Len(plan.actions) <= ActionsMax
    /\ plan.duration <= DurationMax

\* v2_append_action(): one more action must leave both limits intact.
Fits(plan, action) ==
    /\ Len(plan.actions) < ActionsMax
    /\ plan.duration + Duration(options, action) <= DurationMax

\* One turn of the loop: the next token is appended, or ends the compilation.
Token ==
    /\ result = "none" /\ ~Refused /\ offset <= Len(source)
    /\ LET token == NextToken(source, offset)
       IN  \/ token.error # "NONE" /\ Return(token.error)
           \/ token.error = "NONE" /\ ~Fits(working, token.action) /\ Return("MACRO_LIMIT")
           \/ /\ token.error = "NONE" /\ Fits(working, token.action)
              /\ working' = [actions  |-> Append(working.actions, token.action),
                             duration |-> working.duration + Duration(options, token.action)]
              /\ offset' = offset + token.consumed
              /\ UNCHANGED <<source, options, result>>

\* The plan is handed out only when the source is used up.
Publish ==
    /\ result = "none" /\ ~Refused /\ offset > Len(source)
    /\ Return("NONE")

Next == Refuse \/ NoMemory \/ Token \/ Publish
Spec == Init /\ [][Next]_vars

-----------------------------------------------------------------------------
(* The language, from SPEC_V2 7.5 to 7.9: what text each action may have.   *)
(* A reading of a source is a sequence of actions whose texts make it up.   *)

Values(digits) ==
    LET after[n \in 0 .. Len(digits)] ==
          IF n = 0 THEN 0 ELSE after[n - 1] * 10 + Digits[digits[n]]
    IN  after

Value(digits) == Values(digits)[Len(digits)]

\* The single actions that a text denotes, at most one.
Single(text) ==
    LET inner == SubSeq(text, 2, Len(text) - 1)
        number == SubSeq(inner, Len(DelayPrefix) + 1, Len(inner))
        braced == Len(text) > 2 /\ text[1] = "lbrace" /\ text[Len(text)] = "rbrace"
        brackets == {"lbrace", "rbrace", "[", "]"}
    IN  (IF Len(text) = 1 /\ text[1] \in DOMAIN Printable \ brackets
         THEN {KeyAction(Printable[text[1]])} ELSE {})
        \cup {KeyAction(Printable[c]) : c \in {d \in brackets : text = <<d, d>>}}
        \cup (IF text \in {<<"\n">>, <<"\r", "\n">>}
              THEN {KeyAction(Key({}, NamedKeys.ENTER))} ELSE {})
        \cup (IF text = <<"\t">> THEN {KeyAction(Key({}, NamedKeys.TAB))} ELSE {})
        \cup (IF braced /\ inner \in DOMAIN NameOf
              THEN {KeyAction(NamedDirective(NameOf[inner]))} ELSE {})
        \cup (IF /\ braced /\ StartsWith(inner, DelayPrefix) /\ number # <<>>
                 /\ \A i \in DOMAIN number : number[i] \in DOMAIN Digits
                 /\ Value(number) \in 1 .. DelayMax
              THEN {[NoAction EXCEPT !.type = "delay", !.delay = Value(number)]} ELSE {})

\* The sequences of actions that the characters k .. j can be cut into, for each k
\* from i on, when those from k to m mean one of means[k][m].
Cuts(means, i, j) ==
    LET from[k \in i .. j + 1] ==
          IF k = j + 1 THEN {<<>>}
          ELSE UNION {UNION {{<<action>> \o rest : rest \in from[m + 1]} :
                             action \in means[k][m]} : m \in k .. j}
    IN  from

Singles(s) == [i \in 1 .. Len(s) |-> [j \in 1 .. Len(s) |-> Single(SubSeq(s, i, j))]]

\* Actions up to the order in which a chord lists its keys.
Press(action) == [held |-> action.modifiers, keys |-> Elements(action.usages),
                  delay |-> action.delay]

Presses(actions) == [x \in DOMAIN actions |-> Press(actions[x])]

\* Members that can be held together: no delay, nothing twice, not too many keys.
Keys(members) == {x \in DOMAIN members : members[x].usages # <<>>}
Together(members) ==
    /\ \A x \in DOMAIN members : members[x].type # "delay"
    /\ \A x, y \in DOMAIN members : x # y =>
          /\ members[x].modifiers \cap members[y].modifiers = {}
          /\ members[x].usages = <<>> \/ members[x].usages # members[y].usages
    /\ Cardinality(Keys(members)) <= UsagesMax

\* The chords of the bracketed text from i to j.
Chords(s, i, j) ==
    IF i + 1 >= j \/ s[i] # "[" \/ s[j] # "]" THEN {}
    ELSE {[held  |-> UNION {members[x].modifiers : x \in DOMAIN members},
           keys  |-> {members[x].usages[1] : x \in Keys(members)},
           delay |-> 0] : members \in {m \in Cuts(Singles(s), i + 1, j - 1)[i + 1] : Together(m)}}

Denoted(s) == [i \in 1 .. Len(s) |-> [j \in 1 .. Len(s) |->
                  {Press(a) : a \in Single(SubSeq(s, i, j))} \cup Chords(s, i, j)]]

Readings(s) == Cuts(Denoted(s), 1, Len(s))[1]

-----------------------------------------------------------------------------
(* Properties.                                                              *)

\* A plan is only handed out for a source of the language, and types what the
\* language says: the keys held together, in the order of the text
\* (macro_compile_v2(), SPEC_V2 7.5-7.9).
PlanIsAReading ==
    result = "NONE" => Presses(working.actions) \in Readings(source)

\* Three brackets in a row have two readings; the compiler takes the first pair.
Ambiguous(text) == \E i \in 1 .. Len(text) - 2 :
    text[i] \in {"[", "]"} /\ text[i + 1] = text[i] /\ text[i + 2] = text[i]

\* A directive that does not fit the buffer: a delay with many leading zeros.
LongDirective(text) == \E i, j \in DOMAIN text :
    /\ text[i] = "lbrace" /\ text[j] = "rbrace" /\ j > i + DirectiveBytes
    /\ \A k \in i + 1 .. j - 1 : text[k] # "rbrace"

\* A source is refused as wrong only when the language does not have it.  There are
\* two exceptions: with three brackets in a row, "]]]" ends no chord and begins no
\* literal (v2_scan_group_step() looks for the pair first), and a directive must
\* fit its buffer (v2_parse_directive()).
RefusedOnlyIfInvalid ==
    result = "MACRO_SYNTAX" =>
        Ambiguous(source) \/ LongDirective(source) \/ Readings(source) = {}

\* The time that the first n actions take.
Totals(timing, actions) ==
    LET total[n \in 0 .. Len(actions)] ==
          IF n = 0 THEN 0 ELSE total[n - 1] + Duration(timing, actions[n])
    IN  total

\* The estimate is the time the actions take, and neither it nor their number ever
\* passes its limit, in a refused compilation either (v2_append_action()).
LimitsHold ==
    /\ Len(working.actions) <= ActionsMax
    /\ working.duration = Totals(options, working.actions)[Len(working.actions)]
    /\ working.duration <= DurationMax
    /\ \A i \in DOMAIN working.actions : Len(working.actions[i].usages) <= UsagesMax

=============================================================================
