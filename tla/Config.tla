------------------------------- MODULE Config -------------------------------
(***************************************************************************)
(* How both programs get their configuration: readClientConfig and         *)
(* readConfig, with the part of SimpleIni they use.  A start reads         *)
(* config.ini beside the executable when it exists; otherwise it writes    *)
(* one from the struct's defaults and reads the values back from memory.   *)
(* The user may write the file before the first start, and the program may *)
(* be killed while it writes it.                                           *)
(*                                                                         *)
(* A text is a sequence of tokens: one per punctuation mark, per name (of  *)
(* a section, a key, a host) and per character of a number.  One turn of   *)
(* the loop of FindEntry is one action.                                    *)
(***************************************************************************)
EXTENDS Integers, Sequences, SequencesExt, FiniteSetsExt, TLC

CONSTANTS
    Lines,        \* the lines a user may write
    MaxLines,     \* bound: lines of a file the user writes
    MaxStarts     \* bound: how often the program is started

ASSUME LinesAreTokens ==
    /\ \A l \in Lines : l \in Seq(STRING)
    /\ {MaxLines, MaxStarts} \subseteq Nat

VARIABLES
    program,   \* which of the two programs it is
    apart,     \* it is started in another directory than the executable's
    disk,      \* the two files named config.ini: text or None
    phase,     \* where the program is
    text,      \* the data that is parsed
    pos,       \* a_pData: the next token of it
    section,   \* a_pSection
    data,      \* m_data: <<section, key>> -> value
    config,    \* the configuration, in the order of the program's fields
    user,      \* ghost: the files that the user wrote
    killed,    \* ghost: the program was killed while it wrote a file
    starts     \* how often it was started

vars == <<program, apart, disk, phase, text, pos, section, data, config,
          user, killed, starts>>

parser == <<text, pos, section, data>>
ghosts == <<user, killed>>

None == <<"no file">>
NoData == [k \in {} |-> <<>>]

-----------------------------------------------------------------------------
(* The fields, in the order the code sets and reads them: section, key,    *)
(* kind, the struct's initial value, the default of the call that reads.   *)

Field(s, k, kind, initial, fallback) ==
    [section |-> <<s>>, key |-> <<k>>, kind |-> kind,
     initial |-> initial, fallback |-> fallback]

Same(s, k, kind, v) == Field(s, k, kind, v, v)

ClientFields ==
    << Same("stun", "ip", "string", <<"stun.miwifi.com">>),
       Same("stun", "port", "u16", 3478),
       Same("websocket", "server_ip", "string", <<"ws://127.0.0.1:80">>),
       Same("websocket", "max_message_size", "u32", 1048576),
       Same("websocket", "connection_timeout", "u16", 3000),
       Same("websocket", "enable_tls", "bool", FALSE),
       Same("websocket", "disable_tls_verification", "bool", FALSE),
       Same("websocket", "max_outstanding_pings", "u16", 100),
       Same("websocket", "ping_interval", "u16", 3000),
       Same("websocket", "ca_certificate_pem_file", "string", <<>>),
       Same("websocket", "certificate_pem_file", "string", <<>>),
       Same("websocket", "key_pem_file", "string", <<>>),
       Same("websocket", "key_pem_pass", "string", <<>>),
       Same("websocket", "proxy_server", "string", <<>>),
       Same("websocket", "protocols", "string", <<>>),
       Same("socks5", "bind_ip", "string", <<"0.0.0.0">>),
       Same("socks5", "bind_port", "i16", 10801),
       Same("server", "password", "string", <<>>),
       Same("server", "asio_thread_count", "i16", 4) >>

ServerFields ==
    << Field("stun", "ip", "string", <<>>, <<"stun.miwifi.com:3478">>),
       Same("stun", "port", "u16", 3478),
       Same("websocket", "bind_port", "u16", 8080),
       Same("websocket", "max_message_size", "u32", 1048576),
       Field("websocket", "connection_timeout", "u16", 10000, 30),
       Same("websocket", "enable_tls", "bool", FALSE),
       Same("websocket", "certificate_pem_file", "string", <<>>),
       Same("websocket", "key_pem_file", "string", <<>>),
       Same("websocket", "key_pem_pass", "string", <<>>),
       Same("websocket", "bind_address", "string", <<"0.0.0.0">>),
       Same("server", "password", "string", <<>>),
       Same("server", "asio_thread_count", "i32", 4) >>

Fields == IF program = "client" THEN ClientFields ELSE ServerFields

InitialValues(fields) == [i \in DOMAIN fields |-> fields[i].initial]

-----------------------------------------------------------------------------
(* Values.                                                                 *)

DigitValue ==
    ("0" :> 0) @@ ("1" :> 1) @@ ("2" :> 2) @@ ("3" :> 3) @@ ("4" :> 4) @@
    ("5" :> 5) @@ ("6" :> 6) @@ ("7" :> 7) @@ ("8" :> 8) @@ ("9" :> 9) @@
    ("a" :> 10) @@ ("b" :> 11) @@ ("c" :> 12) @@ ("d" :> 13) @@ ("e" :> 14) @@
    ("f" :> 15)

Digits(base) == {c \in DOMAIN DigitValue : DigitValue[c] < base}

\* Faulty: what follows the first digit is not looked at.
IsLongPrefix(s, base) == s # <<>> /\ s[1] \in Digits(base)

\* strtol of the whole of s: a sign, then at least one digit and nothing else.
\* Numbers are short enough never to leave the range of a long.
IsLong(s, base) ==
    LET body == IF s # <<>> /\ s[1] \in {"-", "+"} THEN Tail(s) ELSE s
    IN  body # <<>> /\ \A i \in DOMAIN body : body[i] \in Digits(base)

strtol(s, base) ==
    LET sign == IF s[1] = "-" THEN -1 ELSE 1
        body == SelectSeq(s, LAMBDA c : c \notin {"-", "+"})
    IN  sign * FoldLeft(LAMBDA n, c : n * base + DigitValue[c], 0, body)

GetValue(f, default) ==
    IF <<f.section, f.key>> \in DOMAIN data THEN data[<<f.section, f.key>>]
    ELSE default

GetLongValue(f) ==
    LET s == GetValue(f, <<>>)
        hex == Len(s) >= 2 /\ s[1] = "0" /\ s[2] = "x"
        base == IF hex THEN 16 ELSE 10
        body == IF hex THEN SubSeq(s, 3, Len(s)) ELSE s
    IN  IF IsLong(body, base) THEN strtol(body, base) ELSE f.fallback

GetBoolValue(f) ==
    LET s == GetValue(f, <<>>)
    IN  IF s = <<>> THEN f.fallback
        ELSE CASE s[1] \in {"true", "yes", "1", "on"} -> TRUE
               [] s[1] \in {"false", "no", "0", "off"} -> FALSE
               [] OTHER -> f.fallback

\* The assignment of a long to the field's type.  The 32 bits of an unsigned
\* field are written as the signed number with these bits.
Narrow(kind, n) ==
    CASE kind = "u16" -> n % 2^16
      [] kind = "i16" -> ((n + 2^15) % 2^16) - 2^15
      [] OTHER -> n

ReadField(f) ==
    CASE f.kind = "string" -> GetValue(f, f.fallback)
      [] f.kind = "bool" -> GetBoolValue(f)
      [] OTHER -> Narrow(f.kind, GetLongValue(f))

-----------------------------------------------------------------------------
(* Saving.                                                                 *)

Decimal[n \in Nat] ==
    LET d == CHOOSE c \in Digits(10) : DigitValue[c] = n % 10
    IN  IF n < 10 THEN <<d>> ELSE Append(Decimal[n \div 10], d)

\* SetValue, SetLongValue and SetBoolValue: the text a value is stored as.
Stored(f) ==
    CASE f.kind = "string" -> f.initial
      [] f.kind = "bool" -> IF f.initial THEN <<"true">> ELSE <<"false">>
      [] OTHER -> Decimal[f.initial]

\* Faulty: no line break after the value.
SavedLineUnended(f) == f.key \o <<" ", "=", " ">> \o Stored(f)

SavedLine(f) == f.key \o <<" ", "=", " ">> \o Stored(f) \o <<"nl">>

SavedHeader(f) == <<"[">> \o f.section \o <<"]", "nl">>

\* Save: every section once, its keys in the order they were set, and two
\* empty lines between two sections.
Save(fields) ==
    LET StartsSection(i) == i = 1 \/ fields[i].section # fields[i - 1].section
        Piece(i) == (IF StartsSection(i)
                     THEN (IF i = 1 THEN <<>> ELSE <<"nl", "nl">>)
                          \o SavedHeader(fields[i])
                     ELSE <<>>)
                    \o SavedLine(fields[i])
    IN  FoldLeft(LAMBDA t, i : t \o Piece(i), <<>>,
                 [i \in DOMAIN fields |-> i])

-----------------------------------------------------------------------------
(* Loading: the scanner of FindEntry.                                      *)

IsSpace(c) == c \in {" ", "nl"}

IsNewLineChar(c) == c = "nl"

IsComment(c) == c \in {";", "#"}

At(i) == IF i <= Len(text) THEN text[i] ELSE "nul"

\* The first position from i on, possibly the end, where the scan stops.
FirstFrom(i, Stop(_)) ==
    Min({j \in i..Len(text) : Stop(text[j])} \cup {Len(text) + 1})

SkipSpaces(i) == FirstFrom(i, LAMBDA c : ~IsSpace(c))

EndOfLine(i) == FirstFrom(i, IsNewLineChar)

\* The tokens from i up to but excluding j, without the spaces at the end.
Trimmed(i, j) ==
    LET Ends == {k \in i..(j - 1) : ~IsSpace(text[k])}
    IN  IF Ends = {} THEN <<>> ELSE SubSeq(text, i, Max(Ends))

\* Names are compared without case.
Lower == ("PORT" :> "port") @@ ("Stun" :> "stun")

Name(s) == [i \in DOMAIN s |-> IF s[i] \in DOMAIN Lower THEN Lower[s[i]] ELSE s[i]]

\* A section name that holds a line break; no call of Get names one.
Unreadable == <<"nl">>

\* Faulty: a key that exists keeps its value.
AddEntryOnce(s, k, v) == data' = data @@ (<<s, k>> :> v)

AddEntry(s, k, v) == data' = (<<s, k>> :> v) @@ data

-----------------------------------------------------------------------------
Init ==
    /\ program \in {"client", "server"}
    /\ apart \in BOOLEAN
    /\ disk = [exec |-> None, cwd |-> None]
    /\ phase = "stopped"
    /\ text = <<>> /\ pos = 1 /\ section = <<>> /\ data = NoData
    /\ config = <<>>
    /\ user = {} /\ killed = FALSE
    /\ starts = 0

\* The user writes a file before the first start: beside the executable, or an
\* (empty) one in the working directory, which no program reads.
UserWrites(d) ==
    /\ phase = "stopped" /\ user = {} /\ starts = 0
    /\ d = "cwd" => apart
    /\ \E n \in 0..(IF d = "cwd" THEN 0 ELSE MaxLines) : \E ls \in [1..n -> Lines] :
         disk' = [disk EXCEPT ![d] = FlattenSeq([i \in 1..n |-> ls[i] \o <<"nl">>])]
    /\ user' = {d}
    /\ UNCHANGED <<program, apart, phase, parser, config, killed, starts>>

\* main() calls readClientConfig or readConfig with a new struct.
Start ==
    /\ phase = "stopped" /\ starts < MaxStarts
    /\ starts' = starts + 1
    /\ config' = InitialValues(Fields)
    /\ data' = NoData
    /\ phase' = IF disk.exec = None THEN "create" ELSE "load"
    /\ UNCHANGED <<program, apart, disk, text, pos, section, ghosts>>

\* SaveFile("config.ini") of the client is relative to the working directory.
SavedAt == IF program = "client" /\ apart THEN "cwd" ELSE "exec"

SaveDefaults ==
    /\ phase = "create"
    /\ disk' = [disk EXCEPT ![SavedAt] = Save(Fields)]
    /\ data' = [k \in {<<Fields[i].section, Fields[i].key>> : i \in DOMAIN Fields} |->
                  Stored(CHOOSE f \in Range(Fields) : <<f.section, f.key>> = k)]
    /\ phase' = "read"
    /\ UNCHANGED <<program, apart, text, pos, section, config, ghosts, starts>>

\* fopen for writing fails: the struct keeps its initial values.
SaveFails ==
    /\ phase = "create"
    /\ phase' = "running"
    /\ UNCHANGED <<program, apart, disk, parser, config, ghosts, starts>>

\* The process dies while the file is written: a part of it is on the disk.
Killed ==
    /\ phase = "create"
    /\ killed' = TRUE
    /\ \E n \in 0..Len(Save(Fields)) :
         disk' = [disk EXCEPT ![SavedAt] = SubSeq(Save(Fields), 1, n)]
    /\ phase' = "stopped"
    /\ UNCHANGED <<program, apart, parser, config, user, starts>>

Load ==
    /\ phase = "load"
    /\ text' = disk.exec /\ pos' = 1 /\ section' = <<>>
    /\ phase' = "parse"
    /\ UNCHANGED <<program, apart, disk, data, config, ghosts, starts>>

\* The file cannot be opened or read: the struct keeps its initial values.
LoadFails ==
    /\ phase = "load"
    /\ phase' = "running"
    /\ UNCHANGED <<program, apart, disk, parser, config, ghosts, starts>>

-----------------------------------------------------------------------------
(* The turns of FindEntry.                                                 *)

Turn(c) == phase = "parse" /\ c = At(SkipSpaces(pos))

rest == <<program, apart, disk, text, config, ghosts, starts>>

SkipComment ==
    /\ \E c \in {";", "#"} : Turn(c)
    /\ pos' = EndOfLine(SkipSpaces(pos))
    /\ UNCHANGED <<rest, phase, section, data>>

\* The name starts after the spaces that follow the bracket, line breaks
\* included, and ends at the closing bracket or at the end of its line.
SectionStart == SkipSpaces(SkipSpaces(pos) + 1)
SectionEnd == FirstFrom(SectionStart, LAMBDA c : c = "]" \/ IsNewLineChar(c))

Section ==
    /\ Turn("[")
    /\ At(SectionEnd) = "]"
    /\ section' = Name(Trimmed(SectionStart, SectionEnd))
    /\ pos' = EndOfLine(SectionEnd + 1)
    /\ UNCHANGED <<rest, phase, data>>

\* The line is skipped, but a_pSection already points into it.
BrokenSection ==
    /\ Turn("[")
    /\ At(SectionEnd) # "]"
    /\ section' = Unreadable
    /\ pos' = SectionEnd
    /\ UNCHANGED <<rest, phase, data>>

KeyEnd == FirstFrom(SkipSpaces(pos), LAMBDA c : c = "=" \/ IsNewLineChar(c))

AtKey == phase = "parse" /\ At(SkipSpaces(pos)) \notin {"nul", "[", ";", "#"}

NoValue ==
    /\ AtKey
    /\ At(KeyEnd) # "="
    /\ pos' = KeyEnd
    /\ UNCHANGED <<rest, phase, section, data>>

EmptyKey ==
    /\ AtKey
    /\ At(KeyEnd) = "=" /\ KeyEnd = SkipSpaces(pos)
    /\ pos' = EndOfLine(KeyEnd)
    /\ UNCHANGED <<rest, phase, section, data>>

ValueStart == FirstFrom(KeyEnd + 1, LAMBDA c : IsNewLineChar(c) \/ ~IsSpace(c))

Entry ==
    /\ AtKey
    /\ At(KeyEnd) = "=" /\ KeyEnd > SkipSpaces(pos)
    /\ AddEntry(section, Name(Trimmed(SkipSpaces(pos), KeyEnd)),
                Trimmed(ValueStart, EndOfLine(ValueStart)))
    /\ pos' = EndOfLine(ValueStart) + 1
    /\ UNCHANGED <<rest, phase, section>>

Loaded ==
    /\ Turn("nul")
    /\ phase' = "read"
    /\ UNCHANGED <<rest, pos, section, data>>

-----------------------------------------------------------------------------
\* The calls of Get that fill the struct.
ReadValues ==
    /\ phase = "read"
    /\ config' = [i \in DOMAIN Fields |-> ReadField(Fields[i])]
    /\ phase' = "running"
    /\ UNCHANGED <<program, apart, disk, parser, ghosts, starts>>

\* The program ends; nothing writes the configuration back.
Stop ==
    /\ phase = "running"
    /\ phase' = "stopped"
    /\ UNCHANGED <<program, apart, disk, parser, config, ghosts, starts>>

readConfig ==
    \/ Start \/ SaveDefaults \/ SaveFails \/ Killed \/ Load \/ LoadFails
    \/ SkipComment \/ Section \/ BrokenSection \/ NoValue \/ EmptyKey
    \/ Entry \/ Loaded \/ ReadValues \/ Stop

Next == readConfig \/ \E d \in {"exec", "cwd"} : UserWrites(d)

Spec == Init /\ [][Next]_vars

-----------------------------------------------------------------------------
(* What a file means, line by line, without a scanner.                     *)

LineStarts(t) == {1} \cup {i + 1 : i \in {j \in DOMAIN t : t[j] = "nl"}}

\* The line that starts at i, without the spaces around it.
LineAt(t, i) ==
    LET end == Min({j \in i..Len(t) : t[j] = "nl"} \cup {Len(t) + 1})
        Solid == {j \in i..(end - 1) : t[j] # " "}
    IN  IF Solid = {} THEN <<>> ELSE SubSeq(t, Min(Solid), Max(Solid))

IsHeader(l) == l # <<>> /\ l[1] = "["

IsEntry(l) ==
    l # <<>> /\ l[1] \notin {"[", ";", "#", "="} /\ \E i \in DOMAIN l : l[i] = "="

Cut(l, i, j) == LineAt(SubSeq(l, i, j), 1)

FirstIn(l, c) == Min({i \in DOMAIN l : l[i] = c})

KeyOf(l) == Name(Cut(l, 1, FirstIn(l, "=") - 1))

ValueOf(l) == Cut(l, FirstIn(l, "=") + 1, Len(l))

\* The section of the line that starts at i: the nearest header above names it.
SectionOf(t, i) ==
    LET Headers == {j \in LineStarts(t) : j < i /\ IsHeader(LineAt(t, j))}
        l == LineAt(t, Max(Headers))
    IN  IF Headers = {} THEN <<>>
        ELSE IF \E k \in DOMAIN l : l[k] = "]"
             THEN Name(Cut(l, 2, FirstIn(l, "]") - 1))
             ELSE Unreadable

\* The values the lines of t give to a key of a section, by their place.
Assigned(t, s, k) ==
    {i \in LineStarts(t) : /\ IsEntry(LineAt(t, i))
                           /\ SectionOf(t, i) = s
                           /\ KeyOf(LineAt(t, i)) = k}

\* A bracket alone on a line takes its name from the next line.
HasLoneBracket(t) == \E i \in LineStarts(t) : LineAt(t, i) = <<"[">>

\* Once a file is loaded, a setting has the value of the last line that sets it
\* in its section, and is unset if there is none, whatever comments, blanks,
\* duplicates, repeated sections and malformed lines stand around it; an
\* unclosed header hides the lines below it (SimpleIni's FindEntry, AddEntry).
LoadsLineByLine ==
    (phase = "read" /\ text # <<>> /\ disk.exec = text /\ ~HasLoneBracket(text)) =>
        \A i \in DOMAIN Fields :
            LET s == Fields[i].section
                k == Fields[i].key
                A == Assigned(text, s, k)
            IN  IF A = {} THEN <<s, k>> \notin DOMAIN data
                ELSE /\ <<s, k>> \in DOMAIN data
                     /\ data[<<s, k>>] = ValueOf(LineAt(text, Max(A)))

IsNumeral(s) == s # <<>> /\ \A i \in DOMAIN s : s[i] \in Digits(10)

\* Not a number in any notation that is read: some character is no digit.
IsWord(s) ==
    /\ s # <<>> /\ s[1] \notin {"-", "+"} /\ ~IsNumeral(s)
    /\ Len(s) >= 2 => s[2] # "x"

\* A numeral of at most four digits in the file is the number the program
\* runs with, and a text that is no number never gives anything but the
\* default (GetLongValue and the assignment that narrows its result).
NumberIsTaken ==
    (phase = "running" /\ data # NoData) =>
        \A i \in DOMAIN Fields :
            LET f == Fields[i]
                s == GetValue(f, <<>>)
            IN  f.kind \in {"u16", "i16", "i32", "u32"} =>
                  /\ (IsNumeral(s) /\ Len(s) <= 4 /\ (s[1] = "0" => Len(s) = 1))
                       => (config[i] >= 0 /\ Decimal[config[i]] = s)
                  /\ IsWord(s) => config[i] = f.fallback

\* As long as the user writes no file, every start runs with the struct's
\* initial values, whether the file could be written and read back or not.
\* Only a kill during the write changes that: the file left behind is taken for
\* a configuration, its last value cut short and the rest set to the fallbacks
\* of the reading calls, which differ from the initial values in the server.
RestartReadsTheSame ==
    (phase = "running" /\ user = {}) =>
        \A i \in DOMAIN Fields :
            \/ config[i] = Fields[i].initial
            \/ /\ killed
               /\ \/ config[i] = Fields[i].fallback
                  \/ /\ Fields[i].kind = "string"
                     /\ config[i] = <<>>
                  \/ /\ Fields[i].kind \notin {"string", "bool"}
                     /\ IsPrefix(Decimal[config[i]], Stored(Fields[i]))
=============================================================================
