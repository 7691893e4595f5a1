---------------------------- MODULE CliTemplate ----------------------------
(***************************************************************************)
(* dbb-cli (src/src/dbb_cli.cpp): one call of main, which looks a command  *)
(* up in vCommands, replaces the %variables% of its json text by arguments *)
(* or defaults, and sends the result; and the help, which lists the        *)
(* variables with a scan of its own.                                       *)
(*                                                                         *)
(* Texts are sequences of cells.  "%", "|" and "!" are themselves; every   *)
(* other character is a "." of the template or belongs to a word, whose    *)
(* first cell names it and whose other cells are "_".  So texts keep their *)
(* length and the places of what the scan looks for.  Positions count from *)
(* 0 as in the code.                                                       *)
(***************************************************************************)
EXTENDS Integers, SequencesExt

CONSTANTS Values,      \* the texts that an argument may have as its value
          Passwords    \* those that -password may have

VARIABLES status,        \* where main is, or how it ended
          cmd,           \* the command: a name of vCommands, or one of Other
          args,          \* mapArgs: from names to texts
          json,
          sI,
          tokenOpenPos,
          defaultDelimiterPos,
          defaultValue,
          printed,       \* what the help has printed of the command
          sent           \* what went to the device: a text and whether encrypted

scan == <<json, sI, tokenOpenPos, defaultDelimiterPos, defaultValue>>
input == <<cmd, args>>
vars == <<status, input, scan, printed, sent>>
-----------------------------------------------------------------------------
(***************************************************************************)
(* The dispatch table.                                                     *)
(***************************************************************************)
Word(word, length) == [i \in 1..length |-> IF i = 1 THEN word ELSE "_"]

Variable(name, default, mandatory) ==
    [name |-> name, default |-> default, mandatory |-> mandatory]

Plain(name) == Variable(name, <<>>, FALSE)
Mandatory(name) == Variable(name, <<>>, TRUE)
Default(name, value) == Variable(name, value, FALSE)

\* gaps[i] characters stand before the i-th variable, the last ones at the end.
Entry(gaps, variables, encrypted) ==
    [gaps |-> gaps, variables |-> variables, requiresEncryption |-> encrypted]

Keypath == Mandatory(Word("keypath", 7))

vCommands ==
    [erase |-> Entry(<<23>>, <<>>, FALSE),
     password |-> Entry(<<15, 2>>, <<Mandatory(Word("newpassword", 11))>>, FALSE),
     led |-> Entry(<<18>>, <<>>, TRUE),
     seed |-> Entry(<<22, 14, 12, 4>>,
                    <<Default(Word("source", 6), Word("create", 6)),
                      Default(Word("decrypt", 7), Word("no", 2)),
                      Plain(Word("salt", 4))>>, TRUE),
     backuplist |-> Entry(<<19>>, <<>>, TRUE),
     backuperase |-> Entry(<<20>>, <<>>, TRUE),
     backup |-> Entry(<<25, 15, 3>>,
                      <<Default(Word("encrypt", 7), Word("no", 2)),
                        Default(Word("filename", 8), Word("backup.dat", 10))>>, TRUE),
     sign |-> Entry(<<20, 11, 14, 21, 3>>,
                    <<Default(Word("type", 4), Word("transaction", 11)),
                      Mandatory(Word("data", 4)), Keypath,
                      Mandatory(Word("changekeypath", 13))>>, TRUE),
     xpub |-> Entry(<<11, 2>>, <<Keypath>>, TRUE),
     name |-> Entry(<<11, 2>>, <<Mandatory(Word("name", 4))>>, TRUE),
     random |-> Entry(<<13, 2>>, <<Default(Word("mode", 4), Word("true", 4))>>, TRUE),
     sn |-> Entry(<<21>>, <<>>, TRUE),
     version |-> Entry(<<22>>, <<>>, TRUE),
     lock |-> Entry(<<19>>, <<>>, TRUE),
     verifypass |-> Entry(<<17, 2>>, <<Default(Word("operation", 9), Word("create", 6))>>,
                          TRUE),
     aes |-> Entry(<<25, 11, 3>>,
                   <<Default(Word("type", 4), Word("encrypt", 7)),
                     Mandatory(Word("data", 4))>>, TRUE)]

\* A text that starts with a brace is sent as it is.
RawJson == Word("raw", 2)
Other == {"raw", "unknown"}
Commands == DOMAIN vCommands

Variables(c) == vCommands[c].variables
Names(c) == {Variables(c)[i].name : i \in DOMAIN Variables(c)}
Password == Word("password", 8)

\* The text of command c with fills[i] in the place of its i-th variable.
Filled(c, fills) ==
    LET gap(i) == [k \in 1..vCommands[c].gaps[i] |-> "."]
    IN  gap(1) \o FlattenSeq([i \in DOMAIN fills |-> fills[i] \o gap(i + 1)])

Token(v) == <<"%">> \o (IF v.mandatory THEN <<"!">> ELSE <<>>) \o v.name
              \o (IF v.default = <<>> THEN <<>> ELSE <<"|">> \o v.default) \o <<"%">>

Template(c) == Filled(c, [i \in DOMAIN Variables(c) |-> Token(Variables(c)[i])])
-----------------------------------------------------------------------------
(***************************************************************************)
(* What the comment above vCommands promises.                              *)
(***************************************************************************)
Value(v, a) == IF v.name \in DOMAIN a THEN a[v.name] ELSE v.default

Complete(c, a) == \A i \in DOMAIN Variables(c) :
                    Variables(c)[i].mandatory => Variables(c)[i].name \in DOMAIN a

Expected(c, a) == Filled(c, [i \in DOMAIN Variables(c) |-> Value(Variables(c)[i], a)])

\* No value is shorter than its token by more than the text up to the next one.
Roomy(c, a) ==
    \A i \in 1..Len(Variables(c)) - 1 :
        LET v == Variables(c)[i]
        IN  Len(Token(v)) - Len(Value(v, a)) <= vCommands[c].gaps[i + 1]

\* No value that is longer than its token has a "%" behind that length.
ReadOnce(c, a) ==
    \A i \in DOMAIN Variables(c) :
        LET v == Variables(c)[i]
        IN  \A k \in Len(Token(v)) + 1..Len(Value(v, a)) : Value(v, a)[k] # "%"

\* Values that the scan neither skips past nor reads again.
Readable(c, a) == Roomy(c, a) /\ ReadOnce(c, a)

Blank == [text |-> <<>>, encrypted |-> FALSE]

Asked(c, a) == IF Password \notin DOMAIN a
               THEN [text |-> Expected(c, a), encrypted |-> FALSE]
               ELSE IF a[Password] = <<>>
                    THEN Blank
                    ELSE [text |-> Expected(c, a), encrypted |-> TRUE]
-----------------------------------------------------------------------------
Cells == {"%", "|", "!", ".", "_", "raw", "value", "password"}
           \cup (UNION {{Variables(c)[i].name[1] : i \in DOMAIN Variables(c)} : c \in Commands})
           \cup {"create", "no", "backup.dat", "transaction", "true", "encrypt"}

ASSUME CliAssumption == Values \subseteq Seq(Cells) /\ Passwords \subseteq Seq(Cells)

WithPassword(a, p) == [x \in DOMAIN a \cup {Password} |-> IF x = Password THEN p ELSE a[x]]

\* An argument that the command has no variable for is left out.
Arguments(c) ==
    LET chosen == UNION {[given -> Values] : given \in SUBSET Names(c)}
    IN  chosen \cup {WithPassword(a, p) : a \in chosen, p \in Passwords}

Init == /\ status \in {"main", "help"}
        /\ cmd \in Commands \cup (IF status = "main" THEN Other ELSE {})
        /\ args \in IF status = "help" \/ cmd \in Other THEN {<<>>} ELSE Arguments(cmd)
        /\ json = <<>>
        /\ sI = 0
        /\ tokenOpenPos = -1
        /\ defaultDelimiterPos = -1
        /\ defaultValue = <<>>
        /\ printed = <<>>
        /\ sent = <<>>
-----------------------------------------------------------------------------
(***************************************************************************)
(* main up to the scan.                                                    *)
(***************************************************************************)
Stop(how) == status' = how /\ UNCHANGED <<input, scan, printed>>

NoDevice == /\ status = "main"
            /\ Stop("noDevice")
            /\ UNCHANGED sent

\* The command is found in the table, or the help has come to it.
Lookup == /\ cmd \in Commands
          /\ \/ status = "main" /\ status' = "replacing"
             \/ status = "help" /\ status' = "listing"
          /\ json' = Template(cmd)
          /\ UNCHANGED <<input, sI, tokenOpenPos, defaultDelimiterPos, defaultValue,
                         printed, sent>>

\* Raw json is sent although "command not found" is printed then as well.
NotFound == /\ status = "main"
            /\ cmd \in Other
            /\ \/ Stop("notFound")
               \/ cmd = "raw" /\ Stop("aborted")
            /\ sent' = IF cmd = "raw" THEN Append(sent, [text |-> RawJson, encrypted |-> FALSE])
                                      ELSE sent
-----------------------------------------------------------------------------
(***************************************************************************)
(* The scan, one action per kind of character.                             *)
(***************************************************************************)
Scanning == status \in {"replacing", "listing"} /\ sI < Len(json)
Char == json[sI + 1]
Closing == Scanning /\ Char = "%" /\ tokenOpenPos >= 0

Pass == /\ Scanning
        /\ Char # "%"
        /\ sI' = sI + 1
        /\ defaultDelimiterPos' = IF Char = "|" /\ tokenOpenPos > 0 THEN sI
                                                                    ELSE defaultDelimiterPos
        /\ UNCHANGED <<status, input, json, tokenOpenPos, defaultValue, printed, sent>>

\* Mutant of OpenToken: the opening sign is looked at twice.
BugStayOnToken == /\ Scanning
                  /\ Char = "%"
                  /\ tokenOpenPos < 0
                  /\ tokenOpenPos' = sI
                  /\ UNCHANGED <<status, input, json, sI, defaultDelimiterPos, defaultValue,
                                 printed, sent>>

OpenToken == /\ Scanning
             /\ Char = "%"
             /\ tokenOpenPos < 0
             /\ tokenOpenPos' = sI
             /\ sI' = sI + 1
             /\ UNCHANGED <<status, input, json, defaultDelimiterPos, defaultValue, printed,
                            sent>>

\* std::string::substr
Substr(from, length) == SubSeq(json, from + 1, from + length)

var == IF defaultDelimiterPos >= 0
       THEN Substr(tokenOpenPos + 1, defaultDelimiterPos - tokenOpenPos - 1)
       ELSE Substr(tokenOpenPos + 1, sI - tokenOpenPos - 1)

IsMandatory == var # <<>> /\ var[1] = "!"
Name == IF IsMandatory THEN Tail(var) ELSE var

\* Without a delimiter the default of an earlier variable stays.
ReadDefault == IF defaultDelimiterPos >= 0
               THEN Substr(defaultDelimiterPos + 1, sI - defaultDelimiterPos - 1)
               ELSE defaultValue

CloseToken == /\ tokenOpenPos' = -1
              /\ defaultDelimiterPos' = -1
              /\ defaultValue' = ReadDefault
              /\ sI' = sI + 1

\* The token is erased and text put in its place.
Splice(text) == json' = Substr(0, tokenOpenPos) \o text \o SubSeq(json, sI + 2, Len(json))

\* Mutant of Inserted: an earlier default is good enough.
BugStaleDefault == IF Name \in DOMAIN args THEN args[Name] ELSE ReadDefault

Inserted == CASE Name \in DOMAIN args -> args[Name]
              [] Name \notin DOMAIN args /\ defaultDelimiterPos > 0 -> ReadDefault
              [] OTHER -> <<>>

\* The scan goes on at sI + 1, although the text has become longer or shorter:
\* into what was put in, or past what follows it.
Replace == /\ status = "replacing"
           /\ Closing
           /\ Name \in DOMAIN args \/ ~IsMandatory
           /\ CloseToken
           /\ Splice(Inserted)
           /\ UNCHANGED <<status, input, printed, sent>>

\* Mutant of MissingArgument: a variable without a default must be given.
BugRefusePlain == /\ status = "replacing"
                  /\ Closing
                  /\ Inserted = <<>> /\ Name \notin DOMAIN args
                  /\ Stop("missing")
                  /\ UNCHANGED sent

MissingArgument == /\ status = "replacing"
                   /\ Closing
                   /\ IsMandatory /\ Name \notin DOMAIN args
                   /\ Stop("missing")
                   /\ UNCHANGED sent

\* Mutant of List: the delimiter is not reset.
BugKeepDelimiter == /\ status = "listing"
                    /\ Closing
                    /\ tokenOpenPos' = -1
                    /\ defaultValue' = ReadDefault
                    /\ sI' = sI + 1
                    /\ printed' = Append(printed,
                                   [name |-> Name, default |-> ReadDefault,
                                    mandatory |-> ReadDefault = <<>> /\ IsMandatory])
                    /\ UNCHANGED <<status, input, json, defaultDelimiterPos, sent>>

\* The help: with a default, as mandatory, or as it is, in this order.
List == /\ status = "listing"
        /\ Closing
        /\ CloseToken
        /\ printed' = Append(printed, [name |-> Name, default |-> ReadDefault,
                                       mandatory |-> ReadDefault = <<>> /\ IsMandatory])
        /\ UNCHANGED <<status, input, json, sent>>
-----------------------------------------------------------------------------
(***************************************************************************)
(* main after the scan.                                                    *)
(***************************************************************************)
Listed == /\ status = "listing"
          /\ ~Scanning
          /\ Stop("listed")
          /\ UNCHANGED sent

Replaced == status = "replacing" /\ ~Scanning
Encrypts == vCommands[cmd].requiresEncryption \/ Password \in DOMAIN args

NeedsPassword == /\ Replaced
                 /\ Encrypts /\ Password \notin DOMAIN args
                 /\ Stop("needsPassword")
                 /\ UNCHANGED sent

\* With an empty password encryptAndEncodeCommand does nothing, and nobody looks
\* at what it returns: the report is blank.
Outgoing == IF Encrypts /\ args[Password] = <<>>
            THEN Blank
            ELSE [text |-> json, encrypted |-> Encrypts]

\* sendCommand may throw, outside of the try block; of an encrypted answer
\* that cannot be decrypted only the reason is printed.
Send == /\ Replaced
        /\ Encrypts => Password \in DOMAIN args
        /\ sent' = Append(sent, Outgoing)
        /\ \/ Stop("answered")
           \/ Stop("aborted")
           \/ Encrypts /\ Stop("undecryptable")

Final == {"noDevice", "notFound", "missing", "listed", "needsPassword", "answered",
          "aborted", "undecryptable"}

Finished == status \in Final /\ UNCHANGED vars

Next == \/ NoDevice \/ Lookup \/ NotFound
        \/ Pass \/ OpenToken \/ Replace \/ MissingArgument \/ List
        \/ Listed \/ NeedsPassword \/ Send
        \/ Finished

Spec == Init /\ [][Next]_vars
-----------------------------------------------------------------------------
(***************************************************************************)
(* Properties.                                                             *)
(***************************************************************************)
\* The types of the local variables of main.
TypeOK == /\ status \in Final \cup {"main", "help", "replacing", "listing"}
          /\ cmd \in Commands \cup Other
          /\ json \in Seq(Cells)
          /\ sI \in Nat
          /\ tokenOpenPos \in Nat \cup {-1}
          /\ defaultDelimiterPos \in Nat \cup {-1}
          /\ tokenOpenPos < sI
          /\ Len(printed) <= 4
          /\ Len(sent) <= 1

\* What is sent for a command of the table is its text with every %variable%
\* replaced by its argument or else by its default ("%var% will be replace
\* with a corresponding command line agrument", lines 54-57), encrypted if a
\* password was given; nothing is sent without a mandatory argument (line 58).
\* All that needs Readable values, and with an empty password the report is
\* blank.  Whatever the values are, a command that requires encryption never
\* goes out in the clear.
SendsWhatWasAsked ==
    cmd \in Commands /\ sent # <<>>
      => /\ vCommands[cmd].requiresEncryption => sent[1].encrypted \/ sent[1] = Blank
         /\ Readable(cmd, args) => Complete(cmd, args) /\ sent[1] = Asked(cmd, args)

\* With Readable values a command is refused for a mandatory argument only if
\* one is missing.
RefusesOnlyIncomplete ==
    status = "missing" /\ Readable(cmd, args) => ~Complete(cmd, args)

\* The help names every variable of the command, in order, and shows the
\* default of each that has one.
HelpIsComplete ==
    status = "listed"
      => /\ Len(printed) = Len(Variables(cmd))
         /\ \A i \in DOMAIN printed :
              LET v == Variables(cmd)[i]
              IN  /\ printed[i].name = v.name
                  /\ v.default # <<>> => printed[i].default = v.default
=============================================================================
