------------------------------ MODULE Console ------------------------------
(***************************************************************************)
(* The console of one session (TcpShell/console.c): line input on top of   *)
(* the telnet parser, the tokenizer and the environment, with the          *)
(* applications that use them (logon, shell, set) and the loop of          *)
(* ConnectionThread that runs one application after another.               *)
(*                                                                         *)
(* The line of logon is read byte by byte.  A command line is read by the  *)
(* same code with a larger buffer; it is taken here in one step, as any    *)
(* line over CommandChars.  Characters keep their identity, strings are    *)
(* sequences of characters without the terminator.                         *)
(***************************************************************************)
EXTENDS TelnetParser, Integers, SequencesExt

CONSTANTS
    UserLen,      \* MAX_USERNAME_LEN, the size of logon's buffer
    CommandLen,   \* MAX_ARGUMENTS_LEN, the size of the shell's buffer
    NameLen,      \* MAX_ENV_LEN, the size of the field for a name
    ValueLen,     \* MAX_USERENVIROMNENT_LEN, the size of the field for a value
    MaxArgv,      \* MAX_ARGV
    EnvUser,      \* ENV_USERNAME
    EnvError,     \* ENV_ERROR
    AppOf,        \* app_list: the command names and what they run
    ExitCode,     \* the strings itoa makes of 0 and of an error
    OtherChars,   \* characters of these names and codes that nobody types here
    CommandChars, \* characters a command line is made of
    MaxBytes,     \* bound on the bytes that arrive for logon,
    MaxAgain,     \* and on those for a logon that is run as a command
    MaxNodes,     \* memory: how many variables the heap holds
    MaxCommands   \* bound on the commands that run

ASSUME SizesAssumption ==
    /\ UserLen \in Nat \ {0} /\ CommandLen \in Nat \ {0} /\ NameLen \in Nat \ {0}
    /\ ValueLen \in Nat \ {0} /\ MaxArgv \in Nat \ {0} /\ MaxBytes \in Nat /\ MaxAgain \in Nat
    /\ MaxNodes \in Nat /\ MaxCommands \in Nat
ASSUME NamesFitAssumption == Len(EnvUser) < NameLen /\ Len(EnvError) < NameLen
ASSUME CharsAssumption ==
    /\ CommandChars \subseteq Byte
    /\ EnvUser \in Seq(Byte \cup OtherChars) /\ EnvError \in Seq(Byte \cup OtherChars)
    /\ ExitCode \in [{0, -1} -> Seq(Byte \cup OtherChars)]
ASSUME AppsAssumption == \A n \in DOMAIN AppOf : AppOf[n] \in {"logon", "shell", "set", "other"}

VARIABLES
    telnet,   \* context->telnet, the parser
    rx,       \* bytes that arrived since console_getline was called
    gaveUp,   \* those at which the parser gave a subnegotiation up
    typed,    \* characters console_getchar returned since then
    negos,    \* negotiations handed to _negotiate since then
    line,     \* the buffer of console_getline
    off,      \* how far it is filled
    pc,       \* where the session is
    next_app, \* context->next_app; "shell" stands for NULL
    argv,     \* context->argv, as the strings it points to
    cmdline,  \* the command line that was read (for the properties)
    rc,       \* what the application returned: 0 or -1
    env,      \* context->env: the list of variables, first one first
    call,     \* the last call of console_setenv or console_getenv
    commands  \* number of commands read

inputVars == <<telnet, rx, gaveUp, typed, negos, line, off>>
vars == <<telnet, rx, gaveUp, typed, negos, line, off, pc, next_app, argv, cmdline,
          rc, env, call, commands>>

Pc == {"getline", "logged_on", "set_error", "run", "overrun"}
App == {"logon", "shell", "set", "other"}
EmptyLine == [i \in 1 .. UserLen |-> "NUL"]

\* A string in memory: what comes before its terminator
Chars(s) == IF \E i \in DOMAIN s : s[i] = "NUL"
              THEN SubSeq(s, 1, SelectInSeq(s, LAMBDA c : c = "NUL") - 1)
              ELSE s

\* strncpy into a field of n characters; if the field is full, there is no
\* terminator
Field(s, n) == SubSeq(s, 1, IF Len(s) < n THEN Len(s) ELSE n)

-----------------------------------------------------------------------------
(***************************************************************************)
(* The environment: a list of nodes, each with a field for the name and    *)
(* one for the value.  Names are compared with strcmp, which reads on past *)
(* a field that is full: from the name into the value and from there into  *)
(* the pointer to the next node (NULL ends the string).                    *)
(***************************************************************************)
NameAsRead(list, k) ==
    IF Len(list[k].name) < NameLen THEN list[k].name
    ELSE list[k].name \o list[k].value \o
           (IF Len(list[k].value) = ValueLen /\ k < Len(list) THEN <<"pointer">> ELSE << >>)

\* mutant: only as many characters are compared as the node's name has
MatchesPrefix(list, n) == {k \in DOMAIN list : IsPrefix(list[k].name, n)}

Matches(list, n) == {k \in DOMAIN list : NameAsRead(list, k) = n}
FirstMatch(list, n) == CHOOSE k \in Matches(list, n) : \A j \in Matches(list, n) : k <= j

\* console_setenv, with a value (no caller passes NULL): what it returns and
\* the list after it.
SetEnv(list, n, v) ==
    IF Matches(list, n) # {}
      THEN [rc |-> 0, env |-> [list EXCEPT ![FirstMatch(list, n)].value = Field(v, ValueLen)]]
    ELSE IF Len(list) < MaxNodes
      THEN [rc |-> 0, env |-> <<[name |-> Field(n, NameLen), value |-> Field(v, ValueLen)]>> \o list]
    ELSE [rc |-> -1, env |-> list]

CallSetEnv(n, v) ==
    /\ env' = SetEnv(env, n, v).env
    /\ call' = [op |-> "set", name |-> n, value |-> v, rc |-> SetEnv(env, n, v).rc]

\* console_getenv
CallGetEnv(n) ==
    /\ call' = IF Matches(env, n) # {}
                 THEN [op |-> "get", name |-> n, rc |-> 0,
                       value |-> env[FirstMatch(env, n)].value]
                 ELSE [op |-> "get", name |-> n, rc |-> -1]
    /\ UNCHANGED env

-----------------------------------------------------------------------------
(***************************************************************************)
(* console_tokenize.  Its two nested loops are one pass over the line:     *)
(* "spaces" is the inner loop.  The outer loop's increment then steps over *)
(* the first character of the next argument, which is never examined; and  *)
(* spaces at the end leave start where it was, so that the last argument   *)
(* comes twice.                                                            *)
(***************************************************************************)
ScanStart == [argv |-> << >>, start |-> 1, escape |-> FALSE, spaces |-> FALSE, zeros |-> {}]

\* mutant: escapeNext is not reset
ScanStuckEscape(l, s, i) ==
    IF s.spaces
      THEN IF l[i] = "SP" THEN [s EXCEPT !.zeros = @ \cup {i}]
           ELSE [s EXCEPT !.argv = Append(@, s.start), !.start = i, !.spaces = FALSE]
    ELSE IF l[i] = "CARET" THEN [s EXCEPT !.escape = TRUE]
    ELSE IF s.escape THEN s
    ELSE IF l[i] = "SP" THEN [s EXCEPT !.spaces = TRUE, !.zeros = @ \cup {i}]
    ELSE s

Scan(l, s, i) ==
    IF s.spaces
      THEN IF l[i] = "SP" THEN [s EXCEPT !.zeros = @ \cup {i}]
           ELSE [s EXCEPT !.argv = Append(@, s.start), !.start = i, !.spaces = FALSE]
    ELSE IF l[i] = "CARET" THEN [s EXCEPT !.escape = TRUE]
    ELSE IF s.escape THEN [s EXCEPT !.escape = FALSE]
    ELSE IF l[i] = "SP" THEN [s EXCEPT !.spaces = TRUE, !.zeros = @ \cup {i}]
    ELSE s

Scans(l) ==
    LET scan[i \in 0 .. Len(l)] == IF i = 0 THEN ScanStart ELSE Scan(l, scan[i - 1], i)
    IN  scan

Tokenize(l) ==
    LET s == Scans(l)[Len(l)]
        starts == (IF s.spaces THEN Append(s.argv, s.start) ELSE s.argv) \o <<s.start>>
        end(a) == CHOOSE e \in a .. Len(l) + 1 :
                     /\ e = Len(l) + 1 \/ e \in s.zeros
                     /\ \A j \in a .. e - 1 : j \notin s.zeros
    IN  [k \in DOMAIN starts |-> SubSeq(l, starts[k], end(starts[k]) - 1)]

-----------------------------------------------------------------------------
(***************************************************************************)
(* console_getline.                                                        *)
(***************************************************************************)

\* mutant: '\r' is kept
StoredCR(ch) ==
    IF ch = "BS" THEN off' = off - 1 /\ UNCHANGED line
    ELSE line' = [line EXCEPT ![off + 1] = IF ch = "NL" THEN "NUL" ELSE ch] /\ off' = off + 1

\* The buffer after a character that was echoed
Stored(ch) ==
    IF ch = "BS" THEN off' = off - 1 /\ UNCHANGED line
    ELSE IF ch = "CR" THEN UNCHANGED <<off, line>>
    ELSE line' = [line EXCEPT ![off + 1] = IF ch = "NL" THEN "NUL" ELSE ch] /\ off' = off + 1

\* mutant: '\b' on an empty line counts
IgnoredNever(ch) == FALSE

\* '\b' on an empty line is neither echoed nor counted
Ignored(ch) == ch = "BS" /\ off = 0

\* A byte that is no character, or is ignored: read on
ReadOn == UNCHANGED <<off, line, pc, rc>>

\* A character: echo it, store it; a newline or a full buffer ends the line
Typed(ch) ==
    /\ Stored(ch)
    /\ IF ch = "NL" \/ off' = UserLen THEN pc' = "logged_on" ELSE UNCHANGED pc
    /\ UNCHANGED rc

\* console_putchar fails
EchoFails == pc' = "set_error" /\ rc' = -1 /\ UNCHANGED <<off, line>>

\* console_getchar: one byte of the netbuf through the parser
GetByte(b) ==
    /\ pc = "getline" /\ Len(rx) < (IF commands = 0 THEN MaxBytes ELSE MaxAgain)
    /\ rx' = Append(rx, b)
    /\ \E r \in Process(telnet, b) :
          /\ telnet' = r.telnet
          /\ gaveUp' = IF r.fail THEN gaveUp \cup {Len(rx')} ELSE gaveUp
          /\ typed' = IF r.data THEN Append(typed, b) ELSE typed
          /\ negos' = IF r.nego = << >> THEN negos ELSE Append(negos, r.nego)
          /\ IF r.data /\ ~Ignored(b) THEN Typed(b) \/ EchoFails ELSE ReadOn
    /\ UNCHANGED <<next_app, argv, cmdline, env, call, commands>>

\* netconn_recv fails
RecvFails ==
    /\ pc = "getline" /\ pc' = "set_error" /\ rc' = -1
    /\ UNCHANGED <<inputVars, next_app, argv, cmdline, env, call, commands>>

-----------------------------------------------------------------------------
(***************************************************************************)
(* The applications.  What was recorded of a line is forgotten when the    *)
(* line has been used, and so is what the next one overwrites before it is *)
(* read: the parser's option and position, the arguments without a command.*)
(***************************************************************************)
Forgotten(t) == IF t.state = "DATA" THEN [FreshParser EXCEPT !.size = t.size] ELSE t
ForgetLine ==
    /\ telnet' = Forgotten(telnet)
    /\ rx' = << >> /\ gaveUp' = {} /\ typed' = << >> /\ negos' = << >>
    /\ line' = EmptyLine /\ off' = 0
ForgetArguments ==
    IF next_app = "shell" THEN argv' = << >> /\ cmdline' = << >> ELSE UNCHANGED <<argv, cmdline>>

\* The rest of LogonAppRun
Logon ==
    /\ pc = "logged_on" /\ pc' = "set_error"
    /\ CallSetEnv(EnvUser, Chars(line))
    /\ rc' = call'.rc
    /\ ForgetLine /\ UNCHANGED <<next_app, argv, cmdline, commands>>

\* mutant: only failures are recorded
LoopSetErrorFailed ==
    /\ pc = "set_error" /\ pc' = "run"
    /\ IF rc = 0 THEN UNCHANGED <<env, call>> ELSE CallSetEnv(EnvError, ExitCode[rc])
    /\ ForgetLine /\ ForgetArguments /\ UNCHANGED <<next_app, rc, commands>>

\* The loop of ConnectionThread after an application: its exit code becomes a
\* variable
LoopSetError ==
    /\ pc = "set_error" /\ pc' = "run"
    /\ CallSetEnv(EnvError, ExitCode[rc])
    /\ ForgetLine /\ ForgetArguments /\ UNCHANGED <<next_app, rc, commands>>

\* The command lines that fit the shell's buffer, and what becomes of them
Lines == UNION {[1 .. n -> CommandChars] : n \in 0 .. CommandLen - 1}
Tokens == [l \in Lines |-> Tokenize(l)]

\* The shell's lookup; a name that is not found leaves next_app NULL
LookUp(args) ==
    /\ argv' = args
    /\ next_app' = IF args[1] \in DOMAIN AppOf THEN AppOf[args[1]] ELSE "shell"

\* console_tokenize stops at the size of command_line, not at that of argv: the
\* pointers that argv has no room for are stored over the line itself, its
\* first word before the rest.  argc is some number above MaxArgv then, nothing
\* is known of the texts, and which command the shell finds, if any, depends on
\* addresses.
LostTexts == [k \in 1 .. MaxArgv + 1 |-> << >>]
PastArgv ==
    /\ argv' = LostTexts
    /\ next_app' \in {"shell"} \cup {AppOf[n] : n \in DOMAIN AppOf}

\* ShellAppRun: the line read, cut and looked up.  The telnet commands that
\* came with it have been processed; of the parser only the buffer remains.
Shell ==
    /\ pc = "run" /\ next_app = "shell" /\ commands < MaxCommands
    /\ \E l \in Lines :
          /\ cmdline' = l
          /\ \/ Len(Tokens[l]) <= MaxArgv /\ LookUp(Tokens[l])
             \/ Len(Tokens[l]) > MaxArgv /\ PastArgv
    /\ pc' = "set_error" /\ rc' = 0 /\ commands' = commands + 1
    /\ telnet' = [FreshParser EXCEPT !.size = telnet.size]
    /\ UNCHANGED <<rx, gaveUp, typed, negos, line, off, env, call>>

\* console_getline fails
ShellFails ==
    /\ pc = "run" /\ next_app = "shell" /\ pc' = "set_error" /\ rc' = -1
    /\ UNCHANGED <<inputVars, next_app, argv, cmdline, env, call, commands>>

\* The buffer is full before the line ends: it has no terminator, and what
\* console_tokenize reads after it depends on the stack.  Or the pointers fill
\* command_line (50 of them do) and the next are stored over context->env and
\* what comes after the context.  The model ends here.
ShellOverrun ==
    /\ pc = "run" /\ next_app = "shell" /\ pc' = "overrun"
    /\ UNCHANGED <<inputVars, next_app, argv, cmdline, rc, env, call, commands>>

\* An application is over; the next one is the shell
Runs(app) == pc = "run" /\ next_app = app /\ next_app' = "shell"
Done == UNCHANGED <<inputVars, commands>> /\ cmdline' = << >> /\ argv' = << >>

\* SetAppRun: a failure of console_getenv or console_setenv is not reported
SetDump ==
    /\ Runs("set") /\ Len(argv) = 1
    /\ pc' = "set_error" /\ rc' = 0 /\ UNCHANGED <<env, call>> /\ Done

SetShow ==
    /\ Runs("set") /\ Len(argv) = 2
    /\ CallGetEnv(argv[2])
    /\ pc' = "set_error" /\ rc' = 0 /\ Done

SetAssign ==
    /\ Runs("set") /\ Len(argv) = 3
    /\ CallSetEnv(argv[2], argv[3])
    /\ pc' = "set_error" /\ rc' = 0 /\ Done

SetInvalid ==
    /\ Runs("set") /\ Len(argv) > 3
    /\ pc' = "set_error" /\ rc' = -1 /\ UNCHANGED <<env, call>> /\ Done

\* A command that does not touch what is modelled here
OtherApp ==
    /\ Runs("other")
    /\ pc' = "set_error" /\ rc' \in {0, -1} /\ UNCHANGED <<env, call>> /\ Done

\* logon is a command too: its buffer is cleared and read into
LogonAgain ==
    /\ Runs("logon") /\ pc' = "getline"
    /\ UNCHANGED <<rc, env, call>> /\ Done

Init ==
    /\ telnet = FreshParser /\ rx = << >> /\ gaveUp = {} /\ typed = << >> /\ negos = << >>
    /\ line = EmptyLine /\ off = 0
    /\ pc = "getline" /\ next_app = "shell" /\ argv = << >> /\ cmdline = << >>
    /\ rc = 0 /\ env = << >> /\ call = [op |-> "none"] /\ commands = 0

\* Bytes worth distinguishing in a state of the parser
BytesIn(state) ==
    IF state = "DATA" THEN Letters \cup {"BS", "CR", "NL", "NUL", "IAC"}
    ELSE IF state = "SB" THEN Letters \cup Option
    ELSE Letters \cup {"IAC", "SB", "SE", "WILL"}

Input == \E b \in BytesIn(telnet.state) : GetByte(b)
Run == SetDump \/ SetShow \/ SetAssign \/ SetInvalid \/ OtherApp \/ LogonAgain

Next ==
    \/ Input
    \/ RecvFails
    \/ Logon
    \/ LoopSetError
    \/ Shell
    \/ ShellFails
    \/ ShellOverrun
    \/ Run

Spec == Init /\ [][Next]_vars

-----------------------------------------------------------------------------
(***************************************************************************)
(* Properties.                                                             *)
(***************************************************************************)
String == Seq(Byte)

\* A node's fields, as strncpy leaves them
Char == Byte \cup OtherChars
Node == [name : {n \in Seq(Char) : Len(n) <= NameLen}, value : {v \in Seq(Char) : Len(v) <= ValueLen}]

\* The variables have their types; the line never outgrows its buffer, nor a
\* subnegotiation the parser's, a name or a value its field, the list the heap
TypeOK ==
    /\ telnet \in Parser /\ telnet.pos <= telnet.size /\ rx \in String /\ gaveUp \subseteq 1 .. Len(rx) /\ typed \in String
    /\ negos \in Seq(Negotiation \X Byte) /\ line \in [1 .. UserLen -> Byte] /\ off \in 0 .. UserLen
    /\ pc \in Pc /\ next_app \in App /\ argv \in Seq(String) /\ cmdline \in String
    /\ rc \in {0, -1} /\ env \in Seq(Node) /\ Len(env) <= MaxNodes /\ commands \in 0 .. MaxCommands

\* However the stream is cut into bytes and calls, console_getchar returns the
\* characters of the stream, all of them and nothing of the telnet commands,
\* and _negotiate sees every negotiation once and in order.  (A subnegotiation
\* of MCCP version 1 or of ENVIRON is excluded: see OnSBData, OnSBDataIAC.)
Decoded ==
    SpecialOption(rx) \/ (typed = TextOf(rx, gaveUp) /\ negos = NegotiationsOf(rx, gaveUp))

\* '\b' takes back the character before it, like a closing bracket its opening
\* one; the rest of the text t without '\r' is the line.
Printing(t, i) == t[i] \notin {"BS", "CR", "NL"}
Opened(t, i, j) == Cardinality({k \in i .. j : Printing(t, k)})
Closed(t, i, j) == Cardinality({k \in i .. j : t[k] = "BS"})
Erases(t, i, j) ==
    /\ t[j] = "BS"
    /\ Opened(t, i, j) = Closed(t, i, j)
    /\ \A k \in i .. j - 1 : Opened(t, i, k) > Closed(t, i, k)
Remaining(t) == {i \in DOMAIN t : Printing(t, i) /\ \A j \in i + 1 .. Len(t) : ~Erases(t, i, j)}

\* The name that logon stores is what the user typed and did not take back, up
\* to the first NUL (a client that sends CR NUL for the end of a line cuts it
\* there), also when the buffer fills up before the line ends.
LineEdited ==
    pc = "logged_on" =>
        Chars(line) = Chars(At(typed, InOrder(Remaining(typed), Len(typed))))

\* Arguments are separated by the spaces without a '^' before them.  This is
\* what console_tokenize makes of a line that does not end in a space and in
\* which no argument but the first starts with '^'.
Separators(l) == {i \in DOMAIN l : l[i] = "SP" /\ (i = 1 \/ l[i - 1] # "CARET")}
Plain(l) ==
    /\ l = << >> \/ Len(l) \notin Separators(l)
    /\ \A i \in DOMAIN l : l[i] = "CARET" => i - 1 \notin Separators(l)
Firsts(l) == {i \in DOMAIN l : i \notin Separators(l) /\ i - 1 \in Separators(l) \cup {0}}
LastOf(l, a) == CHOOSE e \in a .. Len(l) :
                    a .. e \cap Separators(l) = {} /\ e + 1 \in Separators(l) \cup {Len(l) + 1}
Arguments(l) ==
    LET from == InOrder(Firsts(l), Len(l))
        found == [k \in DOMAIN from |-> SubSeq(l, from[k], LastOf(l, from[k]))]
    IN  IF l = << >> \/ 1 \in Separators(l) THEN << << >> >> \o found ELSE found

\* A plain command line of no more arguments than argv has room for reaches
\* its command as its arguments
Tokenized ==
    pc = "set_error" /\ argv # << >> /\ Plain(cmdline) =>
        LET args == Arguments(cmdline)
        IN  Len(args) <= MaxArgv => argv = args

\* Between two applications the variable ERROR tells how the last one ended,
\* also when the user has assigned to it
LastExitCode ==
    pc = "run" /\ Matches(env, EnvError) # {} =>
        env[FirstMatch(env, EnvError)].value = Field(ExitCode[rc], ValueLen)

\* The list as a map: the names that fit, each with the value found first
EnvAsMap ==
    [n \in {m \in {NameAsRead(env, k) : k \in DOMAIN env} : Len(m) < NameLen} |->
        env[FirstMatch(env, n)].value]

EnvMapInstance == INSTANCE EnvMap WITH map <- EnvAsMap

\* The list of variables implements a map: console_setenv assigns one name and
\* leaves the others alone, never fails for a name that is there, and
\* console_getenv returns what was assigned last, whatever names that do not fit
\* their field are in the list and however many arguments a line has, short of
\* those whose pointers reach context->env itself (ShellOverrun).
EnvIsMap == EnvMapInstance!Spec
=============================================================================
