---------------------------- MODULE CppExamples ----------------------------
(***************************************************************************)
(* The example programs in C++ (examples/line_sender_cpp_example*.cpp):    *)
(* statements of module CppSender in the order of the program.  The first  *)
(* exception leaves the block: the destructors of what was made run, in    *)
(* the opposite order, and the handler returns.                            *)
(***************************************************************************)
EXTENDS CppSender

CONSTANT MaxArgs     \* bound on the arguments of a run

\* There is a variable for the buffer and one for the sender, and memory for
\* the objects that a program has at a time.
ASSUME ExamplesAssumption == Bufs # {} /\ Senders # {} /\ MaxObjects >= 2

VARIABLES
    prog,        \* the program that runs
    todo,        \* the statements that are left
    caught,      \* an exception was thrown
    sent,        \* the texts that a connection took
    status       \* "running", or the exit code

exvars == <<vars, prog, todo, caught, sent, status>>

\* The objects of the program.
sender == CHOOSE s \in Senders : TRUE
buffer == CHOOSE b \in Bufs : TRUE

Body == <<"buffer", "table", "symbol", "symbol", "column", "column", "at", "flush">>
Unwind == <<"~buffer", "~sender">>

Ecdsa == {"username", "token", "token_x", "token_y"}

Program(first, builder, needed) ==
    [code |-> <<first>> \o Body \o Unwind, builder |-> builder, needed |-> needed]

cpp_example          == Program("from_conf", Configured("tcp", {}), 0)
cpp_example_http     == Program("from_conf", Configured("http", {}), 0)
cpp_example_auth     == Program("from_conf", Configured("tcp", Ecdsa), 0)
cpp_example_auth_tls == Program("from_conf", Configured("tcps", Ecdsa), 0)
cpp_example_tls_ca   == Program("from_conf",
                                Configured("tcps", Ecdsa \cup {"tls_roots"}), 1)
\* main() of the programs that take no arguments.
cpp_example_from_conf == Program("from_literal", Configured("tcp", {}), 0)
cpp_example_from_env  == Program("from_env", Configured("tcp", {}), 0)

Programs == {cpp_example, cpp_example_http, cpp_example_auth, cpp_example_auth_tls,
             cpp_example_tls_ca, cpp_example_from_conf, cpp_example_from_env}

-----------------------------------------------------------------------------
\* displayed_help: here the argument must be equal.
displayed_help(argv) == \E i \in DOMAIN argv : argv[i] \in {"-h", "--help"}

ArgLists == UNION {[1..n -> {"-h", "-hx", "other"}] : n \in 0..MaxArgs}

\* main().
Start(p, argv) ==
    /\ SenderInit
    /\ prog = p
    /\ caught = FALSE /\ sent = <<>>
    /\ IF p.code[1] = "from_conf" /\ displayed_help(argv)
         THEN status = "0" /\ todo = <<>>
       ELSE IF Len(argv) < p.needed THEN status = "1" /\ todo = <<>>
       ELSE status = "running" /\ todo = p.code

ExInit == \E p \in Programs, argv \in ArgLists : Start(p, argv)

\* Mutant: the handler does not return false.
Goes_returns_true(threw) ==
    /\ todo' = IF threw THEN Unwind ELSE Tail(todo)
    /\ caught' = caught
    /\ status' = IF todo' = <<>> THEN "0" ELSE "running"
    /\ UNCHANGED prog

\* To the next statement, or out of the block.
Goes(threw) ==
    /\ todo' = IF threw THEN Unwind ELSE Tail(todo)
    /\ caught' = (caught \/ threw)
    /\ status' = IF todo' # <<>> THEN "running" ELSE IF caught' THEN "1" ELSE "0"
    /\ UNCHANGED prog

Statement(name) == status = "running" /\ ~ub /\ Head(todo) = name

ConfResults == {Builder(prog.builder), ConfigError}

\* A string of the arguments, which may not be UTF-8.
FromConf ==
    /\ Statement("from_conf")
    /\ \/ \E c \in ConfResults, net \in BuildNet : SenderFromConf(sender, c, net)
       \/ Leaves(utf8_view(heap, NotUtf8)) /\ UNCHANGED <<opts, snds>>
    /\ Goes(out' # Returned) /\ UNCHANGED sent

FromLiteral ==
    /\ Statement("from_literal")
    /\ \E net \in BuildNet : SenderFromConf(sender, Builder(prog.builder), net)
    /\ Goes(out' # Returned) /\ UNCHANGED sent

FromEnv ==
    /\ Statement("from_env")
    /\ \E c \in ConfResults, net \in BuildNet : SenderFromEnv(sender, c, net)
    /\ Goes(out' # Returned) /\ UNCHANGED sent

\* The buffer and the row.
FillRow ==
    /\ \/ Statement("buffer") /\ Construct(buffer, 127)
       \/ Statement("table")  /\ Table(buffer, "trades")
       \/ Statement("symbol") /\ Symbol(buffer, "trades", "text")
       \/ Statement("column") /\ ColumnF64(buffer, "trades")
       \/ Statement("at")     /\ \E t \in Times : AtNanos(buffer, t)
    /\ UNCHANGED <<opts, snds>>
    /\ Goes(out' # Returned) /\ UNCHANGED sent

FlushRow ==
    /\ Statement("flush")
    /\ \E net \in FlushNet : SenderFlush(sender, buffer, net)
    /\ sent' = IF out' = Returned THEN Append(sent, Value(bufs[buffer]).buf.output)
                                  ELSE sent
    /\ Goes(out' # Returned)

\* The destructors of what was made.
DestroyBuffer ==
    /\ Statement("~buffer")
    /\ IF Live(buffer) THEN Destroy(buffer) ELSE UNCHANGED <<heap, bufs, out, ub>>
    /\ UNCHANGED <<opts, snds>>
    /\ Goes(FALSE) /\ UNCHANGED sent

DestroySender ==
    /\ Statement("~sender")
    /\ IF Alive(snds[sender]) THEN SenderDestroy(sender) ELSE UNCHANGED vars
    /\ Goes(FALSE) /\ UNCHANGED sent

Ended == status # "running" /\ UNCHANGED exvars

Run == FromConf \/ FromLiteral \/ FromEnv \/ FillRow \/ FlushRow
         \/ DestroyBuffer \/ DestroySender

ExNext == Run \/ Ended

-----------------------------------------------------------------------------
\* Whatever throws, in main or in a constructor, the program ends with
\* nothing allocated and reaches no undefined behaviour on the way.
CppGivesBack == ~ub /\ (status # "running" => \A a \in Addr : heap[a] = Freed)
=============================================================================
