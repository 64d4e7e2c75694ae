----------------------------- MODULE CExamples -----------------------------
(***************************************************************************)
(* The example programs in C (examples/line_sender_c_example*.c) over the  *)
(* C interface: every failure that they can meet, and the way out by       *)
(* on_error.                                                               *)
(*                                                                         *)
(* A program is the order of its calls.  A run of it is given arguments;   *)
(* memory may run out in concat, the configuration may be refused, and the *)
(* network may fail.                                                       *)
(***************************************************************************)
EXTENDS CApi

CONSTANTS
    MaxArgs,     \* bound on the arguments of a run
    BuildNet,    \* what the network may do to a connection
    FlushNet     \* and to a flush

VARIABLES
    prog,        \* the program that runs
    todo,        \* the calls that are left
    loc,         \* its pointers: conf_str, err, sender, buffer
    heap,
    sent,        \* the texts that a connection took
    status,      \* "running", or the exit code
    ub

vars == <<prog, todo, loc, heap, sent, status, ub>>

-----------------------------------------------------------------------------
(***************************************************************************)
(* The programs.                                                           *)
(***************************************************************************)
Row == <<"buffer_new", "reserve", "table", "symbol", "symbol", "column_f64",
         "column_f64", "at_nanos", "flush", "close">>

\* example() of the programs that read a host and a port.
WithConcat == <<"concat", "utf8_init", "from_conf", "free_conf">> \o Row

\* on_error of both shapes.
OnError == <<"error_msg", "free_conf", "error_free", "buffer_free", "close">>

Ecdsa == {"username", "token", "token_x", "token_y"}

Program(code, builder, needed) == [code |-> code, builder |-> builder, needed |-> needed]

c_example          == Program(WithConcat, Configured("tcp", {}), 0)
c_example_http     == Program(WithConcat, Configured("http", {}), 0)
c_example_auth     == Program(WithConcat, Configured("tcp", Ecdsa), 0)
c_example_auth_tls == Program(WithConcat, Configured("tcps", Ecdsa), 0)
c_example_tls_ca   == Program(WithConcat,
                              Configured("tcps", Ecdsa \cup {"tls_roots"}), 1)

\* main() of the programs that take no arguments.
c_example_from_conf == Program(<<"utf8_literal", "from_conf">> \o Row,
                               Configured("tcp", {}), 0)
c_example_from_env  == Program(<<"from_env">> \o Row, Configured("tcp", {}), 0)

Programs == {c_example, c_example_http, c_example_auth, c_example_auth_tls,
             c_example_tls_ca, c_example_from_conf, c_example_from_env}

-----------------------------------------------------------------------------
\* displayed_help: any argument that begins as -h or --help do.
displayed_help(argv) == \E i \in DOMAIN argv : argv[i] \in {"-h", "--help", "-hx"}

ReadsArguments(p) == p.code[1] = "concat"

\* main().
Start(p, argv) ==
    /\ prog = p
    /\ loc = [conf_str |-> NULL, err |-> NULL, sender |-> NULL, buffer |-> NULL]
    /\ heap = [a \in Addr |-> Freed]
    /\ sent = <<>>
    /\ ub = FALSE
    /\ IF ReadsArguments(p) /\ displayed_help(argv) THEN status = "0" /\ todo = <<>>
       ELSE IF Len(argv) < p.needed THEN status = "1" /\ todo = <<>>
       ELSE status = "running" /\ todo = p.code

ArgLists == UNION {[1..n -> {"-h", "-hx", "other"}] : n \in 0..MaxArgs}

Init == \E p \in Programs, argv \in ArgLists : Start(p, argv)

\* The arguments may not be UTF-8, and may not make a configuration.
Texts == IF ReadsArguments(prog) THEN {"text", NotUtf8} ELSE {"text"}
ConfResults ==
    IF prog = c_example_from_conf THEN {Builder(prog.builder)}
                                  ELSE {Builder(prog.builder), ConfigError}

-----------------------------------------------------------------------------
\* Go on with the next call; the heap is r's.
Continues(r) ==
    /\ heap' = r.heap /\ ub' = r.ub
    /\ todo' = Tail(todo)
    /\ status' = IF todo' # <<>> THEN "running" ELSE IF loc'.err = NULL THEN "0" ELSE "1"
    /\ UNCHANGED prog

\* goto on_error.
Fails(r) ==
    /\ heap' = r.heap /\ ub' = r.ub
    /\ loc' = [loc EXCEPT !.err = r.err]
    /\ todo' = OnError
    /\ UNCHANGED <<prog, sent, status>>

\* if (!call(..., &err)) goto on_error;
Checked(r) ==
    IF r.ub \/ r.ret # 0 THEN UNCHANGED <<loc, sent>> /\ Continues(r) ELSE Fails(r)

\* The same for a call that returns a pointer.
Assigned(r) ==
    IF r.ret # NULL THEN /\ loc' = [loc EXCEPT !.sender = r.ret]
                         /\ UNCHANGED sent
                         /\ Continues(r)
                    ELSE Fails(r)

Plain(r) == UNCHANGED <<loc, sent>> /\ Continues(r)

Calls(name) == status = "running" /\ ~ub /\ Head(todo) = name

\* concat(): memory for the string, or a message and return false.
Concat ==
    /\ Calls("concat")
    /\ \/ LET r == Give(heap, [kind |-> "text"])
          IN  loc' = [loc EXCEPT !.conf_str = r.ret] /\ UNCHANGED sent /\ Continues(r)
       \/ status' = "1" /\ todo' = <<>> /\ UNCHANGED <<prog, loc, heap, sent, ub>>

Utf8Init ==
    Calls("utf8_init") /\ \E s \in Texts : Checked(line_sender_utf8_init(heap, s))

\* QDB_UTF8_LITERAL.
Utf8Literal == Calls("utf8_literal") /\ Plain(line_sender_utf8_assert(heap, "text"))

FromConf ==
    /\ Calls("from_conf")
    /\ \E c \in ConfResults, net \in BuildNet :
         Assigned(line_sender_from_conf(heap, c, net))

FromEnv ==
    /\ Calls("from_env")
    /\ \E c \in ConfResults, net \in BuildNet :
         Assigned(line_sender_from_env(heap, c, net))

\* Mutant: the string is freed again by on_error.
FreeConf_keeps ==
    /\ Calls("free_conf")
    /\ Plain(Drop(heap, loc.conf_str, "text"))

\* free(conf_str); conf_str = NULL;  main() has no string.
FreeConf ==
    /\ Calls("free_conf")
    /\ loc' = [loc EXCEPT !.conf_str = NULL]
    /\ UNCHANGED sent
    /\ Continues(Drop(heap, loc.conf_str, "text"))

BufferNew ==
    /\ Calls("buffer_new")
    /\ LET r == line_sender_buffer_new(heap)
       IN  loc' = [loc EXCEPT !.buffer = r.ret] /\ UNCHANGED sent /\ Continues(r)

\* reserve, and the literals for the names.
Reserve ==
    /\ Calls("reserve")
    /\ LET r == line_sender_buffer_reserve(heap, loc.buffer)
           t == line_sender_table_name_assert(r.heap, "trades")
           c == line_sender_column_name_assert(t.heap, "trades")
       IN  Plain([c EXCEPT !.ub = r.ub \/ t.ub \/ c.ub])

\* The calls that make the row.
Fill ==
    \/ Calls("table") /\ Checked(line_sender_buffer_table(heap, loc.buffer, "trades"))
    \/ Calls("symbol") /\ Checked(line_sender_buffer_symbol(heap, loc.buffer, "trades"))
    \/ Calls("column_f64")
         /\ Checked(line_sender_buffer_column_f64(heap, loc.buffer, "trades"))
    \/ Calls("at_nanos") /\ Checked(line_sender_buffer_at_nanos(heap, loc.buffer, 1))

FlushRow ==
    /\ Calls("flush")
    /\ \E net \in FlushNet :
         LET r == line_sender_flush(heap, loc.sender, loc.buffer, net)
         IN  IF r.ret = true
               THEN /\ sent' = Append(sent, heap[loc.buffer].buf.output)
                    /\ loc' = loc
                    /\ Continues(r)
               ELSE Fails(r)

ErrorMsg  == Calls("error_msg") /\ Plain(line_sender_error_msg(heap, loc.err))
ErrorFree == Calls("error_free") /\ Plain(line_sender_error_free(heap, loc.err))
BufferFree == Calls("buffer_free") /\ Plain(line_sender_buffer_free(heap, loc.buffer))

Close == Calls("close") /\ Plain(line_sender_close(heap, loc.sender))

Done == status # "running" /\ UNCHANGED vars

Run ==
    \/ Concat \/ Utf8Init \/ Utf8Literal \/ FromConf \/ FromEnv \/ FreeConf
    \/ BufferNew \/ Reserve \/ Fill \/ FlushRow
    \/ ErrorMsg \/ ErrorFree \/ BufferFree \/ Close

Next == Run \/ Done

-----------------------------------------------------------------------------
Live == {a \in Addr : heap[a] # Freed}

\* on_error is right from wherever it is reached: no program follows NULL
\* or a freed pointer, although which of conf_str, buffer and sender are set
\* depends on the call that failed.  A program that fails has given everything
\* back: the string, the error, the buffer and the connection, each once.  One
\* that succeeds has closed its connection and leaks its buffer, which none of
\* the seven frees on that way.
LeaksOnSuccess ==
    /\ ~ub
    /\ status = "1" => Live = {}
    /\ status = "0" => Live = {loc.buffer} \ {NULL}
=============================================================================
