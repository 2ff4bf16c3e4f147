--------------------------------- MODULE U6ac --------------------------------
(***************************************************************************)
(* The compiler's main program: options, the source and the output file,   *)
(* the calls of lexer, parser and code generator, and what is left of the  *)
(* output file at the end.  Files may be impossible to open, to write or   *)
(* to remove, and a write that is still buffered may fail in fclose.       *)
(*                                                                         *)
(* A file holds "old" contents, is "empty", holds a part (a "cut") or all  *)
(* of what is written to it ("new"), or is not there ("none").             *)
(***************************************************************************)
EXTENDS Codegen

CONSTANTS
  Words,   (* of command lines: names of files, levels of optimisation     *)
  Jobs     (* the command line, opts and input, what the files hold, and   *)
           (* the tree of the source                                       *)

NULL == ""

(* Options that getopt_long returns, with their arguments.                 *)
Option == {"o", "O", "p", "S", "v", "s", "H", "V", "?"} \X Words

(* Every file the command line can name is there, if only as "none", and   *)
(* no name is empty.                                                       *)
ASSUME WordsAssumption == {NULL, "1", "STDOUT"} \subseteq Words

ASSUME JobsAssumption ==
  \A j \in Jobs :
    /\ j.opts \in Seq(Option)
    /\ \A n \in DOMAIN j.opts : j.opts[n][1] = "o" => j.opts[n][2] \in DOMAIN j.files
    /\ \/ j.input \in {NULL, "-"}
       \/ {j.input, j.input \o ".bc", j.input \o ".bc.dump"} \subseteq DOMAIN j.files
    /\ j.files \in [DOMAIN j.files -> {"none", "old"}]
    /\ DOMAIN j.files \subseteq Words \ {NULL}
    /\ j.ast \in Asts

VARIABLES
  job,
  args,        (* the options getopt_long has not returned yet             *)
  opt,         (* struct arg_options, and the locals of process_options    *)
  fs,          (* the files                                                *)
  stdout,      (* what kinds of text went there                            *)
  stage,       (* where in process_options or main                         *)
  exit_code,
  faults       (* history: what failed without being noticed               *)

driver_vars == <<job, args, opt, fs, stdout, stage, exit_code, faults>>
u6ac_vars   == <<driver_vars, vars>>

NoOptions ==
  [file_name |-> NULL, output_stream |-> NULL, input_file |-> NULL,
   prefix |-> FALSE, dump_mnemonics |-> FALSE, optimize_level |-> "1",
   verbose |-> FALSE, syntax_only |-> FALSE, print_only |-> FALSE]

U6acInit ==
  /\ job \in Jobs
  /\ args = job.opts
  /\ opt = NoOptions
  /\ fs = job.files
  /\ stdout = {}
  /\ stage = "options"
  /\ exit_code = 0
  /\ faults = {}
  /\ Init

At(s)   == stage = s /\ UNCHANGED <<job, vars>>
Goto(s) == stage' = s /\ UNCHANGED exit_code
Exit(c) == stage' = "terminate" /\ exit_code' = c

-----------------------------------------------------------------------------
(* process_options                                                         *)

SetLast(name) == name
SetOnce(name) == IF opt.file_name = NULL THEN name ELSE opt.file_name

(* An option is a letter and its argument; ? is one that is not known.     *)
WithOption(o, arg) ==
  CASE o = "o"        -> [opt EXCEPT !.file_name = SetOnce(arg)]
    [] o = "O"        -> [opt EXCEPT !.optimize_level = arg]
    [] o = "p"        -> [opt EXCEPT !.prefix = TRUE]
    [] o = "S"        -> [opt EXCEPT !.dump_mnemonics = TRUE]
    [] o = "v"        -> [opt EXCEPT !.verbose = TRUE]
    [] o = "s"        -> [opt EXCEPT !.syntax_only = TRUE]
    [] o \in {"H", "V"} -> [opt EXCEPT !.print_only = TRUE]

TakeOption ==
  /\ At("options") /\ args # <<>> /\ Head(args)[1] # "?"
  /\ opt' = WithOption(Head(args)[1], Head(args)[2])
  /\ args' = Tail(args)
  /\ stdout' = IF Head(args)[1] \in {"H", "V"} THEN stdout \cup {"help"} ELSE stdout
  /\ UNCHANGED <<fs, stage, exit_code, faults>>

BadOption ==
  /\ At("options") /\ args # <<>> /\ Head(args)[1] = "?"
  /\ Exit(1)
  /\ UNCHANGED <<args, opt, fs, stdout, faults>>

EndOptions ==
  /\ At("options") /\ args = <<>>
  /\ Goto(IF opt.print_only THEN "terminate" ELSE "input")
  /\ UNCHANGED <<args, opt, fs, stdout, faults>>

OpenInput ==
  /\ At("input") /\ job.input # NULL
  /\ job.input # "-" => fs[job.input] # "none"
  /\ opt' = [opt EXCEPT !.input_file = IF job.input = "-" THEN "stdin" ELSE "open"]
  /\ Goto("output")
  /\ UNCHANGED <<args, fs, stdout, faults>>

(* No source is named, its path is too long or it cannot be opened.        *)
NoInput ==
  /\ At("input") /\ job.input # "-"
  /\ Exit(1)
  /\ UNCHANGED <<args, opt, fs, stdout, faults>>

SyntaxOnly ==
  /\ At("output") /\ opt.syntax_only
  /\ opt' = [opt EXCEPT !.file_name = NULL]
  /\ Goto("lex")
  /\ UNCHANGED <<args, fs, stdout, faults>>

ToStdout == \/ opt.file_name = NULL /\ opt.input_file = "stdin"
            \/ opt.file_name = "-"

MayWriteAlways  == TRUE
MayWriteVerbose == ~opt.verbose

UseStdout ==
  /\ At("output") /\ ~opt.syntax_only /\ ToStdout
  /\ MayWriteVerbose
  /\ opt' = [opt EXCEPT !.output_stream = "stdout", !.file_name = "STDOUT"]
  /\ Goto("lex")
  /\ UNCHANGED <<args, fs, stdout, faults>>

(* The name of the source with the suffix for what is written.             *)
OutputName ==
  IF opt.file_name # NULL THEN opt.file_name
  ELSE job.input \o (IF opt.dump_mnemonics THEN ".bc.dump" ELSE ".bc")

UseFile ==
  /\ At("output") /\ ~opt.syntax_only /\ ~ToStdout
  /\ opt' = [opt EXCEPT !.output_stream = "open", !.file_name = OutputName]
  /\ fs' = [fs EXCEPT ![OutputName] = "empty"]
  /\ Goto("lex")
  /\ UNCHANGED <<args, stdout, faults>>

(* Verbose output to stdout, or a file that cannot be opened; a path too   *)
(* long for its suffix is found before there is a file_name.               *)
NoOutput ==
  /\ At("output") /\ ~opt.syntax_only
  /\ \/ ToStdout /\ ~MayWriteVerbose /\ UNCHANGED opt
     \/ ~ToStdout /\ opt.file_name = NULL /\ UNCHANGED opt
     \/ ~ToStdout /\ opt' = [opt EXCEPT !.file_name = OutputName]
  /\ Exit(1)
  /\ UNCHANGED <<args, fs, stdout, faults>>

(* malloc for the name of the output is not checked.                       *)
NameNoMemory ==
  /\ At("output") /\ ~opt.syntax_only /\ ~ToStdout /\ opt.file_name = NULL
  /\ Goto("wild")
  /\ UNCHANGED <<args, opt, fs, stdout, faults>>

-----------------------------------------------------------------------------
(* main                                                                    *)

(* u6a_info_verbose                                                        *)
Info == stdout' = IF opt.verbose THEN stdout \cup {"info"} ELSE stdout

(* Every source has tokens, but there may be a character that is none.     *)
Lex ==
  /\ At("lex")
  /\ Goto("parse") \/ Exit(2)
  /\ Info
  /\ UNCHANGED <<args, opt, fs, faults>>

(* A source that was emptied when the output was opened has no tokens, and *)
(* no program is empty.                                                    *)
EmptiedNever == FALSE
Emptied      == opt.input_file = "open" /\ fs[job.input] = "empty"

Parse ==
  /\ At("parse")
  /\ \/ ~Emptied /\ Goto(IF opt.output_stream = NULL THEN "terminate" ELSE "codegen")
     \/ Exit(3)
  /\ Info
  /\ UNCHANGED <<args, opt, fs, faults>>

(* u6a_write_prefix and u6a_codegen.                                       *)
CallCodegen ==
  /\ stage = "codegen" /\ phase = "idle"
  /\ Start(job.ast, [prefix |-> opt.prefix, optimize_const |-> opt.optimize_level = "1",
                     dump_mnemonics |-> opt.dump_mnemonics])
  /\ Info
  /\ UNCHANGED <<job, args, opt, fs, stage, exit_code, faults>>

(* Output goes to the buffer of the stream, and from there to the file at  *)
(* any time.                                                               *)
RunCodegen ==
  /\ stage = "codegen"
  /\ CodegenStep
  /\ \/ /\ written' # written /\ opt.output_stream = "stdout"
        /\ stdout' = stdout \cup {"code"}
        /\ UNCHANGED fs
     \/ /\ written' # written /\ opt.output_stream = "open"
        /\ fs' = [fs EXCEPT ![opt.file_name] = "cut"]
        /\ UNCHANGED stdout
     \/ /\ written' = written
        /\ UNCHANGED <<fs, stdout>>
  /\ UNCHANGED <<job, args, opt, stage, exit_code, faults>>

FailedWith0 == 0
FailedWith  == IF phase = "failed" THEN 4 ELSE 0

EndCodegen ==
  /\ At("codegen") /\ phase \in {"ok", "failed", "wild"}
  /\ IF phase = "wild" THEN Goto("wild") ELSE Exit(FailedWith)
  /\ Info
  /\ UNCHANGED <<args, opt, fs, faults>>

(* arg_options_destroy: what the last fclose writes may be lost, and       *)
(* nobody looks.                                                           *)
Flushed(lost) ==
  IF opt.output_stream = "open" /\ fs[opt.file_name] # "empty"
  THEN [fs EXCEPT ![opt.file_name] = IF phase = "ok" /\ ~lost THEN "new" ELSE "cut"]
  ELSE fs

Closed(stream)      == IF stream = "open" THEN "closed" ELSE stream

Deletes == /\ exit_code # 0
           /\ opt.output_stream # "stdout" /\ opt.file_name # NULL

Terminate ==
  /\ At("terminate")
  /\ \E lost \in BOOLEAN, kept \in BOOLEAN :
       /\ lost => opt.output_stream = "open"
       /\ kept => Deletes
       /\ fs' = IF Deletes /\ ~kept THEN [Flushed(lost) EXCEPT ![opt.file_name] = "none"]
                ELSE Flushed(lost)
       /\ faults' = {f \in {"fclose", "remove"} : IF f = "fclose" THEN lost ELSE kept}
  /\ opt' = [opt EXCEPT !.input_file    = Closed(opt.input_file),
                        !.output_stream = Closed(opt.output_stream)]
  /\ Goto("exited")
  /\ UNCHANGED <<args, stdout>>

(* The process is gone; anything else that cannot go on is a deadlock.     *)
Over == stage \in {"exited", "wild"} /\ UNCHANGED u6ac_vars

ProcessOptions == \/ TakeOption \/ BadOption \/ EndOptions
                  \/ OpenInput \/ NoInput \/ SyntaxOnly
                  \/ UseStdout \/ UseFile \/ NoOutput \/ NameNoMemory

U6acNext == \/ ProcessOptions \/ Lex \/ Parse
            \/ CallCodegen \/ RunCodegen \/ EndCodegen \/ Terminate \/ Over

U6acSpec == U6acInit /\ [][U6acNext]_u6ac_vars

-----------------------------------------------------------------------------

(* After exit code 0 the file that was opened for the output is complete,  *)
(* and after another one it is gone; but for what fclose and remove may    *)
(* have failed to do.  No stream is left open.                             *)
ExitTellsOutput ==
  /\ stage = "exited" => "open" \notin {opt.output_stream, opt.input_file}
  /\ stage = "exited" /\ opt.output_stream = "closed" =>
       /\ exit_code = 0 => fs[opt.file_name] = "new" \/ "fclose" \in faults
       /\ exit_code # 0 => fs[opt.file_name] = "none" \/ "remove" \in faults
       /\ fs[opt.file_name] = "new" => exit_code = 0

(* The first argument of -o, or the name made from the source's.           *)
FirstO == {job.opts[n][2] : n \in {n \in DOMAIN job.opts :
             /\ job.opts[n][1] = "o"
             /\ \A m \in 1..(n - 1) : job.opts[m][1] # "o"}}
Outputs == IF FirstO # {} THEN FirstO
           ELSE {job.input \o ".bc", job.input \o ".bc.dump"}

(* u6ac writes and removes the output file and no other.                   *)
OnlyOutputChanges ==
  \A f \in DOMAIN fs : fs[f] # job.files[f] => f \in Outputs

(* Debug messages and code never share stdout.                             *)
StdoutPure == ~({"info", "code"} \subseteq stdout)

(* A source that is its own output is never reported as compiled.          *)
NotOwnOutput ==
  stage = "exited" /\ exit_code = 0 /\ opt.output_stream = "closed"
    => opt.file_name # job.input

-----------------------------------------------------------------------------
(* Why these hold, step by step: what is true of the options, the streams  *)
(* and the files at every stage.                                           *)

ArgOptions ==
  [file_name : Words, output_stream : {NULL, "stdout", "open", "closed"},
   input_file : {NULL, "stdin", "open", "closed"},
   prefix : BOOLEAN, dump_mnemonics : BOOLEAN, optimize_level : Words,
   verbose : BOOLEAN, syntax_only : BOOLEAN, print_only : BOOLEAN]

Early == {"options", "input", "output", "lex", "parse"}

DriverType ==
  /\ job \in Jobs
  /\ args \in Seq(Option)
  /\ opt \in ArgOptions
  /\ fs \in [DOMAIN job.files -> {"none", "old", "empty", "cut", "new"}]
  /\ stage \in Early \cup {"codegen", "terminate", "exited", "wild"}
  /\ exit_code \in 0..4

Streams ==
  /\ stage \in {"options", "input", "output"} =>
       opt.output_stream = NULL /\ "info" \notin stdout
  /\ stage = "exited" => "open" \notin {opt.output_stream, opt.input_file}
  /\ stage # "exited" => "closed" \notin {opt.output_stream, opt.input_file}
  /\ stage = "codegen" => opt.output_stream # NULL
  /\ opt.output_stream = "stdout" => ~opt.verbose
  /\ "code" \in stdout => opt.output_stream = "stdout"
  /\ "info" \in stdout => opt.verbose

Generated ==
  /\ stage \in Early => phase = "idle"
  /\ phase = "idle" => written = <<>>
  /\ phase = "ok"   => written # <<>>
  /\ written \in Seq({written[i] : i \in DOMAIN written})

ExitCode ==
  /\ stage \notin {"terminate", "exited"} => exit_code = 0
  /\ stage \in {"terminate", "exited"} /\ exit_code # 0 => phase # "ok"
  /\ stage = "terminate" /\ exit_code = 0 /\ opt.output_stream = "open" => phase = "ok"

OutputFile ==
  /\ opt.output_stream = "open" =>
       /\ opt.file_name \in DOMAIN fs
       /\ fs[opt.file_name] = IF written = <<>> THEN "empty" ELSE "cut"
  /\ stage # "exited" => \A f \in DOMAIN fs : fs[f] # "new"

OwnOutput ==
  /\ opt.input_file = "stdin" => job.input = "-"
  /\ opt.input_file = "open" => job.input \notin {NULL, "-"}
  /\ stage \in {"output", "lex", "parse"} => opt.input_file \in {"stdin", "open"}
  /\ /\ opt.output_stream \in {"open", "closed"} /\ exit_code = 0
     /\ opt.file_name = job.input
     => stage \in {"lex", "parse", "wild"} /\ opt.input_file = "open"

Named ==
  /\ Len(args) <= Len(job.opts)
  /\ \A i \in 1..Len(args) : args[i] = job.opts[Len(job.opts) - Len(args) + i]
  /\ stage = "options" /\ opt.file_name = NULL =>
       \A n \in 1..(Len(job.opts) - Len(args)) : job.opts[n][1] # "o"
  /\ stage \in {"input", "output"} /\ opt.file_name = NULL => FirstO = {}
  /\ stage \in {"options", "input", "output"} /\ opt.file_name # NULL =>
       opt.file_name \in FirstO
  /\ opt.file_name # NULL /\ opt.output_stream # "stdout" => opt.file_name \in Outputs

U6acInv ==
  /\ DriverType /\ Streams /\ Generated /\ ExitCode /\ OutputFile /\ OwnOutput
  /\ Named /\ OnlyOutputChanges /\ ExitTellsOutput

(* --syntax-only leaves every file as it was.                              *)
SyntaxOnlyKeepsFiles ==
  (\E n \in DOMAIN job.opts : job.opts[n][1] = "s") => fs = job.files

=============================================================================
