----------------------------- MODULE U6acProofs ------------------------------
(***************************************************************************)
(* Proofs about the compiler's main program, for every set of command      *)
(* lines and sources: what its exit code says of the output file, which    *)
(* files it changes, and what goes to stdout.                              *)
(***************************************************************************)
EXTENDS U6ac, CodegenProofs

(* The sections that were written, as a sequence that gets longer.         *)
Sequence(w) == w \in Seq({w[i] : i \in DOMAIN w})

LEMMA AppendLonger ==
  ASSUME NEW w, Sequence(w), NEW x
  PROVE  /\ Sequence(Append(w, x))
         /\ Append(w, x) # w /\ Append(w, x) # <<>>
<1> DEFINE S == {w[i] : i \in DOMAIN w} \cup {x}
           a == Append(w, x)
<1>1. w \in Seq(S)
  BY DEF Sequence
<1>2. /\ a \in Seq(S) /\ Len(a) = Len(w) + 1 /\ Len(w) \in Nat
      /\ \A i \in 1..Len(w) : a[i] = w[i]
      /\ a[Len(w) + 1] = x
  BY <1>1
<1>3. a \in Seq({a[j] : j \in DOMAIN a})
  <2>1. a \in Seq(Range(a))
    BY <1>2, SeqOfRange
  <2> QED BY <2>1 DEF Range
<1>4. a # w /\ a # <<>>
  BY <1>1, <1>2
<1> QED BY <1>3, <1>4 DEF Sequence

(* A step of u6a_write_prefix or u6a_codegen.                              *)
LEMMA CodegenWrites ==
  ASSUME CodegenStep
  PROVE  /\ phase \notin {"idle", "ok", "failed", "wild"} /\ phase' # "idle"
         /\ \/ written' = written /\ phase' # "ok"
            \/ \E x : written' = Append(written, x)
<1>1. \A i \in DOMAIN Sections :
        Sections[i] \in {"mnemonics", "data", "header", "text", "rodata"}
  BY DEF Sections
<1>2. Sections[1] \in {"mnemonics", "header"}
  BY DEF Sections
<1>3. CASE WriteSection
  <2>1. PICK i \in DOMAIN Sections :
          /\ phase = Sections[i] /\ written' = Append(written, Section(Sections[i]))
          /\ phase' = IF i < Len(Sections) THEN Sections[i + 1] ELSE "ok"
    BY <1>3 DEF WriteSection
  <2>2. phase' = "ok" \/ phase' \in {"data", "text", "rodata"}
    BY <2>1 DEF Sections
  <2> QED BY <1>1, <2>1, <2>2
<1>4. CASE WritePrefix
  BY <1>4 DEF WritePrefix
<1>5. CASE Allocate \/ GenerateNode \/ DumpNoMemory
  BY <1>5 DEF Allocate, GenerateNode, DumpNoMemory
<1>6. CASE EndNodes
  BY <1>2, <1>6 DEF EndNodes
<1>7. CASE Failed
  BY <1>1, <1>7 DEF Failed
<1> QED BY <1>3, <1>4, <1>5, <1>6, <1>7 DEF CodegenStep

(* The options of the command line: -o counts the first time.              *)
LEMMA FirstOIs ==
  ASSUME job \in Jobs
  PROVE  /\ \A n \in 1..Len(job.opts) :
              /\ job.opts[n][1] = "o"
              /\ \A m \in 1..(n - 1) : job.opts[m][1] # "o"
              => job.opts[n][2] \in FirstO
         /\ (\A n \in 1..Len(job.opts) : job.opts[n][1] # "o") => FirstO = {}
         /\ FirstO \subseteq DOMAIN job.files
         /\ \A name \in FirstO : name \in Outputs
<1>1. job.opts \in Seq(Option) /\ DOMAIN job.opts = 1..Len(job.opts) /\ Len(job.opts) \in Nat
  BY JobsAssumption
<1>2. \A name : name \in FirstO <=>
        \E n \in 1..Len(job.opts) :
          /\ job.opts[n][1] = "o" /\ \A m \in 1..(n - 1) : job.opts[m][1] # "o"
          /\ name = job.opts[n][2]
  BY <1>1 DEF FirstO
<1>3. FirstO \subseteq DOMAIN job.files
  BY <1>1, <1>2, JobsAssumption
<1>4. \A name \in FirstO : name \in Outputs
  BY DEF Outputs
<1>5. (\A n \in 1..Len(job.opts) : job.opts[n][1] # "o") => FirstO = {}
  BY <1>2
<1>6. \A n \in 1..Len(job.opts) :
        /\ job.opts[n][1] = "o"
        /\ \A m \in 1..(n - 1) : job.opts[m][1] # "o"
        => job.opts[n][2] \in FirstO
  BY <1>2
<1> QED BY <1>3, <1>4, <1>5, <1>6

LEMMA InitInv == U6acInit => U6acInv
<1> SUFFICES ASSUME U6acInit PROVE U6acInv
  OBVIOUS
<1>1. /\ job \in Jobs /\ args = job.opts /\ fs = job.files /\ opt = NoOptions
      /\ stdout = {} /\ stage = "options" /\ exit_code = 0
      /\ phase = "idle" /\ written = <<>>
  BY DEF U6acInit, Init
<1>2. /\ job.opts \in Seq(Option) /\ job.files \in [DOMAIN job.files -> {"none", "old"}]
      /\ Len(job.opts) \in Nat
  BY <1>1, JobsAssumption
<1>3. opt \in ArgOptions /\ opt.file_name = NULL /\ opt.output_stream = NULL /\ opt.input_file = NULL
  <2>1. NoOptions \in ArgOptions
    BY WordsAssumption DEF NoOptions, ArgOptions
  <2> QED BY <1>1, <2>1 DEF NoOptions
<1>4. fs \in [DOMAIN job.files -> {"none", "old", "empty", "cut", "new"}]
      /\ \A f \in DOMAIN fs : fs[f] # "new"
  BY <1>1, <1>2
<1>5. DriverType
  BY <1>1, <1>2, <1>3, <1>4 DEF DriverType, Early
<1>6. Streams /\ ExitTellsOutput
  BY <1>1, <1>3 DEF Streams, NULL, ExitTellsOutput
<1>7. Generated
  BY <1>1 DEF Generated, Early
<1>8. ExitCode /\ OutputFile /\ OwnOutput
  BY <1>1, <1>3, <1>4 DEF ExitCode, OutputFile, OwnOutput, NULL
<1>9. Named /\ OnlyOutputChanges
  BY <1>1, <1>2, <1>3 DEF Named, OnlyOutputChanges
<1> QED BY <1>5, <1>6, <1>7, <1>8, <1>9 DEF U6acInv

(* What the parts of the invariant say before the generator runs.          *)
LEMMA EarlyFacts ==
  ASSUME U6acInv
  PROVE  /\ DriverType /\ Streams /\ Generated /\ ExitCode /\ OutputFile /\ OwnOutput
         /\ Named /\ OnlyOutputChanges /\ ExitTellsOutput
         /\ job \in Jobs /\ Len(job.opts) \in Nat /\ job.opts \in Seq(Option)
         /\ args \in Seq(Option) /\ Len(args) \in Nat
         /\ opt \in ArgOptions
         /\ fs \in [DOMAIN job.files -> {"none", "old", "empty", "cut", "new"}]
         /\ DOMAIN fs = DOMAIN job.files
BY JobsAssumption DEF U6acInv, DriverType

(* What every option does to the options.                                  *)
LEMMA WithOptionDoes ==
  ASSUME U6acInv, stage = "options", NEW e \in Option, e[1] # "?"
  PROVE  LET o == WithOption(e[1], e[2])
         IN  /\ o \in ArgOptions
             /\ o.output_stream = opt.output_stream /\ o.input_file = opt.input_file
             /\ o.file_name = IF e[1] = "o" THEN SetOnce(e[2]) ELSE opt.file_name
<1> DEFINE o == WithOption(e[1], e[2])
<1>1. opt \in ArgOptions
  BY EarlyFacts
<1>2. e[1] \in {"o", "O", "p", "S", "v", "s", "H", "V"} /\ e[2] \in Words
  BY DEF Option
<1>3. SetOnce(e[2]) \in Words
  BY <1>1, <1>2 DEF SetOnce, ArgOptions
<1>4. CASE e[1] = "o"
  BY <1>1, <1>3, <1>4 DEF WithOption, ArgOptions
<1>5. CASE e[1] = "O"
  BY <1>1, <1>2, <1>5 DEF WithOption, ArgOptions
<1>6. CASE e[1] = "p"
  BY <1>1, <1>6 DEF WithOption, ArgOptions
<1>7. CASE e[1] = "S"
  BY <1>1, <1>7 DEF WithOption, ArgOptions
<1>8. CASE e[1] = "v"
  BY <1>1, <1>8 DEF WithOption, ArgOptions
<1>9. CASE e[1] = "s"
  BY <1>1, <1>9 DEF WithOption, ArgOptions
<1>10. CASE e[1] \in {"H", "V"}
  BY <1>1, <1>10 DEF WithOption, ArgOptions
<1> QED BY <1>2, <1>4, <1>5, <1>6, <1>7, <1>8, <1>9, <1>10

LEMMA TakeOptionInv ==
  ASSUME U6acInv, TakeOption
  PROVE  U6acInv'
<1>1. PICK e \in Option : e = Head(args) /\ e[1] # "?" /\ e = args[1]
  BY EarlyFacts DEF TakeOption
<1>2. /\ stage = "options" /\ stage' = "options" /\ args # <<>> /\ args' = Tail(args)
      /\ UNCHANGED <<job, vars, fs, exit_code, faults>>
      /\ opt' = WithOption(e[1], e[2])
      /\ stdout' \in {stdout, stdout \cup {"help"}}
  BY <1>1 DEF TakeOption, At, Goto
<1>3. /\ opt' \in ArgOptions
      /\ opt'.output_stream = opt.output_stream /\ opt'.input_file = opt.input_file
      /\ opt'.file_name = IF e[1] = "o" THEN SetOnce(e[2]) ELSE opt.file_name
  BY <1>1, <1>2, WithOptionDoes
<1>4. /\ Len(args) \in Nat /\ Len(args) > 0 /\ args' \in Seq(Option) /\ Len(args') = Len(args) - 1
      /\ \A i \in 1..Len(args') : args'[i] = args[i + 1]
  BY <1>2, EarlyFacts
<1>5. phase' = phase /\ written' = written
  BY <1>2 DEF vars
<1>6. opt.output_stream = NULL /\ opt'.output_stream = NULL
  BY <1>2, <1>3, EarlyFacts DEF Streams
<1>7. DriverType'
  BY <1>2, <1>3, <1>4, EarlyFacts DEF DriverType
<1>8. Streams'
  BY <1>2, <1>3, <1>6, EarlyFacts DEF Streams, NULL
<1>9. Generated' /\ ExitCode'
  BY <1>2, <1>5, <1>6, EarlyFacts DEF Generated, ExitCode, NULL
<1>10. OutputFile' /\ OwnOutput' /\ ExitTellsOutput'
  BY <1>2, <1>3, <1>5, <1>6, EarlyFacts DEF OutputFile, OwnOutput, ExitTellsOutput, NULL
<1>11. FirstO' = FirstO /\ Outputs' = Outputs
  BY <1>2 DEF FirstO, Outputs
<1>12. Named'
  <2>1. PICK k \in Nat : k = Len(job.opts) - Len(args) + 1 /\ k \in 1..Len(job.opts)
                         /\ e = job.opts[k]
    BY <1>1, <1>4, EarlyFacts DEF Named
  <2>2. Len(args') <= Len(job.opts)
        /\ \A i \in 1..Len(args') : args'[i] = job.opts[Len(job.opts) - Len(args') + i]
    BY <1>4, EarlyFacts DEF Named
  <2>3. opt'.file_name = NULL => \A n \in 1..k : job.opts[n][1] # "o"
    <3>1. SUFFICES ASSUME opt'.file_name = NULL PROVE \A n \in 1..k : job.opts[n][1] # "o"
      OBVIOUS
    <3>2. e[1] = "o" => e[2] # NULL
      BY <2>1, EarlyFacts, JobsAssumption
    <3>3. opt.file_name = NULL /\ e[1] # "o"
      BY <1>3, <3>1, <3>2 DEF SetOnce
    <3>4. \A n \in 1..(k - 1) : job.opts[n][1] # "o"
      BY <1>2, <2>1, <3>3, EarlyFacts DEF Named
    <3> QED BY <2>1, <3>3, <3>4
  <2>4. opt'.file_name # NULL => opt'.file_name \in FirstO
    <3>1. CASE opt'.file_name = opt.file_name
      BY <1>2, <3>1, EarlyFacts DEF Named
    <3>2. CASE opt'.file_name # opt.file_name
      <4>1. e[1] = "o" /\ opt.file_name = NULL /\ opt'.file_name = e[2]
        BY <1>3, <3>2 DEF SetOnce
      <4>2. \A n \in 1..(k - 1) : job.opts[n][1] # "o"
        BY <1>2, <2>1, <4>1, EarlyFacts DEF Named
      <4> QED BY <2>1, <4>1, <4>2, EarlyFacts, FirstOIs
    <3> QED BY <3>1, <3>2
  <2>5. opt'.file_name # NULL => opt'.file_name \in Outputs
    BY <2>4, EarlyFacts, FirstOIs
  <2>6. Len(job.opts) - Len(args') = k
    BY <1>4, <2>1, EarlyFacts
  <2> QED BY <1>2, <1>11, <2>2, <2>3, <2>4, <2>5, <2>6 DEF Named
<1>13. OnlyOutputChanges'
  BY <1>2, <1>11, EarlyFacts DEF OnlyOutputChanges
<1> QED BY <1>7, <1>8, <1>9, <1>10, <1>12, <1>13 DEF U6acInv

(* The end of the options, and the ways to fail before there is an output. *)
LEMMA OptionsEndInv ==
  ASSUME U6acInv, BadOption \/ EndOptions \/ NoInput
  PROVE  U6acInv'
<1>1. /\ UNCHANGED <<job, vars, args, opt, fs, stdout, faults>>
      /\ \/ stage \in {"options", "input"} /\ stage' = "terminate" /\ exit_code' = 1
         \/ stage = "options" /\ stage' = "terminate" /\ exit_code' = exit_code
         \/ stage = "options" /\ stage' = "input" /\ exit_code' = exit_code /\ args = <<>>
  BY DEF BadOption, EndOptions, NoInput, At, Exit, Goto
<1>2. phase' = phase /\ written' = written /\ phase = "idle" /\ opt.output_stream = NULL
      /\ exit_code = 0 /\ "info" \notin stdout
  BY <1>1, EarlyFacts DEF vars, Generated, Early, Streams, ExitCode
<1>3. DriverType'
  BY <1>1, <1>2, EarlyFacts DEF DriverType, Early
<1>4. Streams' /\ Generated' /\ ExitCode'
  BY <1>1, <1>2, EarlyFacts DEF Streams, Generated, ExitCode, NULL, Early
<1>5. OutputFile' /\ ExitTellsOutput'
  BY <1>1, <1>2, EarlyFacts DEF OutputFile, ExitTellsOutput, NULL
<1>6. OwnOutput'
  BY <1>1, <1>2, EarlyFacts DEF OwnOutput, NULL
<1>7. FirstO' = FirstO /\ Outputs' = Outputs
  BY <1>1 DEF FirstO, Outputs
<1>8. Named'
  <2>1. stage' = "input" /\ opt'.file_name = NULL => FirstO = {}
    <3>1. SUFFICES ASSUME stage' = "input", opt'.file_name = NULL PROVE FirstO = {}
      OBVIOUS
    <3>2. Len(args) = 0 /\ stage = "options" /\ opt.file_name = NULL
      BY <1>1, <3>1
    <3>3. \A n \in 1..Len(job.opts) : job.opts[n][1] # "o"
      BY <3>2, EarlyFacts DEF Named
    <3> QED BY <3>3, EarlyFacts, FirstOIs
  <2> QED BY <1>1, <1>7, <2>1, EarlyFacts DEF Named
<1>9. OnlyOutputChanges'
  BY <1>1, <1>7, EarlyFacts DEF OnlyOutputChanges
<1> QED BY <1>3, <1>4, <1>5, <1>6, <1>8, <1>9 DEF U6acInv

LEMMA OpenInputInv ==
  ASSUME U6acInv, OpenInput
  PROVE  U6acInv'
<1>1. /\ UNCHANGED <<job, vars, args, fs, stdout, faults, exit_code>>
      /\ stage = "input" /\ stage' = "output" /\ job.input # NULL
      /\ opt' = [opt EXCEPT !.input_file = IF job.input = "-" THEN "stdin" ELSE "open"]
  BY DEF OpenInput, At, Goto
<1>2. phase' = phase /\ written' = written /\ phase = "idle" /\ opt.output_stream = NULL
      /\ exit_code = 0 /\ "info" \notin stdout
  BY <1>1, EarlyFacts DEF vars, Generated, Early, Streams, ExitCode
<1>3. /\ opt' \in ArgOptions
      /\ opt'.input_file = IF job.input = "-" THEN "stdin" ELSE "open"
      /\ opt'.output_stream = NULL /\ opt'.file_name = opt.file_name
  BY <1>1, <1>2, EarlyFacts DEF ArgOptions
<1>10. /\ opt'.input_file \in {"stdin", "open"} /\ opt'.input_file # "closed"
       /\ opt'.input_file = "stdin" => job'.input = "-"
       /\ opt'.input_file = "open" => job'.input \notin {NULL, "-"}
  BY <1>1, <1>3
<1>4. DriverType'
  BY <1>1, <1>2, <1>3, EarlyFacts DEF DriverType, Early
<1>5. Streams' /\ Generated' /\ ExitCode'
  <2>1. Streams'
    BY <1>1, <1>2, <1>3, <1>10, EarlyFacts DEF Streams, NULL
  <2>2. Generated'
    BY <1>1, <1>2, <1>3, EarlyFacts DEF Generated, Early
  <2>3. ExitCode'
    BY <1>1, <1>2, <1>3, EarlyFacts DEF ExitCode, Early, NULL
  <2> QED BY <2>1, <2>2, <2>3
<1>6. OutputFile' /\ ExitTellsOutput' /\ OwnOutput'
  <2>1. OutputFile'
    BY <1>1, <1>2, <1>3, EarlyFacts DEF OutputFile, NULL
  <2>2. ExitTellsOutput'
    BY <1>1, <1>2, <1>3, EarlyFacts DEF ExitTellsOutput
  <2>3. OwnOutput'
    BY <1>1, <1>2, <1>3, <1>10 DEF OwnOutput, NULL
  <2> QED BY <2>1, <2>2, <2>3
<1>7. FirstO' = FirstO /\ Outputs' = Outputs
  BY <1>1 DEF FirstO, Outputs
<1>8. Named'
  BY <1>1, <1>2, <1>3, <1>7, EarlyFacts DEF Named
<1>9. OnlyOutputChanges'
  BY <1>1, <1>7, EarlyFacts DEF OnlyOutputChanges
<1> QED BY <1>4, <1>5, <1>6, <1>8, <1>9 DEF U6acInv

(* The output is stdout, no file at all, or one that cannot be had.        *)
LEMMA NoFileInv ==
  ASSUME U6acInv, SyntaxOnly \/ UseStdout \/ NameNoMemory
  PROVE  U6acInv'
<1>1. /\ UNCHANGED <<job, vars, args, fs, stdout, faults, exit_code>>
      /\ stage = "output" /\ stage' \in {"lex", "wild"}
      /\ \/ opt' = [opt EXCEPT !.file_name = NULL] /\ stage' = "lex"
         \/ opt' = [opt EXCEPT !.output_stream = "stdout", !.file_name = "STDOUT"]
              /\ stage' = "lex" /\ ~opt.verbose
         \/ opt' = opt
  BY DEF SyntaxOnly, UseStdout, NameNoMemory, At, Goto, MayWriteVerbose
<1>2. phase' = phase /\ written' = written /\ phase = "idle" /\ opt.output_stream = NULL
      /\ exit_code = 0 /\ "info" \notin stdout
  BY <1>1, EarlyFacts DEF vars, Generated, Early, Streams, ExitCode
<1>3. /\ opt' \in ArgOptions
      /\ opt'.input_file = opt.input_file /\ opt'.output_stream \in {NULL, "stdout"}
      /\ opt'.output_stream = "stdout" => ~opt'.verbose
      /\ opt'.file_name # NULL /\ opt'.output_stream # "stdout" => opt'.file_name = opt.file_name
  BY <1>1, <1>2, EarlyFacts, WordsAssumption DEF ArgOptions, NULL
<1>4. DriverType'
  BY <1>1, <1>2, <1>3, EarlyFacts DEF DriverType, Early
<1>5. Streams' /\ Generated' /\ ExitCode'
  <2>1. Streams'
    BY <1>1, <1>2, <1>3, EarlyFacts DEF Streams, NULL
  <2>2. Generated'
    BY <1>1, <1>2, <1>3, EarlyFacts DEF Generated, Early
  <2>3. ExitCode'
    BY <1>1, <1>2, <1>3, EarlyFacts DEF ExitCode, Early, NULL
  <2> QED BY <2>1, <2>2, <2>3
<1>6. OutputFile' /\ ExitTellsOutput' /\ OwnOutput'
  BY <1>1, <1>2, <1>3, EarlyFacts DEF OutputFile, ExitTellsOutput, OwnOutput, NULL
<1>7. FirstO' = FirstO /\ Outputs' = Outputs
  BY <1>1 DEF FirstO, Outputs
<1>8. Named'
  BY <1>1, <1>2, <1>3, <1>7, EarlyFacts DEF Named
<1>9. OnlyOutputChanges'
  BY <1>1, <1>7, EarlyFacts DEF OnlyOutputChanges
<1> QED BY <1>4, <1>5, <1>6, <1>8, <1>9 DEF U6acInv

(* The name of the output is one of the files the job may change.          *)
LEMMA OutputNameIs ==
  ASSUME U6acInv, stage = "output", ~ToStdout
  PROVE  /\ OutputName \in Outputs /\ OutputName \in DOMAIN fs
         /\ OutputName \in Words /\ OutputName # NULL
         /\ OutputName = job.input => opt.input_file = "open"
<1>1. opt.input_file \in {"stdin", "open"}
      /\ (opt.input_file = "stdin" => job.input = "-")
      /\ (opt.input_file = "open" => job.input \notin {NULL, "-"})
  BY EarlyFacts DEF OwnOutput
<1>2. DOMAIN job.files \subseteq Words \ {NULL} /\ DOMAIN fs = DOMAIN job.files
  BY EarlyFacts, JobsAssumption
<1>3. CASE opt.file_name # NULL
  <2>1. opt.file_name \in FirstO /\ OutputName = opt.file_name
    BY <1>3, EarlyFacts DEF Named, OutputName
  <2>2. opt.file_name \in DOMAIN job.files /\ opt.file_name \in Outputs
    BY <2>1, EarlyFacts, FirstOIs
  <2>3. opt.file_name # "-"
    BY DEF ToStdout
  <2> QED BY <1>1, <1>2, <2>1, <2>2, <2>3
<1>4. CASE opt.file_name = NULL
  <2>1. opt.input_file = "open"
    BY <1>1, <1>4 DEF ToStdout
  <2>2. {job.input \o ".bc", job.input \o ".bc.dump"} \subseteq DOMAIN job.files
    BY <1>1, <2>1, EarlyFacts, JobsAssumption
  <2>3. OutputName \in {job.input \o ".bc", job.input \o ".bc.dump"}
    BY <1>4 DEF OutputName
  <2>4. FirstO = {}
    BY <1>4, EarlyFacts DEF Named
  <2> QED BY <1>2, <2>1, <2>2, <2>3, <2>4 DEF Outputs
<1> QED BY <1>3, <1>4

LEMMA UseFileInv ==
  ASSUME U6acInv, UseFile
  PROVE  U6acInv'
<1>1. /\ UNCHANGED <<job, vars, args, stdout, faults, exit_code>>
      /\ stage = "output" /\ stage' = "lex" /\ ~ToStdout
      /\ opt' = [opt EXCEPT !.output_stream = "open", !.file_name = OutputName]
      /\ fs' = [fs EXCEPT ![OutputName] = "empty"]
  BY DEF UseFile, At, Goto
<1>2. phase' = phase /\ written' = written /\ phase = "idle" /\ opt.output_stream = NULL
      /\ exit_code = 0 /\ "info" \notin stdout /\ written = <<>> /\ "code" \notin stdout
  BY <1>1, EarlyFacts DEF vars, Generated, Early, Streams, ExitCode, NULL
<1>3. PICK f \in DOMAIN fs : f = OutputName /\ f \in Outputs /\ f \in Words /\ f # NULL
                             /\ (f = job.input => opt.input_file = "open")
  BY <1>1, OutputNameIs
<1>4. /\ opt' \in ArgOptions
      /\ opt'.input_file = opt.input_file /\ opt'.output_stream = "open" /\ opt'.file_name = f
  BY <1>1, <1>3, EarlyFacts DEF ArgOptions
<1>5. fs' = [fs EXCEPT ![f] = "empty"]
      /\ fs' \in [DOMAIN job.files -> {"none", "old", "empty", "cut", "new"}]
  BY <1>1, <1>3, EarlyFacts
<1>6. DriverType'
  BY <1>1, <1>2, <1>4, <1>5, EarlyFacts DEF DriverType, Early
<1>7. Streams' /\ Generated' /\ ExitCode'
  BY <1>1, <1>2, <1>4, EarlyFacts DEF Streams, Generated, ExitCode, Early
<1>8. OutputFile'
  BY <1>1, <1>2, <1>3, <1>4, <1>5, EarlyFacts DEF OutputFile
<1>9. OwnOutput' /\ ExitTellsOutput'
  BY <1>1, <1>2, <1>3, <1>4, EarlyFacts DEF ExitTellsOutput, OwnOutput
<1>10. FirstO' = FirstO /\ Outputs' = Outputs
  BY <1>1 DEF FirstO, Outputs
<1>11. Named'
  BY <1>1, <1>3, <1>4, <1>10, EarlyFacts DEF Named
<1>12. OnlyOutputChanges'
  BY <1>1, <1>3, <1>5, <1>10, EarlyFacts DEF OnlyOutputChanges
<1> QED BY <1>6, <1>7, <1>8, <1>9, <1>11, <1>12 DEF U6acInv

LEMMA NoOutputInv ==
  ASSUME U6acInv, NoOutput
  PROVE  U6acInv'
<1>1. /\ UNCHANGED <<job, vars, args, fs, stdout, faults>>
      /\ stage = "output" /\ stage' = "terminate" /\ exit_code' = 1
      /\ \/ opt' = opt
         \/ opt' = [opt EXCEPT !.file_name = OutputName] /\ ~ToStdout
  BY DEF NoOutput, At, Exit
<1>2. phase' = phase /\ written' = written /\ phase = "idle" /\ opt.output_stream = NULL
      /\ exit_code = 0 /\ "info" \notin stdout
  BY <1>1, EarlyFacts DEF vars, Generated, Early, Streams, ExitCode
<1>3. /\ opt' \in ArgOptions
      /\ opt'.input_file = opt.input_file /\ opt'.output_stream = NULL
      /\ opt'.file_name = opt.file_name \/ opt'.file_name \in Outputs
  <2>1. CASE opt' = opt
    BY <1>2, <2>1, EarlyFacts
  <2>2. CASE opt' # opt
    <3>1. PICK f \in Words : f = OutputName /\ f \in Outputs
      BY <1>1, <2>2, OutputNameIs
    <3> QED BY <1>1, <1>2, <2>2, <3>1, EarlyFacts DEF ArgOptions
  <2> QED BY <2>1, <2>2
<1>4. DriverType'
  BY <1>1, <1>2, <1>3, EarlyFacts DEF DriverType, Early
<1>5. Streams' /\ Generated' /\ ExitCode'
  <2>1. Streams'
    BY <1>1, <1>2, <1>3, EarlyFacts DEF Streams, NULL
  <2>2. Generated'
    BY <1>1, <1>2, <1>3, EarlyFacts DEF Generated, Early
  <2>3. ExitCode'
    BY <1>1, <1>2, <1>3, EarlyFacts DEF ExitCode, Early, NULL
  <2> QED BY <2>1, <2>2, <2>3
<1>6. OutputFile' /\ ExitTellsOutput' /\ OwnOutput'
  BY <1>1, <1>2, <1>3, EarlyFacts DEF OutputFile, ExitTellsOutput, OwnOutput, NULL
<1>7. FirstO' = FirstO /\ Outputs' = Outputs
  BY <1>1 DEF FirstO, Outputs
<1>8. Named'
  BY <1>1, <1>2, <1>3, <1>7, EarlyFacts DEF Named
<1>9. OnlyOutputChanges'
  BY <1>1, <1>7, EarlyFacts DEF OnlyOutputChanges
<1> QED BY <1>4, <1>5, <1>6, <1>8, <1>9 DEF U6acInv

-----------------------------------------------------------------------------
(* Lexer and parser; a source that is its own output ends here.            *)
LEMMA ParseInv ==
  ASSUME U6acInv, Lex \/ Parse
  PROVE  U6acInv'
<1>1. /\ UNCHANGED <<job, vars, args, opt, fs, faults>>
      /\ stage \in {"lex", "parse"}
      /\ stdout' \in {stdout, stdout \cup {"info"}}
      /\ stdout' # stdout => opt.verbose
      /\ \/ stage' = "parse" /\ exit_code' = exit_code
         \/ stage' = "terminate" /\ exit_code' \in {2, 3}
         \/ /\ exit_code' = exit_code /\ ~Emptied
            /\ stage' = IF opt.output_stream = NULL THEN "terminate" ELSE "codegen"
  BY DEF Lex, Parse, At, Goto, Exit, Info
<1>2. phase' = phase /\ written' = written /\ phase = "idle" /\ exit_code = 0 /\ written = <<>>
  BY <1>1, EarlyFacts DEF vars, Generated, Early, Streams, ExitCode
<1>3. DriverType'
  BY <1>1, <1>2, EarlyFacts DEF DriverType, Early
<1>4. Streams'
  BY <1>1, <1>2, EarlyFacts DEF Streams, NULL
<1>5. Generated' /\ ExitCode'
  <2>1. stage' \notin {"terminate", "exited"} => exit_code' = 0
    BY <1>1, <1>2
  <2>2. stage' # "terminate" \/ exit_code' # 0 \/ opt'.output_stream # "open"
    <3>1. opt.output_stream = NULL => opt.output_stream # "open"
      BY DEF NULL
    <3> QED BY <1>1, <3>1
  <2>3. Generated'
    BY <1>2, EarlyFacts DEF Generated
  <2> QED BY <1>2, <2>1, <2>2, <2>3 DEF ExitCode
<1>6. OutputFile' /\ ExitTellsOutput'
  BY <1>1, <1>2, EarlyFacts DEF OutputFile, ExitTellsOutput
<1>7. OwnOutput'
  <2>1. CASE stage' = "parse" \/ exit_code' # 0
    BY <1>1, <2>1, EarlyFacts DEF OwnOutput
  <2>2. CASE ~Emptied /\ exit_code' = 0 /\ stage' \in {"codegen", "terminate"}
    <3>1. ~(opt.output_stream \in {"open", "closed"} /\ opt.file_name = job.input)
      <4>1. SUFFICES ASSUME opt.output_stream \in {"open", "closed"}, opt.file_name = job.input
                     PROVE  FALSE
        OBVIOUS
      <4>2. opt.input_file = "open" /\ opt.output_stream = "open"
        BY <1>1, <1>2, <4>1, EarlyFacts DEF OwnOutput, Streams
      <4>3. fs[opt.file_name] = "empty"
        BY <1>2, <4>2, EarlyFacts DEF OutputFile
      <4> QED BY <2>2, <4>1, <4>2, <4>3 DEF Emptied
    <3> QED BY <1>1, <2>2, <3>1, EarlyFacts DEF OwnOutput
  <2> QED BY <1>1, <1>2, <2>1, <2>2
<1>8. FirstO' = FirstO /\ Outputs' = Outputs
  BY <1>1 DEF FirstO, Outputs
<1>9. Named'
  BY <1>1, <1>8, EarlyFacts DEF Named
<1>10. OnlyOutputChanges'
  BY <1>1, <1>8, EarlyFacts DEF OnlyOutputChanges
<1> QED BY <1>3, <1>4, <1>5, <1>6, <1>7, <1>9, <1>10 DEF U6acInv

(* The calls of the generator, and what it returned.                       *)
LEMMA CallsInv ==
  ASSUME U6acInv, CallCodegen \/ EndCodegen
  PROVE  U6acInv'
<1>1. /\ UNCHANGED <<job, args, opt, fs, faults, written>>
      /\ stage = "codegen"
      /\ stdout' \in {stdout, stdout \cup {"info"}}
      /\ stdout' # stdout => opt.verbose
      /\ \/ stage' = "codegen" /\ exit_code' = exit_code /\ phase' = "prefix"
         \/ stage' = "wild" /\ exit_code' = exit_code /\ phase' = phase /\ phase = "wild"
         \/ /\ stage' = "terminate" /\ phase \in {"ok", "failed"} /\ phase' = phase
            /\ exit_code' = IF phase = "failed" THEN 4 ELSE 0
  BY DEF CallCodegen, EndCodegen, Start, At, Goto, Exit, Info, FailedWith, vars
<1>2. exit_code = 0 /\ opt.output_stream \in {"stdout", "open"}
  BY <1>1, EarlyFacts DEF ExitCode, Streams, ArgOptions
<1>3. DriverType'
  BY <1>1, <1>2, EarlyFacts DEF DriverType
<1>4. Streams'
  BY <1>1, <1>2, EarlyFacts DEF Streams
<1>5. Generated' /\ ExitCode'
  BY <1>1, <1>2, EarlyFacts DEF Generated, ExitCode, Early
<1>6. OutputFile' /\ ExitTellsOutput' /\ OwnOutput'
  BY <1>1, <1>2, EarlyFacts DEF OutputFile, ExitTellsOutput, OwnOutput
<1>7. FirstO' = FirstO /\ Outputs' = Outputs
  BY <1>1 DEF FirstO, Outputs
<1>8. Named'
  BY <1>1, <1>7, EarlyFacts DEF Named
<1>9. OnlyOutputChanges'
  BY <1>1, <1>7, EarlyFacts DEF OnlyOutputChanges
<1> QED BY <1>3, <1>4, <1>5, <1>6, <1>8, <1>9 DEF U6acInv

(* A step of the generator: what is written goes to the output, no other.  *)
LEMMA RunCodegenInv ==
  ASSUME U6acInv, RunCodegen
  PROVE  U6acInv'
<1>1. /\ UNCHANGED <<job, args, opt, stage, exit_code, faults>>
      /\ stage = "codegen" /\ CodegenStep
      /\ \/ /\ written' # written /\ opt.output_stream = "stdout"
            /\ stdout' = stdout \cup {"code"} /\ fs' = fs
         \/ /\ written' # written /\ opt.output_stream = "open"
            /\ fs' = [fs EXCEPT ![opt.file_name] = "cut"] /\ stdout' = stdout
         \/ written' = written /\ fs' = fs /\ stdout' = stdout
  BY DEF RunCodegen
<1>2. exit_code = 0 /\ opt.output_stream \in {"stdout", "open"}
  BY <1>1, EarlyFacts DEF ExitCode, Streams, ArgOptions
<1>3. Sequence(written)
  BY EarlyFacts DEF Generated, Sequence
<1>4. /\ phase' # "idle" /\ Sequence(written')
      /\ phase' = "ok" => written' # <<>>
      /\ written' = written \/ written' # <<>>
  BY <1>1, <1>3, CodegenWrites, AppendLonger
<1>5. fs' \in [DOMAIN job.files -> {"none", "old", "empty", "cut", "new"}]
  BY <1>1, EarlyFacts
<1>6. DriverType'
  BY <1>1, <1>2, <1>5, EarlyFacts DEF DriverType
<1>7. Streams'
  BY <1>1, <1>2, EarlyFacts DEF Streams
<1>8. Generated'
  BY <1>1, <1>4 DEF Generated, Early, Sequence
<1>9. ExitCode' /\ OwnOutput' /\ ExitTellsOutput'
  BY <1>1, <1>2, EarlyFacts DEF ExitCode, OwnOutput, ExitTellsOutput
<1>10. OutputFile'
  BY <1>1, <1>4, EarlyFacts DEF OutputFile
<1>11. FirstO' = FirstO /\ Outputs' = Outputs
  BY <1>1 DEF FirstO, Outputs
<1>12. Named'
  BY <1>1, <1>11, EarlyFacts DEF Named
<1>13. OnlyOutputChanges'
  <2>1. opt.output_stream = "open" => opt.file_name \in Outputs
    <3>1. opt.output_stream = "open" => opt.file_name \in DOMAIN job.files
      BY EarlyFacts DEF OutputFile
    <3> QED BY <3>1, EarlyFacts, JobsAssumption DEF Named
  <2> QED BY <1>1, <1>11, <2>1, EarlyFacts DEF OnlyOutputChanges
<1> QED BY <1>6, <1>7, <1>8, <1>9, <1>10, <1>12, <1>13 DEF U6acInv

(* arg_options_destroy: the last of the output gets to the file, or not;   *)
(* and the file goes unless all went well.                                 *)
LEMMA FlushedDoes ==
  ASSUME U6acInv, stage = "terminate", NEW lost \in BOOLEAN
  PROVE  /\ Flushed(lost) \in [DOMAIN fs -> {"none", "old", "empty", "cut", "new"}]
         /\ opt.output_stream # "open" => Flushed(lost) = fs
         /\ \A f \in DOMAIN fs : f # opt.file_name => Flushed(lost)[f] = fs[f]
         /\ opt.output_stream = "open" /\ phase = "ok" /\ ~lost =>
              Flushed(lost)[opt.file_name] = "new"
         /\ phase # "ok" => \A f \in DOMAIN fs : Flushed(lost)[f] # "new"
<1>1. PICK c \in {"new", "cut"} :
        /\ c = IF phase = "ok" /\ ~lost THEN "new" ELSE "cut"
        /\ Flushed(lost) = IF opt.output_stream = "open" /\ fs[opt.file_name] # "empty"
                           THEN [fs EXCEPT ![opt.file_name] = c] ELSE fs
  BY DEF Flushed
<1>2. /\ fs \in [DOMAIN fs -> {"none", "old", "empty", "cut", "new"}]
      /\ \A f \in DOMAIN fs : fs[f] # "new"
      /\ opt.output_stream = "open" =>
           /\ opt.file_name \in DOMAIN fs
           /\ fs[opt.file_name] = IF written = <<>> THEN "empty" ELSE "cut"
      /\ phase = "ok" => written # <<>>
  BY EarlyFacts DEF OutputFile, Generated
<1>3. Flushed(lost) \in [DOMAIN fs -> {"none", "old", "empty", "cut", "new"}]
  BY <1>1, <1>2
<1>4. opt.output_stream # "open" => Flushed(lost) = fs
  BY <1>1
<1>5. \A f \in DOMAIN fs : f # opt.file_name => Flushed(lost)[f] = fs[f]
  BY <1>1, <1>2
<1>6. opt.output_stream = "open" /\ phase = "ok" /\ ~lost => Flushed(lost)[opt.file_name] = "new"
  BY <1>1, <1>2
<1>7. phase # "ok" => \A f \in DOMAIN fs : Flushed(lost)[f] # "new"
  BY <1>1, <1>2
<1> QED BY <1>3, <1>4, <1>5, <1>6, <1>7

LEMMA TerminateInv ==
  ASSUME U6acInv, Terminate
  PROVE  U6acInv'
<1>1. /\ UNCHANGED <<job, vars, args, stdout, exit_code>>
      /\ stage = "terminate" /\ stage' = "exited"
      /\ opt' = [opt EXCEPT !.input_file    = Closed(opt.input_file),
                            !.output_stream = Closed(opt.output_stream)]
  BY DEF Terminate, At, Goto
<1>2. PICK lost \in BOOLEAN, kept \in BOOLEAN :
        /\ fs' = IF Deletes /\ ~kept THEN [Flushed(lost) EXCEPT ![opt.file_name] = "none"]
                 ELSE Flushed(lost)
        /\ faults' = {f \in {"fclose", "remove"} : IF f = "fclose" THEN lost ELSE kept}
  BY DEF Terminate
<1>3. /\ Closed(opt.input_file) \in {NULL, "stdin", "closed"}
      /\ Closed(opt.input_file) = "stdin" => opt.input_file = "stdin"
      /\ Closed(opt.output_stream) \in {NULL, "stdout", "closed"}
      /\ Closed(opt.output_stream) = "closed" <=> opt.output_stream = "open"
      /\ Closed(opt.output_stream) = "stdout" <=> opt.output_stream = "stdout"
  BY <1>1, EarlyFacts DEF Closed, ArgOptions, Streams, NULL
<1>4. /\ opt' \in ArgOptions
      /\ opt'.input_file = Closed(opt.input_file)
      /\ opt'.output_stream = Closed(opt.output_stream)
      /\ opt'.file_name = opt.file_name
      /\ opt'.verbose = opt.verbose
  BY <1>1, <1>3, EarlyFacts DEF ArgOptions
<1>5. phase' = phase /\ written' = written
  BY <1>1 DEF vars
<1>6. /\ opt.output_stream = "open" =>
           opt.file_name \in DOMAIN fs /\ opt.file_name # NULL /\ opt.file_name \in Outputs
      /\ Deletes => opt.file_name \in Outputs
  <2>1. opt.output_stream = "open" => opt.file_name \in DOMAIN fs /\ opt.file_name # NULL
    BY EarlyFacts, JobsAssumption DEF OutputFile
  <2> QED BY <2>1, EarlyFacts DEF Named, Deletes
<1>7. /\ Flushed(lost) \in [DOMAIN fs -> {"none", "old", "empty", "cut", "new"}]
      /\ opt.output_stream # "open" => Flushed(lost) = fs
      /\ \A f \in DOMAIN fs : f # opt.file_name => Flushed(lost)[f] = fs[f]
      /\ opt.output_stream = "open" /\ phase = "ok" /\ ~lost =>
           Flushed(lost)[opt.file_name] = "new"
      /\ phase # "ok" => \A f \in DOMAIN fs : Flushed(lost)[f] # "new"
  BY <1>1, <1>2, FlushedDoes
<1>8. fs' \in [DOMAIN fs -> {"none", "old", "empty", "cut", "new"}]
  BY <1>2, <1>7
<1>9. DriverType'
  BY <1>1, <1>4, <1>8, EarlyFacts DEF DriverType
<1>10. Streams'
  BY <1>1, <1>3, <1>4, EarlyFacts DEF Streams, NULL
<1>11. Generated' /\ ExitCode'
  BY <1>1, <1>5, EarlyFacts DEF Generated, ExitCode, Early
<1>12. OutputFile'
  BY <1>1, <1>3, <1>4 DEF OutputFile, NULL
<1>13. OwnOutput'
  BY <1>1, <1>3, <1>4, EarlyFacts DEF OwnOutput, NULL
<1>14. FirstO' = FirstO /\ Outputs' = Outputs
  BY <1>1 DEF FirstO, Outputs
<1>15. Named'
  BY <1>1, <1>3, <1>4, <1>14, EarlyFacts DEF Named
<1>16. OnlyOutputChanges'
  <2>1. \A f \in DOMAIN fs : fs'[f] = fs[f] \/ f \in Outputs
    BY <1>2, <1>6, <1>7
  <2> QED BY <1>1, <1>8, <1>14, <2>1, EarlyFacts DEF OnlyOutputChanges
<1>17. ExitTellsOutput'
  <2>1. CASE opt.output_stream # "open"
    BY <1>1, <1>3, <1>4, <2>1 DEF ExitTellsOutput, NULL
  <2>2. CASE opt.output_stream = "open" /\ exit_code = 0
    <3>1. phase = "ok" /\ ~Deletes
      BY <1>1, <2>2, EarlyFacts DEF ExitCode, Deletes
    <3>2. fs'[opt.file_name] = "new" \/ "fclose" \in faults'
      BY <1>2, <1>7, <2>2, <3>1
    <3> QED BY <1>1, <1>3, <1>4, <2>2, <3>2 DEF ExitTellsOutput, NULL
  <2>3. CASE opt.output_stream = "open" /\ exit_code # 0
    <3>1. phase # "ok" /\ Deletes
      BY <1>1, <1>6, <2>3, EarlyFacts DEF ExitCode, Deletes
    <3>2. fs'[opt.file_name] # "new" /\ (fs'[opt.file_name] = "none" \/ "remove" \in faults')
      BY <1>2, <1>6, <1>7, <2>3, <3>1
    <3> QED BY <1>1, <1>3, <1>4, <2>3, <3>2 DEF ExitTellsOutput, NULL
  <2> QED BY <2>1, <2>2, <2>3
<1> QED BY <1>9, <1>10, <1>11, <1>12, <1>13, <1>15, <1>16, <1>17 DEF U6acInv

-----------------------------------------------------------------------------

LEMMA NextInv == U6acInv /\ [U6acNext]_u6ac_vars => U6acInv'
<1> SUFFICES ASSUME U6acInv, [U6acNext]_u6ac_vars PROVE U6acInv'
  OBVIOUS
<1>1. CASE TakeOption
  BY <1>1, TakeOptionInv
<1>2. CASE BadOption \/ EndOptions \/ NoInput
  BY <1>2, OptionsEndInv
<1>3. CASE OpenInput
  BY <1>3, OpenInputInv
<1>4. CASE SyntaxOnly \/ UseStdout \/ NameNoMemory
  BY <1>4, NoFileInv
<1>5. CASE UseFile
  BY <1>5, UseFileInv
<1>6. CASE NoOutput
  BY <1>6, NoOutputInv
<1>7. CASE Lex \/ Parse
  BY <1>7, ParseInv
<1>8. CASE CallCodegen \/ EndCodegen
  BY <1>8, CallsInv
<1>9. CASE RunCodegen
  BY <1>9, RunCodegenInv
<1>10. CASE Terminate
  BY <1>10, TerminateInv
<1>11. CASE UNCHANGED u6ac_vars
  <2>1. UNCHANGED <<job, args, opt, fs, stdout, stage, exit_code, faults, phase, written>>
    BY <1>11 DEF u6ac_vars, driver_vars, vars
  <2>2. DriverType' /\ Streams' /\ Generated' /\ ExitCode' /\ OutputFile' /\ OwnOutput'
    BY <2>1, EarlyFacts DEF DriverType, Streams, Generated, ExitCode, OutputFile, OwnOutput
  <2>3. FirstO' = FirstO /\ Outputs' = Outputs
    BY <2>1 DEF FirstO, Outputs
  <2>4. Named' /\ OnlyOutputChanges' /\ ExitTellsOutput'
    BY <2>1, <2>3, EarlyFacts DEF Named, OnlyOutputChanges, ExitTellsOutput
  <2> QED BY <2>2, <2>4 DEF U6acInv
<1> QED BY <1>1, <1>2, <1>3, <1>4, <1>5, <1>6, <1>7, <1>8, <1>9, <1>10, <1>11
        DEF U6acNext, ProcessOptions, Over

(* All of the invariant, of every run of u6ac on every job.                *)
THEOREM DriverSound == U6acSpec => []U6acInv
<1> QED BY InitInv, NextInv, PTL DEF U6acSpec

(* The exit code tells whether the output file is complete, or gone.       *)
THEOREM ExitTellsOutputHolds == U6acSpec => []ExitTellsOutput
<1>1. U6acInv => ExitTellsOutput
  BY DEF U6acInv
<1> QED BY <1>1, DriverSound, PTL

(* No file but the output changes.                                         *)
THEOREM OnlyOutputHolds == U6acSpec => []OnlyOutputChanges
<1>1. U6acInv => OnlyOutputChanges
  BY DEF U6acInv
<1> QED BY <1>1, DriverSound, PTL

(* Messages and code never meet on stdout.                                 *)
THEOREM StdoutPureHolds == U6acSpec => []StdoutPure
<1>1. U6acInv => StdoutPure
  BY DEF U6acInv, Streams, StdoutPure
<1> QED BY <1>1, DriverSound, PTL

(* A source that is its own output is not reported as compiled.            *)
THEOREM NotOwnOutputHolds == U6acSpec => []NotOwnOutput
<1>1. U6acInv => NotOwnOutput
  BY DEF U6acInv, OwnOutput, NotOwnOutput
<1> QED BY <1>1, DriverSound, PTL

-----------------------------------------------------------------------------
(* What u6ac does with the generator is what the generator may do.         *)

LEMMA GeneratorStep ==
  ASSUME U6acInv, [U6acNext]_u6ac_vars
  PROVE  [Next]_vars
<1>1. CASE CallCodegen
  <2>1. PICK opts : /\ opts = [prefix |-> opt.prefix, optimize_const |-> opt.optimize_level = "1",
                               dump_mnemonics |-> opt.dump_mnemonics]
                    /\ Start(job.ast, opts)
    BY <1>1 DEF CallCodegen
  <2>2. opt.prefix \in BOOLEAN /\ opt.dump_mnemonics \in BOOLEAN /\ job.ast \in Asts
    BY EarlyFacts, JobsAssumption DEF ArgOptions
  <2>3. opts \in Options
    BY <2>1, <2>2 DEF Options
  <2> QED BY <2>1, <2>2, <2>3 DEF Next
<1>2. CASE RunCodegen
  BY <1>2 DEF RunCodegen, Next
<1>3. CASE UNCHANGED vars
  BY <1>3
<1>4. CallCodegen \/ RunCodegen \/ UNCHANGED vars
  BY DEF U6acNext, ProcessOptions, u6ac_vars, At, TakeOption, BadOption, EndOptions, OpenInput,
         NoInput, SyntaxOnly, UseStdout, UseFile, NoOutput, NameNoMemory, Lex, Parse,
         EndCodegen, Terminate, Over
<1> QED BY <1>1, <1>2, <1>3, <1>4

(* u6ac calls the generator as it may be called, so that what is proved of *)
(* every run of it is true in the compiler.                                *)
THEOREM RunsGenerator == U6acSpec => Spec
<1>1. U6acInit => Init
  BY DEF U6acInit
<1>2. U6acInv /\ [U6acNext]_u6ac_vars => [Next]_vars
  BY GeneratorStep
<1> QED BY <1>1, <1>2, DriverSound, PTL DEF U6acSpec, Spec

(* The ranges and the sizes of the generator's buffers, in the compiler.   *)
THEOREM CompilerBuffersHold == U6acSpec => [](TypeOK /\ BuffersFit /\ JumpsLand)
BY RunsGenerator, TypeHolds, BuffersHold, JumpsHold, PTL

(* What u6ac -S wrote tells the whole program, in the compiler as well.    *)
THEOREM CompilerDumpsTell == U6acSpec => []DumpTells
BY RunsGenerator, DumpTellsHolds, PTL

(* The bytecode u6ac writes is the program of the syntax tree, whichever   *)
(* options u6ac was given.                                                 *)
THEOREM CompilerWritesTree == U6acSpec => []TextIsTree
BY RunsGenerator, TextHolds, PTL

=============================================================================
