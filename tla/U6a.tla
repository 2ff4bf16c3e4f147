--------------------------------- MODULE U6a ---------------------------------
(***************************************************************************)
(* The program u6a around the interpreter: options, the bytecode file,     *)
(* u6a_runtime_init with the memory it takes, u6a_runtime_destroy.  Any    *)
(* allocation may fail, and the file may hold and end with anything.       *)
(***************************************************************************)
EXTENDS Integers, Sequences

CONSTANTS
  Args,       (* command lines: sequences of options                       *)
  Files,      (* what the bytecode file may be                             *)
  Base,       (* the number of values of a byte, 256                       *)
  Wrap,       (* 2^32: what strtoul returns is stored modulo this          *)
  MinSize, MaxSize, DefaultSize   (* of the option s, and of p             *)

ASSUME SizesAssumption ==
  /\ Base \in Nat \ {0} /\ Wrap = Base * Base * Base * Base
  /\ Wrap \in Nat \ {0}
  /\ MinSize \in [{"s", "p"} -> Nat] /\ MaxSize \in [{"s", "p"} -> Nat]
  /\ DefaultSize \in [{"s", "p"} -> Nat]
  /\ \A o \in {"s", "p"} : /\ DefaultSize[o] \in MinSize[o]..MaxSize[o]
                           /\ MaxSize[o] < Wrap /\ MinSize[o] > 0

(* The options getopt_long returns; "?" stands for a wrong one.            *)
Option == [o : {"s", "p", "i", "f", "H", "V", "?"}, n : Nat]

ASSUME ArgsAssumption == Args \subseteq Seq(Option)

(* A bytecode file: whether there is a magic byte and a whole file header, *)
(* of which version, with which byte for the size of the program header;   *)
(* how many bytes follow, and the two numbers that the first 8 of them     *)
(* are, if there are 8.                                                    *)
Num  == 0..(Wrap - 1)
File == [found : BOOLEAN, same_ver : BOOLEAN, prog_header_size : 0..255,
         bytes : Nat, text_size : Num, rodata_size : Num]

ASSUME FilesAssumption == Files \subseteq File

Blocks == {"text", "rodata", "stack", "pool", "holes", "fstack"}

VARIABLES
  args, optind,     (* the command line, and the option that is next       *)
  size,             (* stack_segment_size and pool_size, as s and p        *)
  print_info, force_exec, print_only,
  file,             (* the bytecode file                                   *)
  left,             (* its bytes behind the file header not yet read       *)
  prog,             (* header.prog, as numbers of this machine             *)
  istream,          (* "none", "stdin", "open" or "closed"                 *)
  mem,              (* the blocks: "none", "live" or "freed"               *)
  ptr,              (* the static pointers text and rodata: TRUE if not    *)
                    (* NULL                                                *)
  pc,               (* where in main, u6a_runtime_init or                  *)
                    (* u6a_runtime_info                                    *)
  exit_code,
  ub                (* history: "double_free", "unreachable", "overflow"   *)
                    (* when header.prog is too short for what is read, and *)
                    (* "uninit" when a size is used that was not read      *)

options == <<size, print_info, force_exec, print_only>>
bytecode == <<file, left, prog>>
vars == <<args, optind, options, bytecode, istream, mem, ptr, pc, exit_code, ub>>

Init ==
  /\ args \in Args
  /\ optind = 1
  /\ size = DefaultSize
  /\ print_info = FALSE /\ force_exec = FALSE /\ print_only = FALSE
  /\ file \in Files
  /\ left = file.bytes
  /\ prog = [text_size |-> 0, rodata_size |-> 0]
  /\ istream = "none"
  /\ mem = [b \in Blocks |-> "none"]
  /\ ptr = [b \in {"text", "rodata"} |-> FALSE]
  /\ pc = "options"
  /\ exit_code = 0
  /\ ub = {}

(* Control goes to the label l, with main's exit code c.                   *)
Goto(l, c) == pc' = l /\ exit_code' = c
Failed(c)  == Goto("terminate", c)

-----------------------------------------------------------------------------
(* process_options                                                         *)

AtOption(os) == pc = "options" /\ optind <= Len(args) /\ args[optind].o \in os

(* PARSE_UINT_OPT: strtoul gives 64 bits and sets errno when these are too *)
(* few; the number is cut to 32 bits, then checked.                        *)
InRange(o, n) == n >= MinSize[o] /\ n <= MaxSize[o]
Long   == Wrap * Wrap
Cut(n) == IF n < Long THEN n % Wrap ELSE Wrap - 1

SizeOptionLong ==
  LET o == args[optind].o
      n == args[optind].n
  IN  /\ AtOption({"s", "p"})
      /\ size' = [size EXCEPT ![o] = n]
      /\ optind' = optind + 1
      /\ IF n < Long /\ InRange(o, Cut(n)) THEN Goto("options", 0) ELSE Failed(1)
      /\ UNCHANGED <<args, print_info, force_exec, print_only, bytecode, istream,
                     mem, ptr, ub>>

SizeOption ==
  LET o == args[optind].o
      n == args[optind].n
  IN  /\ AtOption({"s", "p"})
      /\ size' = [size EXCEPT ![o] = Cut(n)]
      /\ optind' = optind + 1
      /\ IF n < Long /\ InRange(o, Cut(n)) THEN Goto("options", 0) ELSE Failed(1)
      /\ UNCHANGED <<args, print_info, force_exec, print_only, bytecode, istream,
                     mem, ptr, ub>>

FlagOption ==
  /\ AtOption({"i", "f", "H"})
  /\ print_info' = (print_info \/ args[optind].o = "i")
  /\ force_exec' = (force_exec \/ args[optind].o = "f")
  /\ print_only' = (print_only \/ args[optind].o = "H")
  /\ optind' = optind + 1
  /\ UNCHANGED <<args, size, bytecode, istream, mem, ptr, pc, exit_code, ub>>

BadOption ==
  /\ AtOption({"?"})
  /\ Failed(1)
  /\ UNCHANGED <<args, optind, options, bytecode, istream, mem, ptr, ub>>

(* getopt_long returns 'V' for -V and --version; the switch has a case 'v' *)
(* and U6A_NOT_REACHED for the rest: whatever comes next is undefined.     *)
VersionOption ==
  /\ AtOption({"V"})
  /\ ub' = ub \cup {"unreachable"}
  /\ pc' = "undefined"
  /\ UNCHANGED <<args, optind, options, bytecode, istream, mem, ptr, exit_code>>

(* The bytecode file: standard input, or one that can be opened or not.    *)
OpenFile ==
  /\ pc = "options" /\ optind > Len(args)
  /\ \/ /\ print_only
        /\ Goto("terminate", 0)
        /\ UNCHANGED istream
     \/ /\ ~print_only
        /\ istream' \in {"stdin", "open"}
        /\ Goto("header", 0)
     \/ /\ ~print_only
        /\ Failed(1)
        /\ UNCHANGED istream
  /\ UNCHANGED <<args, optind, options, bytecode, mem, ptr, ub>>

-----------------------------------------------------------------------------
(* u6a_runtime_info and u6a_runtime_init                                   *)

(* read_bc_header: up to the magic byte, the file header, and as many      *)
(* bytes of program header as the file header says; none if these are less *)
(* than U6A_BC_FILE_HEADER_SIZE.  header.prog has 8 bytes, and what fread  *)
(* writes behind them is undefined, also when it does not get all.         *)
FileHeaderSize == 4
ProgHeaderSize == 8
Wanted == IF file.prog_header_size >= FileHeaderSize THEN file.prog_header_size ELSE 0

HeaderOverflows == file.found /\ Wanted > ProgHeaderSize /\ file.bytes > ProgHeaderSize

ReadHeader ==
  /\ pc = "header" /\ ~HeaderOverflows
  /\ IF ~file.found \/ Wanted > file.bytes THEN Failed(2) /\ UNCHANGED left
     ELSE /\ Goto(IF print_info THEN "terminate" ELSE "version", 0)
          /\ left' = file.bytes - Wanted
  /\ UNCHANGED <<args, optind, options, file, prog, istream, mem, ptr, ub>>

OverflowHeader ==
  /\ pc = "header" /\ HeaderOverflows
  /\ ub' = ub \cup {"overflow"}
  /\ pc' = "undefined"
  /\ UNCHANGED <<args, optind, options, bytecode, istream, mem, ptr, exit_code>>

(* A file of another version needs force_exec, and a program header of     *)
(* U6A_BC_FILE_HEADER_SIZE bytes.                                          *)
MayExecute == file.same_ver \/ (force_exec /\ file.prog_header_size = FileHeaderSize)

(* Numbers of 4 bytes, in network order, of which the first n are the same. *)
SameBytes(x, y, n) ==
  \/ n <= 0
  \/ n \in 1..3 /\ x \div Base^(4 - n) = y \div Base^(4 - n)
  \/ n >= 4 /\ x = y

(* What header.prog may hold when the first n of its bytes were read: the  *)
(* rest is what was on the stack.                                          *)
MayHold(p, n) == /\ SameBytes(p.text_size, file.text_size, n)
                 /\ SameBytes(p.rodata_size, file.rodata_size, n - 4)

CheckVersion ==
  /\ pc = "version"
  /\ IF MayExecute
     THEN /\ Goto("text", 0)
          /\ prog' \in {p \in [text_size : Num, rodata_size : Num] : MayHold(p, Wanted)}
          /\ ub' = IF Wanted < ProgHeaderSize THEN ub \cup {"uninit"} ELSE ub
     ELSE Failed(2) /\ UNCHANGED <<prog, ub>>
  /\ UNCHANGED <<args, optind, options, file, left, istream, mem, ptr>>

(* free and u6a_runtime_destroy: text and rodata, then both pointers are   *)
(* NULL.                                                                   *)
Freed(m, bs) == [b \in Blocks |-> IF b \in bs /\ m[b] = "live" THEN "freed"
                                  ELSE m[b]]
Pointed == {b \in DOMAIN ptr : ptr[b]}
DestroyKeep ==
  /\ mem' = Freed(mem, Pointed)
  /\ UNCHANGED ptr
  /\ ub' = IF \E b \in Pointed : mem[b] = "freed" THEN ub \cup {"double_free"}
           ELSE ub

Destroy ==
  /\ mem' = Freed(mem, Pointed)
  /\ ptr' = [b \in DOMAIN ptr |-> FALSE]
  /\ ub' = IF \E b \in Pointed : mem[b] = "freed" THEN ub \cup {"double_free"}
           ELSE ub

AllocText ==
  /\ pc = "text"
  /\ \/ /\ mem' = [mem EXCEPT !["text"] = "live"]
        /\ ptr' = [ptr EXCEPT !["text"] = TRUE]
        /\ Goto("rodata", 0)
     \/ Failed(2) /\ UNCHANGED <<mem, ptr>>
  /\ UNCHANGED <<args, optind, options, bytecode, istream, ub>>

(* Without memory for rodata, text is freed and still pointed to.          *)
AllocRodata ==
  /\ pc = "rodata"
  /\ \/ /\ mem' = [mem EXCEPT !["rodata"] = "live"]
        /\ ptr' = [ptr EXCEPT !["rodata"] = TRUE]
        /\ Goto("sections", 0)
     \/ /\ mem' = Freed(mem, {"text"})
        /\ Failed(2)
        /\ UNCHANGED ptr
  /\ UNCHANGED <<args, optind, options, bytecode, istream, ub>>

(* Both fread: whole instructions only, then rodata.                       *)
InsSize == 8
TextBytes == InsSize * (prog.text_size \div InsSize)

EnoughText == TextBytes <= left
Enough     == TextBytes + prog.rodata_size <= left

ReadSections ==
  /\ pc = "sections"
  /\ \/ /\ Enough
        /\ left' = left - TextBytes - prog.rodata_size
        /\ Goto("stack", 0)
        /\ UNCHANGED <<mem, ptr, ub>>
     \/ /\ ~Enough
        /\ Destroy
        /\ Failed(2)
        /\ UNCHANGED left
  /\ UNCHANGED <<args, optind, options, file, prog, istream>>

(* u6a_vm_stack_init, and the three blocks of u6a_vm_pool_init, which      *)
(* frees the ones it has before it fails.                                  *)
Order == <<"stack", "pool", "holes", "fstack">>

AllocVm(i) ==
  /\ pc = Order[i]
  /\ \/ /\ mem' = [mem EXCEPT ![Order[i]] = "live"]
        /\ Goto(IF i < Len(Order) THEN Order[i + 1] ELSE "execute", 0)
        /\ UNCHANGED <<ptr, ub>>
     \/ /\ mem' = Freed(mem, Pointed \cup {Order[j] : j \in 2..(i - 1)})
        /\ ptr' = [b \in DOMAIN ptr |-> FALSE]
        /\ Failed(2)
        /\ UNCHANGED ub
  /\ UNCHANGED <<args, optind, options, bytecode, istream>>

-----------------------------------------------------------------------------

(* u6a_runtime_execute returns a value, or an empty one after an error.    *)
Execute ==
  /\ pc = "execute"
  /\ Goto("terminate", 0) \/ Failed(3)
  /\ UNCHANGED <<args, optind, options, bytecode, istream, mem, ptr, ub>>

TerminateOpen ==
  /\ pc = "terminate"
  /\ Destroy
  /\ pc' = "done"
  /\ UNCHANGED <<args, optind, options, bytecode, istream, exit_code>>

(* The end of main: u6a_runtime_destroy and arg_options_destroy.           *)
Terminate ==
  /\ pc = "terminate"
  /\ Destroy
  /\ istream' = IF istream = "open" THEN "closed" ELSE istream
  /\ pc' = "done"
  /\ UNCHANGED <<args, optind, options, bytecode, exit_code>>

Ended == pc \in {"done", "undefined"} /\ UNCHANGED vars

Next ==
  \/ SizeOption \/ FlagOption \/ BadOption \/ VersionOption \/ OpenFile
  \/ ReadHeader \/ OverflowHeader \/ CheckVersion \/ AllocText \/ AllocRodata \/ ReadSections
  \/ \E i \in DOMAIN Order : AllocVm(i)
  \/ Execute \/ Terminate \/ Ended

Spec == Init /\ [][Next]_vars

-----------------------------------------------------------------------------

(* The flags, handles and exit code of the u6a driver keep their ranges    *)
(* from the first option to the last free.                                 *)
Labels == {"options", "header", "version", "text", "rodata", "sections", "stack",
           "pool", "holes", "fstack", "execute", "terminate", "done", "undefined"}

TypeOK ==
  /\ args \in Args /\ file \in Files
  /\ left \in 0..file.bytes /\ prog \in [text_size : Num, rodata_size : Num]
  /\ print_info \in BOOLEAN /\ force_exec \in BOOLEAN /\ print_only \in BOOLEAN
  /\ pc \in Labels
  /\ optind \in 1..(Len(args) + 1)
  /\ size \in [{"s", "p"} -> Num]
  /\ istream \in {"none", "stdin", "open", "closed"}
  /\ mem \in [Blocks -> {"none", "live", "freed"}]
  /\ ptr \in [{"text", "rodata"} -> BOOLEAN]
  /\ exit_code \in 0..3
  /\ ub \subseteq {"double_free", "unreachable", "overflow", "uninit"}

(* Option i is the last of the first k that gives the size o.              *)
LastGiven(o, i, k) == args[i].o = o /\ \A j \in (i + 1)..k : args[j].o # o

(* Of the first k options the last one that gave a size holds, cut to 32   *)
(* bits, and the default when there is none.                               *)
SizeGiven(o, k) ==
  \/ size[o] = DefaultSize[o] /\ \A i \in 1..k : args[i].o # o
  \/ \E i \in 1..k : LastGiven(o, i, k) /\ args[i].n < Long /\ size[o] = args[i].n % Wrap
SizesGiven(k) == \A o \in {"s", "p"} : SizeGiven(o, k)

(* Text, in whole instructions, and rodata lie behind the program header   *)
(* and in the file; they are as long as this header says, as far as the    *)
(* file header let it be read.                                             *)
SectionsLoaded ==
  /\ file.found /\ Wanted <= ProgHeaderSize
  /\ MayHold(prog, Wanted)
  /\ Wanted + TextBytes + prog.rodata_size + left = file.bytes /\ left >= 0
  /\ "uninit" \in ub <=> Wanted < ProgHeaderSize

(* The interpreter starts with the sizes given last, cut to 32 bits and in *)
(* range; with a file of its version or one of another it was forced to    *)
(* take; with sections that lie whole in the file and have the lengths in  *)
(* its program header, or unread ones where this has not 8 bytes, which ub *)
(* then says; and with all six blocks.                                     *)
StartsComplete ==
  pc = "execute" =>
    /\ SizesGiven(Len(args)) /\ \A o \in DOMAIN size : InRange(o, size[o])
    /\ file.same_ver \/ force_exec
    /\ SectionsLoaded
    /\ \A b \in Blocks : mem[b] = "live"
    /\ \A b \in DOMAIN ptr : ptr[b]

(* However u6a ends, the sections are given back and the file is closed.   *)
EndsClean ==
  pc = "done" => /\ \A b \in DOMAIN ptr : mem[b] # "live" /\ ~ptr[b]
                 /\ istream # "open"

(* A block is freed twice only when there was memory for text and none for *)
(* rodata; a pointer that is set points to live memory otherwise.          *)
NoMemoryForRodata == mem["text"] = "freed" /\ mem["rodata"] = "none"
FreesOnce ==
  /\ "double_free" \in ub => NoMemoryForRodata
  /\ (\E b \in Pointed : mem[b] # "live") => NoMemoryForRodata

(* Until u6a ends or fails, its sizes are those of the options so far and  *)
(* in range, and what was read and checked of the file still holds.        *)
Ending    == {"terminate", "done", "undefined"}
InOptions == {"options", "header", "version"}
InVm      == {"stack", "pool", "holes", "fstack"}

HeaderRead == file.found /\ Wanted <= ProgHeaderSize

Accepted ==
  /\ pc \notin Ending =>
       SizesGiven(optind - 1) /\ \A o \in {"s", "p"} : InRange(o, size[o])
  /\ pc \notin Ending \cup {"options"} => optind = Len(args) + 1
  /\ pc \in InOptions => "uninit" \notin ub
  /\ pc \notin Ending \cup {"options", "header"} => HeaderRead
  /\ pc \in {"version", "text", "rodata", "sections"} => Wanted + left = file.bytes
  /\ pc \notin Ending \cup InOptions =>
       /\ MayExecute /\ MayHold(prog, Wanted)
       /\ "uninit" \in ub <=> Wanted < ProgHeaderSize
  /\ pc \in InVm \cup {"execute"} =>
       Wanted + TextBytes + prog.rodata_size + left = file.bytes

(* The blocks that are live on the way to the interpreter, and text and    *)
(* rodata with their pointers on the way out.                              *)
LiveAt(l) ==
  CASE l \in InOptions \cup {"text"} -> {}
    [] l = "rodata"   -> {"text"}
    [] l \in {"sections", "stack"} -> {"text", "rodata"}
    [] l = "pool"     -> {"text", "rodata", "stack"}
    [] l = "holes"    -> {"text", "rodata", "stack", "pool"}
    [] l = "fstack"   -> {"text", "rodata", "stack", "pool", "holes"}
    [] l = "execute"  -> Blocks

Owned ==
  /\ pc \notin Ending => mem = [b \in Blocks |-> IF b \in LiveAt(pc) THEN "live" ELSE "none"]
  /\ \/ \A b \in {"text", "rodata"} : ptr[b] <=> mem[b] = "live"
     \/ NoMemoryForRodata /\ ~ptr["rodata"] /\ pc \in {"terminate", "done"}

DriverInv == TypeOK /\ Accepted /\ Owned /\ EndsClean /\ FreesOnce

-----------------------------------------------------------------------------
(* What the manual says and the code does not do.                          *)

(* A file as u6ac writes it, whole.                                        *)
Whole(f) == /\ f.found /\ f.prog_header_size = ProgHeaderSize
            /\ f.bytes >= ProgHeaderSize + f.text_size + f.rodata_size

(* -f executes a file of any version.  Here, one that is complete, once it *)
(* comes to the version check.                                             *)
ForceExecutes == pc = "version" /\ force_exec /\ Whole(file) => MayExecute

=============================================================================
