------------------------------ MODULE U6aProofs ------------------------------
(***************************************************************************)
(* Proofs about the u6a driver: for every set of command lines and all     *)
(* limits of the sizes, what the interpreter starts with, and what is left *)
(* when the program ends.                                                  *)
(***************************************************************************)
EXTENDS U6a, TLAPS

(* A number cut to 32 bits is one of 32 bits.                              *)
LEMMA CutBits == \A n \in Nat : Cut(n) \in Num
BY SizesAssumption DEF Cut, Num

(* While nothing it depends on changes, what was given, read and checked   *)
(* stays so.                                                               *)
LEMMA Kept ==
  ASSUME UNCHANGED <<args, optind, size, force_exec, file, prog>>
  PROVE  /\ SizesGiven(optind - 1)' = SizesGiven(optind - 1)
         /\ (\A o \in {"s", "p"} : InRange(o, size[o]))' = (\A o \in {"s", "p"} : InRange(o, size[o]))
         /\ MayExecute' = MayExecute /\ MayHold(prog, Wanted)' = MayHold(prog, Wanted)
         /\ TextBytes' = TextBytes /\ Wanted' = Wanted /\ HeaderRead' = HeaderRead
<1>1. SizesGiven(optind - 1)' = SizesGiven(optind - 1)
  BY DEF SizesGiven, SizeGiven, LastGiven
<1>2. (\A o \in {"s", "p"} : InRange(o, size[o]))' = (\A o \in {"s", "p"} : InRange(o, size[o]))
  BY DEF InRange
<1>3. MayExecute' = MayExecute /\ Wanted' = Wanted
  BY DEF MayExecute, Wanted
<1>4. MayHold(prog, Wanted)' = MayHold(prog, Wanted)
  BY <1>3 DEF MayHold
<1>5. TextBytes' = TextBytes /\ HeaderRead' = HeaderRead
  BY <1>3 DEF TextBytes, HeaderRead
<1> QED BY <1>1, <1>2, <1>3, <1>4, <1>5

(* The bytes of a file of FilesAssumption, and what is wanted of them.     *)
LEMMA FileBytes ==
  ASSUME TypeOK
  PROVE  /\ file.found \in BOOLEAN /\ file.bytes \in Nat /\ left \in Nat /\ left <= file.bytes
         /\ Wanted \in Nat /\ TextBytes \in Nat /\ prog.text_size \in Nat /\ prog.rodata_size \in Nat
<1>1. file \in File /\ left \in 0..file.bytes
  BY FilesAssumption DEF TypeOK
<1>2. file.found \in BOOLEAN /\ file.bytes \in Nat /\ file.prog_header_size \in 0..255
  BY <1>1 DEF File
<1>3. prog.text_size \in Nat /\ prog.rodata_size \in Nat
  BY SizesAssumption DEF TypeOK, Num
<1>4. Wanted \in Nat
  BY <1>2 DEF Wanted, FileHeaderSize
<1>5. TextBytes \in Nat
  <2>1. prog.text_size \div 8 \in Nat
    BY <1>3
  <2> QED BY <2>1 DEF TextBytes, InsSize
<1> QED BY <1>1, <1>2, <1>3, <1>4, <1>5

LEMMA InitInv == Init => DriverInv
<1> SUFFICES ASSUME Init PROVE DriverInv
  OBVIOUS
<1>1. TypeOK
  <2>1. optind \in 1..(Len(args) + 1)
    <3>1. Len(args) \in Nat
      BY ArgsAssumption DEF Init
    <3> QED BY <3>1 DEF Init
  <2>2. size \in [{"s", "p"} -> Num]
    BY SizesAssumption DEF Init, Num
  <2>3. mem \in [Blocks -> {"none", "live", "freed"}] /\ ptr \in [{"text", "rodata"} -> BOOLEAN]
    BY DEF Init
  <2>4. args \in Args /\ file \in Files /\ pc \in Labels /\ exit_code \in 0..3
    BY DEF Init, Labels
  <2>5. print_info \in BOOLEAN /\ force_exec \in BOOLEAN /\ print_only \in BOOLEAN
    BY DEF Init
  <2>6. istream \in {"none", "stdin", "open", "closed"}
        /\ ub \subseteq {"double_free", "unreachable", "overflow", "uninit"}
    BY DEF Init
  <2>7. left \in 0..file.bytes
    <3>1. file.bytes \in Nat /\ left = file.bytes
      BY FilesAssumption DEF Init, File
    <3> QED BY <3>1
  <2>8. prog \in [text_size : Num, rodata_size : Num]
    <3>1. 0 \in Num
      BY SizesAssumption DEF Num
    <3> QED BY <3>1 DEF Init
  <2> QED BY <2>1, <2>2, <2>3, <2>4, <2>5, <2>6, <2>7, <2>8 DEF TypeOK
<1>2. Accepted
  <2>1. SizesGiven(optind - 1) /\ \A o \in {"s", "p"} : InRange(o, size[o])
    <3>1. size = DefaultSize /\ optind - 1 = 0
      BY DEF Init
    <3>2. \A o \in {"s", "p"} : InRange(o, size[o])
      BY <3>1, SizesAssumption DEF InRange
    <3> QED BY <3>1, <3>2 DEF SizesGiven, SizeGiven
  <2> QED BY <2>1 DEF Init, Accepted, Ending, InOptions, InVm
<1>3. Owned
  BY DEF Init, Owned, Ending, InOptions, LiveAt, Blocks
<1>4. EndsClean /\ FreesOnce
  BY DEF Init, EndsClean, FreesOnce, Pointed
<1> QED BY <1>1, <1>2, <1>3, <1>4 DEF DriverInv

(* An option of another kind leaves a size as it was given before.         *)
LEMMA GivenBefore ==
  ASSUME optind \in Nat \ {0}, NEW o \in {"s", "p"}, SizeGiven(o, optind - 1),
         UNCHANGED args, optind' = optind + 1, size'[o] = size[o], args[optind].o # o
  PROVE  SizeGiven(o, optind - 1)'
<1>1. optind' - 1 = optind /\ 1..optind = 1..(optind - 1) \cup {optind}
  OBVIOUS
<1>2. CASE size[o] = DefaultSize[o] /\ \A i \in 1..(optind - 1) : args[i].o # o
  BY <1>1, <1>2 DEF SizeGiven
<1>3. CASE \E i \in 1..(optind - 1) :
             LastGiven(o, i, optind - 1) /\ args[i].n < Long /\ size[o] = args[i].n % Wrap
  <2>1. PICK i \in 1..(optind - 1) :
             LastGiven(o, i, optind - 1) /\ args[i].n < Long /\ size[o] = args[i].n % Wrap
    BY <1>3
  <2>2. \A j \in (i + 1)..optind : j \in (i + 1)..(optind - 1) \/ j = optind
    OBVIOUS
  <2>3. i \in 1..optind /\ args'[i].o = o /\ \A j \in (i + 1)..optind : args'[j].o # o
    BY <2>1, <2>2 DEF LastGiven
  <2> QED BY <1>1, <2>1, <2>3 DEF SizeGiven, LastGiven
<1> QED BY <1>2, <1>3 DEF SizeGiven

(* The options: sizes are checked, nothing is allocated.                   *)
LEMMA OptionsInv ==
  ASSUME DriverInv, SizeOption \/ FlagOption \/ BadOption \/ VersionOption \/ OpenFile
  PROVE  DriverInv'
<1>1. TypeOK /\ Accepted /\ Owned /\ EndsClean /\ FreesOnce
  BY DEF DriverInv
<1>2. /\ pc = "options" /\ UNCHANGED <<args, file, left, prog, mem, ptr>>
      /\ \/ pc' = "options" /\ ub' = ub /\ istream' = istream
         \/ pc' = "undefined" /\ ub' = ub \cup {"unreachable"} /\ istream' = istream /\ size' = size
         \/ pc' = "terminate" /\ ub' = ub /\ istream' = istream
         \/ pc' = "header" /\ ub' = ub /\ istream' \in {"stdin", "open"} /\ size' = size
  BY <1>1 DEF SizeOption, FlagOption, BadOption, VersionOption, OpenFile, AtOption, Goto, Failed,
              options, bytecode
<1>a. Len(args) \in Nat /\ \A i \in 1..Len(args) : args[i] \in Option
  BY <1>1, ArgsAssumption DEF TypeOK
<1>b. optind \in Nat \ {0} /\ optind <= Len(args) + 1
  BY <1>1, <1>a DEF TypeOK
<1>c. ASSUME SizeOption PROVE /\ optind \in 1..Len(args) /\ args[optind].o \in {"s", "p"}
                              /\ args[optind].n \in Nat
  BY <1>b, <1>a, <1>c DEF SizeOption, AtOption, Option
<1>3. TypeOK'
  <2>1. left' \in 0..file'.bytes /\ prog' \in [text_size : Num, rodata_size : Num]
        /\ args' \in Args /\ file' \in Files
    BY <1>1, <1>2 DEF TypeOK
  <2>2. CASE SizeOption
    <3>2. PICK o \in {"s", "p"}, n \in Num : o = args[optind].o /\ n = Cut(args[optind].n)
      BY <1>c, <2>2, CutBits
    <3>3. size' = [size EXCEPT ![o] = n] /\ optind' = optind + 1
      BY <2>2, <3>2 DEF SizeOption
    <3>4. size' \in [{"s", "p"} -> Num] /\ optind' \in 1..(Len(args) + 1)
      BY <1>1, <1>a, <1>c, <2>2, <3>3 DEF TypeOK
    <3> QED BY <1>1, <2>1, <2>2, <3>4 DEF SizeOption, TypeOK, Labels, Goto, Failed
  <2>3. CASE FlagOption
    <3>1. optind' \in 1..(Len(args) + 1)
      BY <1>b, <1>a, <2>3 DEF FlagOption, AtOption
    <3> QED BY <1>1, <2>1, <2>3, <3>1 DEF FlagOption, TypeOK
  <2>4. CASE BadOption
    BY <1>1, <2>1, <2>4 DEF BadOption, TypeOK, Labels, options, Goto, Failed
  <2>5. CASE VersionOption
    BY <1>1, <2>1, <2>5 DEF VersionOption, TypeOK, Labels, options
  <2>6. CASE OpenFile
    BY <1>1, <2>1, <2>6 DEF OpenFile, TypeOK, Labels, options, Goto, Failed
  <2> QED BY <2>2, <2>3, <2>4, <2>5, <2>6
<1>4. Accepted'
  <2>0. SizesGiven(optind - 1) /\ \A o \in {"s", "p"} : InRange(o, size[o])
    BY <1>1, <1>2 DEF Accepted, Ending
  <2>1. pc' \notin Ending => (SizesGiven(optind - 1) /\ \A o \in {"s", "p"} : InRange(o, size[o]))'
    <3>1. CASE FlagOption
      <4>1. args[optind].o \notin {"s", "p"} /\ optind' = optind + 1 /\ size' = size
        BY <3>1 DEF FlagOption, AtOption
      <4>2. \A o \in {"s", "p"} : SizeGiven(o, optind - 1)'
        BY <1>2, <1>b, <2>0, <4>1, GivenBefore DEF SizesGiven
      <4> QED BY <2>0, <4>1, <4>2 DEF SizesGiven, InRange
    <3>2. CASE SizeOption /\ pc' # "terminate"
      <4>1. PICK o \in {"s", "p"}, n \in Nat : o = args[optind].o /\ n = args[optind].n
        BY <1>c, <3>2
      <4>2. size' = [size EXCEPT ![o] = Cut(n)] /\ InRange(o, Cut(n)) /\ n < Long
            /\ optind' = optind + 1
        BY <3>2, <4>1 DEF SizeOption, Goto, Failed
      <4>3. size'[o] = Cut(n) /\ \A p \in {"s", "p"} : p # o => size'[p] = size[p]
        BY <1>1, <4>2 DEF TypeOK
      <4>4. \A p \in {"s", "p"} : p # o => SizeGiven(p, optind - 1)'
        BY <1>2, <1>b, <2>0, <4>1, <4>2, <4>3, GivenBefore DEF SizesGiven
      <4>5. SizeGiven(o, optind - 1)'
        <5>1. Cut(n) = n % Wrap
          BY <4>2 DEF Cut
        <5>2. optind' - 1 = optind /\ optind \in 1..optind /\ (optind + 1)..optind = {}
          BY <1>b, <4>2
        <5>3. args' = args /\ args'[optind].o = o /\ args'[optind].n = n
          BY <1>2, <4>1
        <5> QED BY <4>2, <4>3, <5>1, <5>2, <5>3 DEF SizeGiven, LastGiven
      <4>6. (\A p \in {"s", "p"} : InRange(p, size[p]))'
        BY <2>0, <4>2, <4>3 DEF InRange
      <4> QED BY <4>4, <4>5, <4>6 DEF SizesGiven
    <3>3. CASE OpenFile
      <4>1. UNCHANGED <<args, optind, size>>
        BY <3>3 DEF OpenFile, options
      <4> QED BY <2>0, <4>1 DEF SizesGiven, SizeGiven, LastGiven, InRange
    <3> QED BY <1>2, <3>1, <3>2, <3>3 DEF BadOption, VersionOption, Ending, Goto, Failed
  <2>2. "uninit" \notin ub'
    BY <1>1, <1>2 DEF Accepted, InOptions
  <2>3. pc' = "header" => optind' = Len(args') + 1
    <3>1. pc' = "header" => optind > Len(args) /\ optind' = optind /\ args' = args
      BY <1>2 DEF SizeOption, FlagOption, BadOption, VersionOption, OpenFile, Goto, Failed
    <3> QED BY <1>a, <1>b, <3>1
  <2> QED BY <1>2, <2>1, <2>2, <2>3 DEF Accepted, Ending, InOptions, InVm
<1>5. Owned'
  BY <1>1, <1>2 DEF Owned, Ending, InOptions, LiveAt, NoMemoryForRodata
<1>6. EndsClean' /\ FreesOnce'
  BY <1>1, <1>2 DEF EndsClean, FreesOnce, Pointed, NoMemoryForRodata
<1> QED BY <1>3, <1>4, <1>5, <1>6 DEF DriverInv

(* The headers: what may be executed has passed the check, and is what     *)
(* was read of the file.                                                   *)
LEMMA HeaderInv ==
  ASSUME DriverInv, ReadHeader \/ OverflowHeader \/ CheckVersion
  PROVE  DriverInv'
<1>1. TypeOK /\ Accepted /\ Owned /\ EndsClean /\ FreesOnce
  BY DEF DriverInv
<1>2. /\ UNCHANGED <<args, optind, size, print_info, force_exec, print_only, file, istream, mem, ptr>>
      /\ exit_code' \in {0, 2, exit_code}
      /\ \/ /\ pc \in {"header", "version"} /\ pc' = "terminate"
            /\ ub' = ub /\ prog' = prog /\ (left' = left \/ left' = file.bytes - Wanted)
         \/ /\ pc = "header" /\ pc' = "undefined" /\ ub' = ub \cup {"overflow"}
            /\ prog' = prog /\ left' = left
         \/ /\ pc = "header" /\ pc' = "version" /\ ub' = ub /\ prog' = prog
            /\ left' = file.bytes - Wanted
         \/ /\ pc = "version" /\ pc' = "text" /\ left' = left /\ MayExecute
            /\ ub' = IF Wanted < ProgHeaderSize THEN ub \cup {"uninit"} ELSE ub
  BY DEF ReadHeader, OverflowHeader, CheckVersion, Goto, Failed, options, bytecode
<1>3. /\ file.bytes \in Nat /\ left \in Nat /\ left <= file.bytes /\ Wanted \in Nat
      /\ file.found \in BOOLEAN
  BY <1>1, FileBytes
<1>4. ReadHeader => /\ ~file.found \/ Wanted > file.bytes => left' = left /\ pc' = "terminate"
                    /\ file.found /\ ~(Wanted > file.bytes) =>
                         HeaderRead /\ left' = file.bytes - Wanted /\ left' \in 0..file.bytes
  BY <1>3 DEF ReadHeader, HeaderOverflows, HeaderRead, Goto, Failed, ProgHeaderSize
<1>5. left' \in 0..file'.bytes
  <2>1. CASE ReadHeader
    BY <1>2, <1>3, <1>4, <2>1
  <2>2. CASE left' = left
    BY <1>2, <1>3, <2>2
  <2> QED BY <2>1, <2>2 DEF OverflowHeader, CheckVersion, bytecode
<1>6. prog' \in [text_size : Num, rodata_size : Num]
  BY <1>1 DEF TypeOK, ReadHeader, OverflowHeader, CheckVersion, bytecode, Failed, Goto
<1>7. pc' = "text" => MayHold(prog, Wanted)'
  <2>1. pc' = "text" => MayHold(prog', Wanted)
    BY <1>2 DEF ReadHeader, OverflowHeader, CheckVersion, Failed, Goto
  <2>2. Wanted' = Wanted
    BY <1>2 DEF Wanted
  <2> QED BY <1>2, <2>1, <2>2 DEF MayHold
<1>8. TypeOK'
  <2>1. pc' \in Labels /\ exit_code' \in 0..3
    BY <1>1, <1>2 DEF Labels, TypeOK
  <2>2. ub' \subseteq {"double_free", "unreachable", "overflow", "uninit"}
    BY <1>1, <1>2 DEF TypeOK
  <2> QED BY <1>1, <1>2, <1>5, <1>6, <2>1, <2>2 DEF TypeOK
<1>9. Accepted'
  <2>1. /\ SizesGiven(optind - 1)' = SizesGiven(optind - 1)
        /\ (\A o \in {"s", "p"} : InRange(o, size[o]))' = (\A o \in {"s", "p"} : InRange(o, size[o]))
    BY <1>2 DEF SizesGiven, SizeGiven, LastGiven, InRange
  <2>2. MayExecute' = MayExecute /\ HeaderRead' = HeaderRead /\ Wanted' = Wanted
    BY <1>2 DEF MayExecute, HeaderRead, Wanted
  <2>3. pc \notin Ending /\ SizesGiven(optind - 1) /\ \A o \in {"s", "p"} : InRange(o, size[o])
    BY <1>1, <1>2 DEF Accepted, Ending
  <2>4. optind = Len(args) + 1 /\ "uninit" \notin ub
    BY <1>1, <1>2 DEF Accepted, Ending, InOptions
  <2>5. pc = "version" => HeaderRead /\ Wanted + left = file.bytes
    BY <1>1 DEF Accepted, Ending
  <2>6. pc' = "version" => HeaderRead /\ Wanted + left' = file.bytes
    <3>1. pc' = "version" => ReadHeader /\ left' = file.bytes - Wanted /\ HeaderRead
      BY <1>2, <1>4 DEF OverflowHeader, CheckVersion, Goto, Failed
    <3> QED BY <1>3, <3>1
  <2>7. pc' \in {"version", "text", "terminate", "undefined"}
    BY <1>2
  <2>8. CASE pc' \in {"terminate", "undefined"}
    BY <2>8 DEF Accepted, Ending, InOptions, InVm
  <2>9. CASE pc' = "version"
    BY <1>2, <2>1, <2>2, <2>3, <2>4, <2>6, <2>9 DEF Accepted, Ending, InOptions, InVm
  <2>10. CASE pc' = "text"
    BY <1>2, <1>7, <2>1, <2>2, <2>3, <2>4, <2>5, <2>10 DEF Accepted, Ending, InOptions, InVm
  <2> QED BY <2>7, <2>8, <2>9, <2>10
<1>10. Owned'
  BY <1>1, <1>2 DEF Owned, Ending, InOptions, LiveAt, NoMemoryForRodata
<1>11. EndsClean' /\ FreesOnce'
  BY <1>1, <1>2 DEF EndsClean, FreesOnce, Pointed, NoMemoryForRodata
<1> QED BY <1>8, <1>9, <1>10, <1>11 DEF DriverInv

(* What u6a_runtime_destroy leaves: no section is live or pointed to, and  *)
(* a block it frees was live, unless there was no memory for rodata.       *)
LEMMA DestroyDoes ==
  ASSUME TypeOK, Owned, FreesOnce, Destroy,
         pc = "sections" \/ pc = "terminate"
  PROVE  /\ mem' \in [Blocks -> {"none", "live", "freed"}]
         /\ \A b \in {"text", "rodata"} : ptr'[b] = FALSE /\ mem'[b] # "live"
         /\ ptr' \in [{"text", "rodata"} -> BOOLEAN]
         /\ ub' \in {ub, ub \cup {"double_free"}}
         /\ ub' # ub => NoMemoryForRodata'
         /\ NoMemoryForRodata => NoMemoryForRodata'
<1>1. /\ mem \in [Blocks -> {"none", "live", "freed"}]
      /\ ptr \in [{"text", "rodata"} -> BOOLEAN]
      /\ DOMAIN ptr = {"text", "rodata"} /\ {"text", "rodata"} \subseteq Blocks
  BY DEF TypeOK, Blocks
<1>2. /\ mem' = Freed(mem, Pointed) /\ ptr' = [b \in {"text", "rodata"} |-> FALSE]
      /\ ub' = IF \E b \in Pointed : mem[b] = "freed" THEN ub \cup {"double_free"} ELSE ub
  BY <1>1 DEF Destroy
<1>3. \A b \in Blocks : mem'[b] = IF b \in Pointed /\ mem[b] = "live" THEN "freed" ELSE mem[b]
  BY <1>1, <1>2 DEF Freed
<1>4. mem' \in [Blocks -> {"none", "live", "freed"}]
  BY <1>1, <1>2 DEF Freed
<1>5. ptr' \in [{"text", "rodata"} -> BOOLEAN] /\ \A b \in {"text", "rodata"} : ptr'[b] = FALSE
  BY <1>2
<1>6. \A b \in {"text", "rodata"} : mem'[b] # "live"
  <2>1. ASSUME NEW b \in {"text", "rodata"}, mem[b] = "live" PROVE ptr[b]
    BY <2>1 DEF Owned, NoMemoryForRodata
  <2>2. \A b \in {"text", "rodata"} : mem[b] = "live" => b \in Pointed
    BY <1>1, <2>1 DEF Pointed
  <2> QED BY <1>1, <1>3, <2>2
<1>7. NoMemoryForRodata => NoMemoryForRodata'
  BY <1>1, <1>3 DEF NoMemoryForRodata
<1>8. ub' # ub => NoMemoryForRodata
  <2>1. \A b \in Pointed : b \in {"text", "rodata"} /\ ptr[b]
    BY <1>1 DEF Pointed
  <2> QED BY <1>2, <2>1 DEF Owned
<1>9. ub' \in {ub, ub \cup {"double_free"}}
  BY <1>2
<1> QED BY <1>4, <1>5, <1>6, <1>7, <1>8, <1>9

(* text and rodata, and what is read into them.                            *)
LEMMA SectionsInv ==
  ASSUME DriverInv, AllocText \/ AllocRodata
  PROVE  DriverInv'
<1>1. TypeOK /\ Accepted /\ Owned /\ EndsClean /\ FreesOnce
  BY DEF DriverInv
<1>2. /\ UNCHANGED <<args, optind, size, print_info, force_exec, print_only, file, left, prog, istream, ub>>
      /\ mem \in [Blocks -> {"none", "live", "freed"}]
      /\ ptr \in [{"text", "rodata"} -> BOOLEAN]
      /\ \A b \in {"text", "rodata"} : ptr[b] <=> mem[b] = "live"
      /\ pc \in {"text", "rodata"}
      /\ mem = [b \in Blocks |-> IF b \in LiveAt(pc) THEN "live" ELSE "none"]
  BY <1>1 DEF AllocText, AllocRodata, TypeOK, Owned, Ending, options, bytecode
<1>3. /\ mem' \in [Blocks -> {"none", "live", "freed"}] /\ ptr' \in [{"text", "rodata"} -> BOOLEAN]
      /\ pc' \in {"rodata", "sections", "terminate"} /\ exit_code' \in {0, 2}
  <2>1. \/ mem' = [mem EXCEPT !["text"] = "live"] /\ ptr' = [ptr EXCEPT !["text"] = TRUE]
        \/ mem' = [mem EXCEPT !["rodata"] = "live"] /\ ptr' = [ptr EXCEPT !["rodata"] = TRUE]
        \/ mem' = mem /\ ptr' = ptr
        \/ mem' = Freed(mem, {"text"}) /\ ptr' = ptr
    BY DEF AllocText, AllocRodata
  <2>2. Freed(mem, {"text"}) \in [Blocks -> {"none", "live", "freed"}]
    BY <1>2 DEF Freed
  <2>3. mem' \in [Blocks -> {"none", "live", "freed"}]
    BY <1>2, <2>1, <2>2
  <2>4. ptr' \in [{"text", "rodata"} -> BOOLEAN]
    <3>1. /\ ptr \in [{"text", "rodata"} -> BOOLEAN]
          /\ \/ ptr' = [ptr EXCEPT !["text"] = TRUE]
             \/ ptr' = [ptr EXCEPT !["rodata"] = TRUE]
             \/ ptr' = ptr
      BY <1>2, <2>1, Zenon
    <3> QED BY <3>1
  <2>5. pc' \in {"rodata", "sections", "terminate"} /\ exit_code' \in {0, 2}
    BY DEF AllocText, AllocRodata, Goto, Failed
  <2> QED BY <2>3, <2>4, <2>5
<1>4. TypeOK'
  BY <1>1, <1>2, <1>3 DEF TypeOK, Labels
<1>5. Accepted'
  <2>1. /\ SizesGiven(optind - 1)' /\ (\A o \in {"s", "p"} : InRange(o, size[o]))'
        /\ MayExecute' /\ MayHold(prog, Wanted)' /\ HeaderRead' /\ Wanted' = Wanted
    BY <1>1, <1>2, Kept DEF Accepted, Ending, InOptions
  <2>2. /\ optind' = Len(args') + 1 /\ Wanted' + left' = file'.bytes
        /\ "uninit" \in ub' <=> Wanted' < ProgHeaderSize
    BY <1>1, <1>2, <2>1 DEF Accepted, Ending, InOptions
  <2> QED BY <1>3, <2>1, <2>2 DEF Accepted, Ending, InOptions, InVm
<1>6. Owned'
  <2>1. CASE AllocText
    <3>1. pc = "text" /\ mem = [b \in Blocks |-> "none"]
      BY <1>2, <2>1 DEF AllocText, LiveAt, InOptions
    <3>2. CASE mem' = [mem EXCEPT !["text"] = "live"] /\ ptr' = [ptr EXCEPT !["text"] = TRUE]
               /\ pc' = "rodata"
      <4>1. mem' = [b \in Blocks |-> IF b \in LiveAt("rodata") THEN "live" ELSE "none"]
        BY <3>1, <3>2 DEF LiveAt, InOptions, Blocks
      <4>2. \A b \in {"text", "rodata"} : ptr'[b] <=> mem'[b] = "live"
        BY <1>2, <3>2 DEF Blocks
      <4> QED BY <3>2, <4>1, <4>2 DEF Owned
    <3>3. CASE pc' = "terminate" /\ UNCHANGED <<mem, ptr>>
      BY <1>2, <3>3 DEF Owned, Ending
    <3> QED BY <2>1, <3>2, <3>3 DEF AllocText, Goto, Failed
  <2>2. CASE AllocRodata
    <3>1. pc = "rodata" /\ mem = [b \in Blocks |-> IF b = "text" THEN "live" ELSE "none"]
      BY <1>2, <2>2 DEF AllocRodata, LiveAt, InOptions
    <3>2. CASE mem' = [mem EXCEPT !["rodata"] = "live"] /\ ptr' = [ptr EXCEPT !["rodata"] = TRUE]
               /\ pc' = "sections"
      <4>1. mem' = [b \in Blocks |-> IF b \in LiveAt("sections") THEN "live" ELSE "none"]
        BY <3>1, <3>2 DEF LiveAt, InOptions, Blocks
      <4>2. \A b \in {"text", "rodata"} : ptr'[b] <=> mem'[b] = "live"
        BY <1>2, <3>2 DEF Blocks
      <4> QED BY <3>2, <4>1, <4>2 DEF Owned
    <3>3. CASE mem' = Freed(mem, {"text"}) /\ pc' = "terminate" /\ ptr' = ptr
      <4>1. mem'["text"] = "freed" /\ mem'["rodata"] = "none" /\ ~ptr'["rodata"]
        BY <1>2, <3>1, <3>3 DEF Freed, Blocks
      <4> QED BY <3>3, <4>1 DEF Owned, Ending, NoMemoryForRodata
    <3> QED BY <2>2, <3>2, <3>3 DEF AllocRodata, Goto, Failed
  <2> QED BY <2>1, <2>2
<1>7. EndsClean'
  BY <1>3 DEF EndsClean
<1>8. FreesOnce'
  <2>1. "double_free" \notin ub
    BY <1>1, <1>2 DEF FreesOnce, NoMemoryForRodata, LiveAt, InOptions, Blocks
  <2>2. DOMAIN ptr' = {"text", "rodata"}
    BY <1>3
  <2> QED BY <1>2, <1>6, <2>1, <2>2 DEF FreesOnce, Owned, Pointed
<1> QED BY <1>4, <1>5, <1>6, <1>7, <1>8 DEF DriverInv

LEMMA ReadInv ==
  ASSUME DriverInv, ReadSections
  PROVE  DriverInv'
<1>1. TypeOK /\ Accepted /\ Owned /\ EndsClean /\ FreesOnce
  BY DEF DriverInv
<1>2. pc = "sections" /\ UNCHANGED <<args, optind, size, print_info, force_exec, print_only, file, prog, istream>>
  BY DEF ReadSections, options
<1>3. /\ file.bytes \in Nat /\ left \in Nat /\ left <= file.bytes /\ Wanted \in Nat
      /\ TextBytes \in Nat /\ prog.rodata_size \in Nat
  BY <1>1, FileBytes
<1>4. CASE /\ TextBytes + prog.rodata_size <= left
           /\ left' = left - TextBytes - prog.rodata_size
           /\ pc' = "stack" /\ exit_code' = 0 /\ UNCHANGED <<mem, ptr, ub>>
  <2>0. /\ SizesGiven(optind - 1)' /\ (\A o \in {"s", "p"} : InRange(o, size[o]))'
        /\ MayExecute' /\ MayHold(prog, Wanted)' /\ HeaderRead'
        /\ Wanted' = Wanted /\ TextBytes' = TextBytes
    BY <1>1, <1>2, Kept DEF Accepted, Ending, InOptions
  <2>1. TypeOK'
    <3>1. left' \in 0..file'.bytes
      BY <1>2, <1>3, <1>4
    <3> QED BY <1>1, <1>2, <1>4, <3>1 DEF TypeOK, Labels
  <2>2. Accepted'
    <3>1. Wanted + left = file.bytes
      BY <1>1, <1>2 DEF Accepted
    <3>2. Wanted' + TextBytes' + prog'.rodata_size + left' = file'.bytes
      <4>1. Wanted + TextBytes + prog.rodata_size + (left - TextBytes - prog.rodata_size) = file.bytes
        BY <1>3, <3>1
      <4> QED BY <1>2, <1>4, <2>0, <4>1
    <3>3. optind' = Len(args') + 1 /\ ("uninit" \in ub' <=> Wanted' < ProgHeaderSize)
      BY <1>1, <1>2, <1>4, <2>0 DEF Accepted, Ending, InOptions
    <3> QED BY <1>4, <2>0, <3>2, <3>3 DEF Accepted, Ending, InOptions, InVm
  <2>3. Owned'
    BY <1>1, <1>2, <1>4 DEF Owned, Ending, InOptions, LiveAt, NoMemoryForRodata
  <2>4. EndsClean' /\ FreesOnce'
    BY <1>1, <1>2, <1>4 DEF EndsClean, FreesOnce, Pointed, NoMemoryForRodata
  <2> QED BY <2>1, <2>2, <2>3, <2>4 DEF DriverInv
<1>5. CASE Destroy /\ pc' = "terminate" /\ exit_code' = 2 /\ left' = left
  <2>1. /\ mem' \in [Blocks -> {"none", "live", "freed"}]
        /\ \A b \in {"text", "rodata"} : ptr'[b] = FALSE /\ mem'[b] # "live"
        /\ ptr' \in [{"text", "rodata"} -> BOOLEAN]
        /\ ub' \in {ub, ub \cup {"double_free"}}
        /\ ub' # ub => NoMemoryForRodata'
        /\ NoMemoryForRodata => NoMemoryForRodata'
    BY <1>1, <1>2, <1>5, DestroyDoes
  <2>2. TypeOK'
    BY <1>1, <1>2, <1>5, <2>1 DEF TypeOK, Labels
  <2>3. Accepted'
    BY <1>5 DEF Accepted, Ending, InOptions, InVm
  <2>4. Owned'
    BY <1>5, <2>1 DEF Owned, Ending
  <2>5. EndsClean'
    BY <1>5 DEF EndsClean
  <2>6. FreesOnce'
    <3>1. Pointed' = {}
      BY <2>1 DEF Pointed
    <3> QED BY <1>1, <2>1, <3>1 DEF FreesOnce
  <2> QED BY <2>2, <2>3, <2>4, <2>5, <2>6 DEF DriverInv
<1> QED BY <1>4, <1>5 DEF ReadSections, Enough, Goto, Failed

(* The stack and the three blocks of the pool.                             *)
LEMMA VmInv ==
  ASSUME DriverInv, NEW i \in DOMAIN Order, AllocVm(i)
  PROVE  DriverInv'
<1>1. TypeOK /\ Accepted /\ Owned /\ EndsClean /\ FreesOnce
  BY DEF DriverInv
<1>2. /\ i \in 1..4 /\ Len(Order) = 4 /\ Order[1] = "stack" /\ Order[2] = "pool"
      /\ Order[3] = "holes" /\ Order[4] = "fstack"
  BY DEF Order
<1>3. /\ pc = Order[i] /\ pc \in InVm
      /\ UNCHANGED <<args, optind, size, print_info, force_exec, print_only, file, left, prog, istream, ub>>
  BY <1>2 DEF AllocVm, InVm, options, bytecode
<1>4. /\ SizesGiven(optind - 1)' /\ (\A o \in {"s", "p"} : InRange(o, size[o]))'
      /\ MayExecute' /\ MayHold(prog, Wanted)' /\ HeaderRead'
      /\ Wanted' = Wanted /\ TextBytes' = TextBytes
  BY <1>1, <1>3, Kept DEF Accepted, Ending, InOptions, InVm
<1>5. mem = [b \in Blocks |-> IF b \in LiveAt(pc) THEN "live" ELSE "none"]
      /\ ~NoMemoryForRodata /\ \A b \in {"text", "rodata"} : ptr[b] <=> mem[b] = "live"
  BY <1>1, <1>3 DEF Owned, Ending, InVm, InOptions, LiveAt, NoMemoryForRodata, Blocks
<1>6. mem \in [Blocks -> {"none", "live", "freed"}] /\ ptr \in [{"text", "rodata"} -> BOOLEAN]
  BY <1>1 DEF TypeOK
<1>7. "double_free" \notin ub
  BY <1>1, <1>5 DEF FreesOnce
<1>8. CASE /\ mem' = [mem EXCEPT ![Order[i]] = "live"] /\ UNCHANGED ptr /\ exit_code' = 0
           /\ pc' = IF i < Len(Order) THEN Order[i + 1] ELSE "execute"
  <2>1. mem' \in [Blocks -> {"none", "live", "freed"}] /\ pc' \in {"pool", "holes", "fstack", "execute"}
    <3>1. mem' \in [Blocks -> {"none", "live", "freed"}]
      BY <1>6, <1>8
    <3>2. CASE i = 4
      BY <1>2, <1>8, <3>1, <3>2
    <3>3. CASE i # 4
      <4>1. i = 1 \/ i = 2 \/ i = 3
        BY <1>2, <3>3
      <4>2. pc' = Order[i + 1]
        BY <1>2, <1>8, <4>1
      <4>3. pc' = Order[2] \/ pc' = Order[3] \/ pc' = Order[4]
        BY <4>1, <4>2
      <4> QED BY <1>2, <3>1, <4>3
    <3> QED BY <3>2, <3>3
  <2>2. TypeOK'
    BY <1>1, <1>3, <1>8, <2>1 DEF TypeOK, Labels, InVm
  <2>3. Accepted'
    <3>1. /\ Wanted + TextBytes + prog.rodata_size + left = file.bytes
          /\ optind = Len(args) + 1 /\ ("uninit" \in ub <=> Wanted < ProgHeaderSize)
      BY <1>1, <1>3 DEF Accepted, Ending, InOptions, InVm
    <3>2. /\ Wanted' + TextBytes' + prog'.rodata_size + left' = file'.bytes
          /\ optind' = Len(args') + 1 /\ ("uninit" \in ub' <=> Wanted' < ProgHeaderSize)
      BY <1>3, <1>4, <3>1
    <3> QED BY <1>4, <2>1, <3>2 DEF Accepted, Ending, InOptions, InVm
  <2>4. mem' = [b \in Blocks |-> IF b \in LiveAt(pc') THEN "live" ELSE "none"]
    <3>1. mem' = [b \in Blocks |-> IF b \in LiveAt(pc) \cup {pc} THEN "live" ELSE "none"]
      BY <1>3, <1>5, <1>8
    <3>2. \A b \in Blocks : b \in LiveAt(pc') <=> b \in LiveAt(pc) \cup {pc}
      <4>1. CASE i = 1
        BY <1>2, <1>3, <1>8, <4>1 DEF LiveAt, InOptions, Blocks
      <4>2. CASE i = 2
        BY <1>2, <1>3, <1>8, <4>2 DEF LiveAt, InOptions, Blocks
      <4>3. CASE i = 3
        BY <1>2, <1>3, <1>8, <4>3 DEF LiveAt, InOptions, Blocks
      <4>4. CASE i = 4
        BY <1>2, <1>3, <1>8, <4>4 DEF LiveAt, InOptions, Blocks
      <4> QED BY <1>2, <4>1, <4>2, <4>3, <4>4
    <3> QED BY <3>1, <3>2
  <2>5. \A b \in {"text", "rodata"} : ptr'[b] <=> mem'[b] = "live"
    BY <1>2, <1>5, <1>6, <1>8 DEF Blocks
  <2>6. Owned'
    BY <2>4, <2>5 DEF Owned
  <2>7. EndsClean'
    BY <2>1 DEF EndsClean, InVm
  <2>8. FreesOnce'
    BY <1>3, <1>6, <1>7, <1>8, <2>5 DEF FreesOnce, Pointed
  <2> QED BY <2>2, <2>3, <2>6, <2>7, <2>8 DEF DriverInv
<1>9. CASE /\ mem' = Freed(mem, Pointed \cup {Order[j] : j \in 2..(i - 1)})
           /\ ptr' = [b \in DOMAIN ptr |-> FALSE] /\ pc' = "terminate" /\ exit_code' = 2
  <2>1. mem' \in [Blocks -> {"none", "live", "freed"}]
    BY <1>6, <1>9 DEF Freed
  <2>2. ptr' = [b \in {"text", "rodata"} |-> FALSE]
    BY <1>6, <1>9
  <2>3. TypeOK'
    BY <1>1, <1>3, <1>9, <2>1, <2>2 DEF TypeOK, Labels
  <2>4. Accepted'
    BY <1>9 DEF Accepted, Ending, InOptions, InVm
  <2>5. \A b \in {"text", "rodata"} : mem'[b] # "live"
    <3>1. \A b \in {"text", "rodata"} : mem[b] = "live" => b \in Pointed
      BY <1>5, <1>6 DEF Pointed
    <3> QED BY <1>6, <1>9, <3>1 DEF Freed, Blocks
  <2>6. Owned'
    BY <1>9, <2>2, <2>5 DEF Owned, Ending
  <2>7. EndsClean'
    BY <1>9 DEF EndsClean
  <2>8. FreesOnce'
    BY <1>3, <1>7, <2>2 DEF FreesOnce, Pointed
  <2> QED BY <2>3, <2>4, <2>6, <2>7, <2>8 DEF DriverInv
<1> QED BY <1>8, <1>9 DEF AllocVm, Goto, Failed

(* The interpreter, and the end of main.                                   *)
LEMMA ExecuteInv ==
  ASSUME DriverInv, Execute
  PROVE  DriverInv'
<1>1. TypeOK /\ Accepted /\ Owned /\ EndsClean /\ FreesOnce
  BY DEF DriverInv
<1>2. /\ pc = "execute" /\ pc' = "terminate" /\ exit_code' \in {0, 3}
      /\ UNCHANGED <<args, optind, size, print_info, force_exec, print_only, file, left, prog, istream, mem, ptr, ub>>
  BY DEF Execute, Goto, Failed, options, bytecode
<1>3. TypeOK'
  BY <1>1, <1>2 DEF TypeOK, Labels
<1>4. Accepted' /\ Owned'
  BY <1>1, <1>2 DEF Accepted, Owned, Ending, InOptions, InVm, NoMemoryForRodata
<1>5. EndsClean' /\ FreesOnce'
  BY <1>1, <1>2 DEF EndsClean, FreesOnce, Pointed, NoMemoryForRodata
<1> QED BY <1>3, <1>4, <1>5 DEF DriverInv

LEMMA TerminateInv ==
  ASSUME DriverInv, Terminate
  PROVE  DriverInv'
<1>1. TypeOK /\ Accepted /\ Owned /\ EndsClean /\ FreesOnce
  BY DEF DriverInv
<1>2. /\ pc = "terminate" /\ pc' = "done" /\ Destroy
      /\ istream' = IF istream = "open" THEN "closed" ELSE istream
      /\ UNCHANGED <<args, optind, size, print_info, force_exec, print_only, file, left, prog, exit_code>>
  BY DEF Terminate, options, bytecode
<1>3. /\ mem' \in [Blocks -> {"none", "live", "freed"}]
      /\ \A b \in {"text", "rodata"} : ptr'[b] = FALSE /\ mem'[b] # "live"
      /\ ptr' \in [{"text", "rodata"} -> BOOLEAN]
      /\ ub' \in {ub, ub \cup {"double_free"}}
      /\ ub' # ub => NoMemoryForRodata'
      /\ NoMemoryForRodata => NoMemoryForRodata'
  BY <1>1, <1>2, DestroyDoes
<1>4. TypeOK'
  BY <1>1, <1>2, <1>3 DEF TypeOK, Labels
<1>5. Accepted'
  BY <1>2 DEF Accepted, Ending, InOptions, InVm
<1>6. Owned'
  BY <1>2, <1>3 DEF Owned, Ending
<1>7. EndsClean'
  BY <1>1, <1>2, <1>3 DEF EndsClean, TypeOK
<1>8. FreesOnce'
  <2>1. Pointed' = {}
    BY <1>3 DEF Pointed
  <2> QED BY <1>1, <1>3, <2>1 DEF FreesOnce
<1> QED BY <1>4, <1>5, <1>6, <1>7, <1>8 DEF DriverInv

-----------------------------------------------------------------------------

LEMMA NextInv == DriverInv /\ [Next]_vars => DriverInv'
<1> SUFFICES ASSUME DriverInv, [Next]_vars PROVE DriverInv'
  OBVIOUS
<1>1. CASE SizeOption \/ FlagOption \/ BadOption \/ VersionOption \/ OpenFile
  BY <1>1, OptionsInv
<1>2. CASE ReadHeader \/ OverflowHeader \/ CheckVersion
  BY <1>2, HeaderInv
<1>3. CASE AllocText \/ AllocRodata
  BY <1>3, SectionsInv
<1>4. CASE ReadSections
  BY <1>4, ReadInv
<1>5. CASE \E i \in DOMAIN Order : AllocVm(i)
  BY <1>5, VmInv
<1>6. CASE Execute
  BY <1>6, ExecuteInv
<1>7. CASE Terminate
  BY <1>7, TerminateInv
<1>8. CASE UNCHANGED vars
  <2>1. TypeOK' /\ EndsClean' /\ FreesOnce'
    BY <1>8 DEF DriverInv, vars, options, bytecode, TypeOK, EndsClean, FreesOnce, Pointed,
                NoMemoryForRodata
  <2>2. Accepted'
    <3>1. UNCHANGED <<args, optind, size, force_exec, file, prog, left, pc, ub>>
      BY <1>8 DEF vars, options, bytecode
    <3>2. /\ SizesGiven(optind - 1)' = SizesGiven(optind - 1)
          /\ (\A o \in {"s", "p"} : InRange(o, size[o]))' = (\A o \in {"s", "p"} : InRange(o, size[o]))
          /\ MayExecute' = MayExecute /\ MayHold(prog, Wanted)' = MayHold(prog, Wanted)
          /\ TextBytes' = TextBytes /\ Wanted' = Wanted /\ HeaderRead' = HeaderRead
      BY <3>1, Kept
    <3> QED BY <3>1, <3>2 DEF DriverInv, Accepted
  <2>3. Owned'
    BY <1>8 DEF DriverInv, vars, Owned, NoMemoryForRodata
  <2> QED BY <2>1, <2>2, <2>3 DEF DriverInv
<1> QED BY <1>1, <1>2, <1>3, <1>4, <1>5, <1>6, <1>7, <1>8 DEF Next, Ended

(* DriverInv (its parts are in U6a) holds in every reachable state, on     *)
(* every command line and with every file: any byte for the size of the    *)
(* program header, any numbers in it, any length.                          *)
THEOREM DriverSound == Spec => []DriverInv
BY InitInv, NextInv, PTL DEF Spec

(* The flags, handles, sizes and the exit code of u6a keep their ranges on *)
(* every command line.                                                     *)
THEOREM TypeCorrect == Spec => []TypeOK
<1>1. DriverInv => TypeOK
  BY DEF DriverInv
<1> QED BY <1>1, DriverSound, PTL

(* However u6a ends, u6a_runtime_destroy has given the sections back and   *)
(* the bytecode file is closed.                                            *)
THEOREM EndsCleanHolds == Spec => []EndsClean
<1>1. DriverInv => EndsClean
  BY DEF DriverInv
<1> QED BY <1>1, DriverSound, PTL

(* A section is freed twice only when malloc had memory for text and none  *)
(* for rodata.                                                             *)
THEOREM FreesOnceHolds == Spec => []FreesOnce
<1>1. DriverInv => FreesOnce
  BY DEF DriverInv
<1> QED BY <1>1, DriverSound, PTL

(* u6a_runtime_execute runs with the sizes given last, in range; with a    *)
(* file of its version or one it was forced to take, whose sections lie    *)
(* whole in it and are, as far as it has a program header of 8 bytes, of   *)
(* the lengths in there, other bytes being whatever was on the stack; and  *)
(* with all six blocks.                                                    *)
THEOREM StartsCompleteHolds == Spec => []StartsComplete
<1>1. DriverInv => StartsComplete
  <2> SUFFICES ASSUME DriverInv, pc = "execute"
               PROVE  /\ SizesGiven(Len(args)) /\ \A o \in DOMAIN size : InRange(o, size[o])
                      /\ file.same_ver \/ force_exec
                      /\ SectionsLoaded
                      /\ \A b \in Blocks : mem[b] = "live"
                      /\ \A b \in DOMAIN ptr : ptr[b]
    BY DEF StartsComplete
  <2>1. TypeOK /\ Accepted /\ Owned
    BY DEF DriverInv
  <2>2. SizesGiven(Len(args)) /\ \A o \in DOMAIN size : InRange(o, size[o])
    <3>1. SizesGiven(optind - 1) /\ \A o \in {"s", "p"} : InRange(o, size[o])
      BY <2>1 DEF Accepted, Ending
    <3>2. optind - 1 = Len(args)
      <4>1. Len(args) \in Nat
        BY <2>1, ArgsAssumption DEF TypeOK
      <4>2. optind = Len(args) + 1
        BY <2>1 DEF Accepted, Ending
      <4> QED BY <4>1, <4>2
    <3> QED BY <2>1, <3>1, <3>2 DEF TypeOK
  <2>3. MayExecute /\ SectionsLoaded
    <3>1. left >= 0
      BY <2>1, FileBytes
    <3> QED BY <2>1, <3>1 DEF Accepted, SectionsLoaded, HeaderRead, Ending, InOptions, InVm
  <2>4. \A b \in Blocks : mem[b] = "live"
    BY <2>1 DEF Owned, Ending, LiveAt, InOptions
  <2>5. \A b \in DOMAIN ptr : ptr[b]
    BY <2>1, <2>4 DEF TypeOK, Owned, Blocks
  <2>6. file.same_ver \/ force_exec
    BY <2>3 DEF MayExecute
  <2> QED BY <2>2, <2>3, <2>4, <2>5, <2>6
<1> QED BY <1>1, DriverSound, PTL

=============================================================================
