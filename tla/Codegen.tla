------------------------------- MODULE Codegen -------------------------------
(***************************************************************************)
(* u6a_codegen and u6a_write_prefix: the syntax tree, one node per step,   *)
(* becomes instructions and strings, which are then written section by     *)
(* section; any allocation and any write may fail.                         *)
(***************************************************************************)
EXTENDS CodegenOps, Dump, FiniteSets

CONSTANTS Asts   (* the trees the parser may produce                       *)

(* Two more than U6A_TOKEN_MAX_LEN.                                         *)
MaxNodes == 4 * 1024 * 1024 + 2

ASSUME AstsAssumption == \A a \in Asts : IsTree(a) /\ Len(a) <= MaxNodes

VARIABLES
  ast,       (* ast_arr, see Parser                                        *)
  options,   (* prefix, optimize_const and dump_mnemonics                  *)
  node,      (* node_idx + 1                                               *)
  g,         (* text_buffer, rodata_buffer and stack, see CodegenOps       *)
  phase,     (* "idle" before the calls, "prefix", "alloc", "nodes", then  *)
             (* the section that is written next, "ok", "failed" or "wild" *)
  written    (* what went to the output stream, section by section         *)

vars == <<ast, options, node, g, phase, written>>

Options == [prefix : BOOLEAN, optimize_const : BOOLEAN, dump_mnemonics : BOOLEAN]

Init ==
  /\ ast = <<>>
  /\ options = [prefix |-> FALSE, optimize_const |-> FALSE, dump_mnemonics |-> FALSE]
  /\ node = 1
  /\ g = NewBuffers
  /\ phase = "idle"
  /\ written = <<>>

(* u6ac calls u6a_write_prefix, then u6a_codegen, with the same options.   *)
Start(tree, opts) ==
  /\ phase = "idle"
  /\ ast' = tree
  /\ options' = opts
  /\ phase' = "prefix"
  /\ UNCHANGED <<node, g, written>>

(* u6a_write_prefix: nothing for a dump and without a prefix.              *)
WritePrefix ==
  /\ phase = "prefix"
  /\ phase' = "alloc"
  /\ written' = IF options.dump_mnemonics \/ ~options.prefix THEN written
                ELSE Append(written, [sec |-> "prefix"])
  /\ UNCHANGED <<ast, options, node, g>>

Allocate ==
  /\ phase = "alloc"
  /\ phase' = "nodes"
  /\ UNCHANGED <<ast, options, node, g, written>>

GenerateNode ==
  /\ phase = "nodes" /\ node <= Len(ast)
  /\ g' = GenNode(g, ast, node, options.optimize_const)
  /\ node' = node + 1
  /\ UNCHANGED <<ast, options, phase, written>>

(* The sections that follow, in the order they are written.                *)
Sections == IF options.dump_mnemonics THEN <<"mnemonics", "data">>
            ELSE <<"header", "text", "rodata">>

Section(name) ==
  CASE name = "header"    -> [sec |-> name, text_len |-> Len(g.text),
                              rodata_len |-> Len(g.rodata)]
    [] name = "text"      -> [sec |-> name, text |-> g.text]
    [] name = "rodata"    -> [sec |-> name, rodata |-> g.rodata]
    [] name = "mnemonics" -> [sec |-> name, lines |-> Mnemonics(g.text)]
    [] name = "data"      -> [sec |-> name, lines |-> Hexdump(g.rodata)]

EndNodes ==
  /\ phase = "nodes" /\ node > Len(ast)
  /\ phase' = Sections[1]
  /\ UNCHANGED <<ast, options, node, g, written>>

WriteSection ==
  \E i \in DOMAIN Sections :
    /\ phase = Sections[i]
    /\ written' = Append(written, Section(Sections[i]))
    /\ phase' = IF i < Len(Sections) THEN Sections[i + 1] ELSE "ok"
    /\ UNCHANGED <<ast, options, node, g>>

(* fwrite wrote less than it should, or there is no memory for the         *)
(* buffers.                                                                *)
Failed ==
  /\ \/ phase = "prefix" /\ ~options.dump_mnemonics /\ options.prefix
     \/ phase = "alloc"
     \/ \E i \in DOMAIN Sections : phase = Sections[i]
  /\ phase = "rodata" => g.rodata # <<>>
  /\ phase' = "failed"
  /\ UNCHANGED <<ast, options, node, g, written>>

(* u6a_dump_data does not look whether malloc gave it memory for the       *)
(* characters it shows.                                                    *)
DumpNoMemory ==
  /\ phase = "data" /\ g.rodata # <<>>
  /\ phase' = "wild"
  /\ UNCHANGED <<ast, options, node, g, written>>

CodegenStep == \/ WritePrefix \/ Allocate \/ GenerateNode \/ EndNodes
               \/ WriteSection \/ Failed \/ DumpNoMemory

Next == (\E tree \in Asts, opts \in Options : Start(tree, opts)) \/ CodegenStep

Spec == Init /\ [][Next]_vars

-----------------------------------------------------------------------------

(* The output buffers, the traversal stack and the result of codegen.c     *)
(* keep their ranges through every step of u6a_codegen.                    *)
TypeOK ==
  /\ node \in 1..(Len(ast) + 1)
  /\ DOMAIN g = {"text", "rodata", "stack"}
  /\ \A n \in DOMAIN g.text : /\ g.text[n].op \in {"app", "la", "sa", "del", "lc"}
                              /\ g.text[n].offset \in Nat
  /\ g.rodata \in Seq(Nat)
  /\ \A i \in DOMAIN g.stack : g.stack[i].at \in 0..Len(g.text)
  /\ phase \in {"idle", "prefix", "alloc", "nodes", "header", "text", "rodata",
                "mnemonics", "data", "ok", "failed", "wild"}

(* Each of the three buffers has room for ast_len entries, and no node     *)
(* needs more: an instruction for each application, two for the ones whose *)
(* right child comes with an application of its own, a string's NUL on top *)
(* of its characters.                                                      *)
BuffersFit ==
  /\ Len(g.text) <= Len(ast)
  /\ Len(g.rodata) <= Len(ast)
  /\ Len(g.stack) <= Len(ast)

-----------------------------------------------------------------------------
(* What the instructions ought to be.  Offsets are distances here, from    *)
(* the instruction to the one it jumps to.                                 *)

Jump(op, n) == OpIns(op, n)

(* The code of node n, when code gives it for the nodes behind it.         *)
CodeRule(a, n, code) ==
  LET l  == a[n + 1].tok
      r  == a[a[n + 1].sibling].tok
      cl == code[n + 1]
      cr == code[a[n + 1].sibling]
  IN  CASE ~IsApp(a[n].tok) -> <<>>
        [] IsApp(a[n].tok) /\ IsApp(l) /\ IsApp(r) ->
             cl \o <<Jump("sa", Len(cr) + 2)>> \o cr \o <<OpIns("la", 0)>>
        [] IsApp(a[n].tok) /\ IsApp(l) /\ ~IsApp(r) -> cl \o <<AppIns(NoTok, r)>>
        [] IsApp(a[n].tok) /\ ~IsApp(l) /\ l.fn = "d" /\ IsApp(r) ->
             <<Jump("del", Len(cr) + 2)>> \o cr \o <<OpIns("la", 0)>>
        [] IsApp(a[n].tok) /\ ~IsApp(l) /\ l.fn # "d" /\ IsApp(r) ->
             cr \o <<AppIns(l, NoTok)>>
        [] IsApp(a[n].tok) /\ ~IsApp(l) /\ ~IsApp(r) -> <<AppIns(l, r)>>

CodesOf(a) == LET code[n \in DOMAIN a] == CodeRule(a, n, code) IN code

CodeOf(a) == CodesOf(a)[1]

(* The string at an offset of the data ends before the first NUL.          *)
StringAt(data, o) ==
  LET e == CHOOSE n \in (o + 1)..Len(data) :
             /\ data[n] = NUL
             /\ \A m \in (o + 1)..(n - 1) : data[m] # NUL
  IN  SubSeq(data, o + 1, e - 1)

(* Instruction n without the optimisation: a load of a string to print and *)
(* the application after it are one application for each character.        *)
Prints(text, data, n) ==
  LET str == StringAt(data, Swap32(text[n].offset))
      r   == text[n + 1].second
  IN  [i \in DOMAIN str |->
         AppIns(TokCh("out", str[i]), IF i = 1 THEN r ELSE NoTok)]

Plain(text, data, n) ==
  CASE text[n].op = "lc" -> Prints(text, data, n)
    [] text[n].op # "lc" /\ n > 1 /\ text[n - 1].op = "lc" -> <<>>
    [] OTHER -> <<text[n]>>

(* The number of plain instructions that the first n stand for.            *)
PlainLen(text, data) ==
  LET len[n \in 0..Len(text)] ==
        IF n = 0 THEN 0 ELSE len[n - 1] + Len(Plain(text, data, n))
  IN  len

(* A text, strings undone and offsets as distances.                        *)
PlainText(text, data) ==
  LET len == PlainLen(text, data)
  IN  FlattenSeq([n \in DOMAIN text |->
        IF text[n].op \in {"sa", "del"}
        THEN <<Jump(text[n].op, len[Swap32(text[n].offset)] - len[n - 1])>>
        ELSE Plain(text, data, n)])

(* The program that is written is the tree's, with and without the         *)
(* optimisation: every sa and del jumps behind the la that ends its        *)
(* operand, and every string prints what the applications it replaces do.  *)
TextIsTree == phase = "ok" => PlainText(g.text, g.rodata) = CodeOf(ast)

(* A dump shows the whole program: every instruction with its operands and *)
(* the line it jumps to, every byte of the strings once, in columns.       *)
DumpTells ==
  \A i \in DOMAIN written :
    /\ written[i].sec = "mnemonics" => TellsText(written[i].lines, g.text, g.rodata)
    /\ written[i].sec = "data" => TellsData(written[i].lines, g.rodata)

(* The sections of a dump are made when the buffers are complete, and the   *)
(* buffers stay as they are, whatever fails behind that.                   *)
Shown ==
  \A i \in DOMAIN written :
    written[i].sec \in {"mnemonics", "data"} =>
      /\ phase # "idle" /\ node = Len(ast) + 1
      /\ written[i] = Section(written[i].sec)

-----------------------------------------------------------------------------
(* Why the buffers are large enough and the jumps are set: what is true    *)
(* after every node, of buffers b and the first nodes of a tree.           *)

Leaves == {t \in Token : ~IsApp(t)}

Ins == [op : {"app", "la", "sa", "del", "lc"}, first : Leaves \cup {NoTok},
        second : Leaves \cup {NoTok}, offset : Nat]

Buffers == [text : Seq(Ins), rodata : Seq(0..255), stack : Seq([ins : Ins, at : Nat])]

(* A jump leads behind an la, or that la waits on the stack; nothing else  *)
(* gets an offset that way.                                                *)
JumpSet(b, n) == \E m \in (n + 1)..Len(b.text) :
                   b.text[n].offset = Swap32(m) /\ b.text[m].op = "la"
JumpWaits(b, n) == \E i \in DOMAIN b.stack : b.stack[i].ins.op = "la" /\ b.stack[i].at = n

Jumps(b) ==
  /\ \A i \in DOMAIN b.stack :
       /\ b.stack[i].ins.op \in {"app", "sa", "la"}
       /\ b.stack[i].at \in 0..Len(b.text)
       /\ b.stack[i].ins.op = "la" =>
            b.stack[i].at > 0 /\ b.text[b.stack[i].at].op \in {"sa", "del"}
  /\ \A n \in DOMAIN b.text :
       b.text[n].op \in {"sa", "del"} => JumpSet(b, n) \/ JumpWaits(b, n)

(* A string begins behind another one, and the last one is complete.       *)
Strings(b) ==
  /\ b.rodata # <<>> => b.rodata[Len(b.rodata)] = NUL
  /\ \A n \in DOMAIN b.text :
       b.text[n].op = "lc" =>
         \E o \in 0..(Len(b.rodata) - 1) :
           b.text[n].offset = Swap32(o) /\ (o = 0 \/ b.rodata[o] = NUL)

(* The children of the applications before node n, and the applications    *)
(* that are still to come and whose parent was before n.                   *)
Kids(a, n) == UNION {Children(a, i) : i \in {i \in 1..(n - 1) : IsApp(a[i].tok)}}
Open(a, n) == {m \in n..Len(a) : IsApp(a[m].tok) /\ m \in {1} \cup Kids(a, n)}

Sas(b) == {i \in DOMAIN b.stack : b.stack[i].ins.op = "sa"}

(* A waiting sa becomes an sa and an la, and a waiting print a character.  *)
Fits(b, k) == /\ Len(b.text) + Len(b.stack) + Cardinality(Sas(b)) <= k
              /\ Len(b.rodata) + Len(b.stack) <= k

(* Every waiting sa waits for an application, and one more is generated.   *)
Awaits(b, w) == \/ w = {} /\ b.stack = <<>>
                \/ Cardinality(w) = Cardinality(Sas(b)) + 1

NodesDone == phase \in {"header", "text", "rodata", "mnemonics", "data", "ok", "wild"}

CodegenInv ==
  /\ IF phase = "idle" THEN ast = <<>> ELSE ast \in Asts
  /\ options \in Options
  /\ node \in 1..(Len(ast) + 1)
  /\ NodesDone => node = Len(ast) + 1
  /\ phase \in {"idle", "prefix", "alloc", "nodes", "failed"} \/ NodesDone
  /\ g \in Buffers /\ Jumps(g) /\ Strings(g)
  /\ Fits(g, Cardinality(Kids(ast, node))) /\ Awaits(g, Open(ast, node))

(* When the program is written every sa and del jumps behind an la that    *)
(* comes after it, and every lc names the beginning of a string.           *)
JumpsLand ==
  NodesDone =>
    /\ \A n \in DOMAIN g.text : g.text[n].op \in {"sa", "del"} => JumpSet(g, n)
    /\ Strings(g)

=============================================================================
